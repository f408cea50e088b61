--------------------------- MODULE MemAlloc_proofs ---------------------------
(***************************************************************************)
(* The allocator of assignment4 is correct for every size of the memory,   *)
(* of the types and of the structs, and however variables come and go.     *)
(***************************************************************************)
EXTENDS MemAlloc, Sums_proofs

---------------------------------------------------------------------------
(* What the sizes of the first nodes of a list add up to.                  *)
SizesUpTo(list) == RunningTotal(Sizes(list))

Without(list, k) == SubSeq(list, 1, k - 1) \o SubSeq(list, k + 1, Len(list))

(* The nodes of a list.                                                    *)
LEMMA NodeFacts ==
    ASSUME NEW list \in Seq(Node)
    PROVE  /\ Len(list) \in Nat
           /\ \A j \in 1 .. Len(list) :
                 list[j] \in Node /\ list[j].name \in Name /\ list[j].size \in 0 .. MEM - 1
<1>1. \A j \in 1 .. Len(list) : list[j] \in Node
  OBVIOUS
<1> QED
  BY <1>1 DEF Node

(* The sizes of a list are numbers, one per node.                          *)
LEMMA SizesType ==
    ASSUME NEW list \in Seq(Node)
    PROVE  Sizes(list) \in Seq(Nat) /\ Len(Sizes(list)) = Len(list)
<1>1. Len(list) \in Nat
  OBVIOUS
<1>2. \A j \in 1 .. Len(list) : list[j].size \in Nat
  BY NodeFacts, MemAssumption
<1>3. Sizes(list) \in [1 .. Len(list) -> Nat]
  BY <1>2 DEF Sizes
<1> QED
  BY <1>1, <1>3

(* The sums of the sizes are what their recursive definition says.         *)
LEMMA SizeFacts ==
    ASSUME NEW list \in Seq(Node)
    PROVE  /\ SizesUpTo(list) \in [0 .. Len(list) -> Nat]
           /\ SizesUpTo(list)[0] = 0
           /\ \A k \in 1 .. Len(list) :
                 SizesUpTo(list)[k] = SizesUpTo(list)[k - 1] + list[k].size
<1>1. Sizes(list) \in Seq(Nat) /\ Len(Sizes(list)) = Len(list)
  BY SizesType
<1>2. \A k \in 1 .. Len(list) : Sizes(list)[k] = list[k].size
  BY DEF Sizes
<1> QED
  BY <1>1, <1>2, TotalFacts DEF SizesUpTo

(* A node lies behind the nodes before it.                                 *)
LEMMA SizesGrow ==
    ASSUME NEW list \in Seq(Node), NEW j \in 0 .. Len(list),
           NEW k \in 0 .. Len(list), j <= k
    PROVE  SizesUpTo(list)[j] <= SizesUpTo(list)[k]
<1>1. Sizes(list) \in Seq(Nat) /\ Len(Sizes(list)) = Len(list)
  BY SizesType
<1> QED
  BY <1>1, TotalGrows DEF SizesUpTo

(* A function that adds up the sizes is this sum.                          *)
LEMMA SizesAre ==
    ASSUME NEW list \in Seq(Node), NEW f,
           f[0] = 0,
           \A k \in 1 .. Len(list) : f[k] = f[k - 1] + list[k].size
    PROVE  \A k \in 0 .. Len(list) : SizesUpTo(list)[k] = f[k]
<1>1. Sizes(list) \in Seq(Nat) /\ Len(Sizes(list)) = Len(list)
  BY SizesType
<1>2. \A k \in 1 .. Len(Sizes(list)) : f[k] = f[k - 1] + Sizes(list)[k]
  BY <1>1 DEF Sizes
<1>3. \A k \in 0 .. Len(Sizes(list)) : RunningTotal(Sizes(list))[k] = f[k]
  BY <1>1, <1>2, TotalUnique
<1> QED
  BY <1>1, <1>3 DEF SizesUpTo

(* addNode changes no index, and the list grows by the new size.           *)
LEMMA AppendSizes ==
    ASSUME NEW list \in Seq(Node), NEW node \in Node
    PROVE  /\ Append(list, node) \in Seq(Node)
           /\ Len(Append(list, node)) = Len(list) + 1
           /\ \A k \in 1 .. Len(list) : Append(list, node)[k] = list[k]
           /\ Append(list, node)[Len(list) + 1] = node
           /\ \A k \in 0 .. Len(list) :
                 SizesUpTo(Append(list, node))[k] = SizesUpTo(list)[k]
           /\ SizesUpTo(Append(list, node))[Len(list) + 1]
                 = SizesUpTo(list)[Len(list)] + node.size
<1> DEFINE new == Append(list, node)
<1>1. /\ new \in Seq(Node) /\ Len(new) = Len(list) + 1 /\ Len(list) \in Nat
      /\ \A k \in 1 .. Len(list) : new[k] = list[k]
      /\ new[Len(list) + 1] = node
  OBVIOUS
<1> HIDE DEF new
<1>2. /\ SizesUpTo(new)[0] = 0
      /\ \A k \in 1 .. Len(list) + 1 :
            SizesUpTo(new)[k] = SizesUpTo(new)[k - 1] + new[k].size
  BY <1>1, SizeFacts
<1>3. \A k \in 1 .. Len(list) :
         SizesUpTo(new)[k] = SizesUpTo(new)[k - 1] + list[k].size
  BY <1>1, <1>2
<1>4. \A k \in 0 .. Len(list) : SizesUpTo(list)[k] = SizesUpTo(new)[k]
  BY <1>2, <1>3, SizesAre
<1>5. SizesUpTo(new)[Len(list) + 1] = SizesUpTo(new)[Len(list)] + node.size
  BY <1>1, <1>2
<1> QED
  BY <1>1, <1>4, <1>5 DEF new

(* removeNode moves the nodes behind the removed one down by its size.     *)
LEMMA RemoveSizes ==
    ASSUME NEW list \in Seq(Node), NEW k \in 1 .. Len(list)
    PROVE  /\ Without(list, k) \in Seq(Node)
           /\ Len(Without(list, k)) = Len(list) - 1
           /\ \A j \in 1 .. Len(list) - 1 :
                 Without(list, k)[j] = IF j < k THEN list[j] ELSE list[j + 1]
           /\ \A j \in 0 .. Len(list) - 1 :
                 SizesUpTo(Without(list, k))[j] =
                    IF j < k THEN SizesUpTo(list)[j]
                             ELSE SizesUpTo(list)[j + 1] - list[k].size
<1> DEFINE new == Without(list, k)
           a == SubSeq(list, 1, k - 1)
           b == SubSeq(list, k + 1, Len(list))
           f == [j \in 0 .. Len(list) - 1 |->
                    IF j < k THEN SizesUpTo(list)[j]
                             ELSE SizesUpTo(list)[j + 1] - list[k].size]
<1>1. Len(list) \in Nat /\ k \in Nat /\ 1 <= k /\ k <= Len(list)
  OBVIOUS
<1>2. /\ a \in Seq(Node) /\ Len(a) = k - 1
      /\ b \in Seq(Node) /\ Len(b) = Len(list) - k
      /\ \A j \in 1 .. k - 1 : a[j] = list[j]
      /\ \A j \in 1 .. Len(list) - k : b[j] = list[k + j]
  BY <1>1
<1>3. /\ new \in Seq(Node)
      /\ Len(new) = Len(list) - 1
      /\ \A j \in 1 .. Len(list) - 1 :
            new[j] = IF j < k THEN list[j] ELSE list[j + 1]
  <2>1. new = a \o b
    BY DEF Without
  <2> HIDE DEF a, b, new
  <2>2. new \in Seq(Node) /\ Len(new) = Len(a) + Len(b)
    BY <1>2, <2>1, ConcatProperties
  <2>3. \A j \in 1 .. Len(a) + Len(b) :
           new[j] = IF j <= Len(a) THEN a[j] ELSE b[j - Len(a)]
    BY <1>2, <2>1, ConcatProperties
  <2>4. ASSUME NEW j \in 1 .. Len(list) - 1
        PROVE  new[j] = IF j < k THEN list[j] ELSE list[j + 1]
    <3>1. j \in 1 .. Len(a) + Len(b)
      BY <1>1, <1>2
    <3>2. CASE j < k
      BY <1>1, <1>2, <2>3, <3>1, <3>2
    <3>3. CASE ~(j < k)
      <4>1. j - (k - 1) \in 1 .. Len(list) - k /\ k + (j - (k - 1)) = j + 1
        BY <1>1, <3>3
      <4>2. new[j] = b[j - (k - 1)]
        BY <1>1, <1>2, <2>3, <3>1, <3>3
      <4>3. b[j - (k - 1)] = list[k + (j - (k - 1))]
        BY <1>2, <4>1
      <4> QED
        BY <3>3, <4>1, <4>2, <4>3
    <3> QED
      BY <3>2, <3>3
  <2>5. new \in Seq(Node) /\ Len(new) = Len(list) - 1
    BY <1>1, <1>2, <2>2
  <2> QED
    BY <2>4, <2>5, Zenon
<1>4. /\ SizesUpTo(list) \in [0 .. Len(list) -> Nat]
      /\ SizesUpTo(list)[0] = 0
      /\ \A j \in 1 .. Len(list) :
            SizesUpTo(list)[j] = SizesUpTo(list)[j - 1] + list[j].size
  BY SizeFacts
<1>5. \A j \in 1 .. Len(list) : list[j].size \in Nat
  BY NodeFacts, MemAssumption
<1>6. \A j \in 0 .. Len(list) : SizesUpTo(list)[j] \in Nat
  BY <1>4
<1> HIDE DEF new
<1>7. f[0] = 0
  BY <1>1, <1>4
<1>8. ASSUME NEW j \in 1 .. Len(new) PROVE f[j] = f[j - 1] + new[j].size
  <2>1. j \in 0 .. Len(list) - 1 /\ j - 1 \in 0 .. Len(list) - 1
    BY <1>1, <1>3
  <2>2. CASE j < k
    BY <1>1, <1>3, <1>4, <1>5, <1>6, <2>1, <2>2
  <2>3. CASE ~(j < k)
    <3>1. /\ j + 1 \in 1 .. Len(list) /\ j \in 1 .. Len(list)
          /\ new[j] = list[j + 1]
      BY <1>1, <1>3, <2>1, <2>3
    <3>2. /\ SizesUpTo(list)[j + 1] = SizesUpTo(list)[j] + list[j + 1].size
          /\ SizesUpTo(list)[j] = SizesUpTo(list)[j - 1] + list[j].size
      BY <1>1, <1>4, <3>1
    <3>3. f[j] = SizesUpTo(list)[j + 1] - list[k].size
      BY <2>1, <2>3
    <3>4. f[j - 1] = SizesUpTo(list)[j] - list[k].size
      <4>1. CASE j = k
        BY <1>1, <2>1, <3>2, <4>1, <1>5, <1>6
      <4>2. CASE j > k
        BY <1>1, <2>1, <4>2
      <4> QED
        BY <1>1, <2>3, <4>1, <4>2
    <3>5. /\ SizesUpTo(list)[j] \in Nat /\ SizesUpTo(list)[j + 1] \in Nat
          /\ list[k].size \in Nat /\ list[j + 1].size \in Nat
      BY <1>5, <1>6, <3>1
    <3> HIDE DEF f
    <3> QED
      BY <3>1, <3>2, <3>3, <3>4, <3>5
  <2> QED
    BY <2>2, <2>3
<1>9. \A j \in 0 .. Len(list) - 1 : SizesUpTo(new)[j] = f[j]
  <2> HIDE DEF f
  <2> QED
    BY <1>3, <1>7, <1>8, SizesAre
<1> QED
  BY <1>3, <1>9 DEF new
---------------------------------------------------------------------------
(* What the program relies on between its questions: the name it was given *)
(* is new until its node is added, what it asked about still fits, and the *)
(* bytes of a struct that is being read lie behind the list.               *)
AskedInv ==
    /\ prompt \in {"value", "count", "member"} => ~isAlreadyName(local.name)
    /\ prompt = "value" => getListSize + SizeOf[local.type] <= MEM
    /\ prompt = "member" =>
          /\ getListSize + local.structSize <= MEM
          /\ \A b \in 0 .. local.structSize - 1 :
                mem[getListSize + b] = <<local.name, b>>

ListInv == UniqueNames /\ ListFits /\ ValuesIntact

MemInv == TypeOK /\ ListInv /\ AskedInv

(* Every basic type fits into the memory, and is not all of it.            *)
LEMMA MemPositive ==
    MEM \in Nat /\ MEM > 1 /\ \A t \in Basic : SizeOf[t] \in 1 .. MEM - 1
<1>1. \A t \in Basic : SizeOf[t] \in 1 .. MEM - 1
  BY SizeAssumption DEF Basic
<1> QED
  BY <1>1, MemAssumption DEF Basic

(* The field size keeps every size but MEM, which it takes for 0.          *)
LEMMA UnsignedCharFacts ==
    ASSUME NEW s \in Nat, s <= MEM
    PROVE  UnsignedChar(s) \in 0 .. MEM - 1 /\ UnsignedChar(s) = IF s = MEM THEN 0 ELSE s
<1>1. CASE s = MEM
  BY <1>1, MemPositive DEF UnsignedChar
<1>2. CASE s < MEM
  BY <1>2, MemPositive DEF UnsignedChar
<1> QED
  BY <1>1, <1>2, MemPositive

(* The list as the operators of the model see it.                          *)
LEMMA ListFacts ==
    ASSUME TypeOK
    PROVE  /\ varlist \in Seq(Node) /\ Len(varlist) \in Nat
           /\ \A k \in 0 .. Len(varlist) :
                 /\ SizeOfFirst(k) = SizesUpTo(varlist)[k]
                 /\ SizesUpTo(varlist)[k] \in Nat
                 /\ SizesUpTo(varlist)[k] <= getListSize
           /\ getListSize = SizesUpTo(varlist)[Len(varlist)]
           /\ getListSize \in Nat
<1>1. varlist \in Seq(Node) /\ Len(varlist) \in Nat
  BY DEF TypeOK
<1>2. \A k : SizeOfFirst(k) = SizesUpTo(varlist)[k]
  BY DEF SizeOfFirst, SizesUpTo
<1>3. getListSize = SizesUpTo(varlist)[Len(varlist)]
  BY <1>2 DEF getListSize
<1>4. \A k \in 0 .. Len(varlist) : SizesUpTo(varlist)[k] \in Nat
  BY <1>1, SizeFacts
<1>5. \A k \in 0 .. Len(varlist) : SizesUpTo(varlist)[k] <= getListSize
  BY <1>1, <1>3, SizesGrow
<1> QED
  BY <1>1, <1>2, <1>3, <1>4, <1>5

(* A new node for the bytes that were written behind the list.             *)
LEMMA AddNodeInv ==
    ASSUME TypeOK, ListInv,
           NEW n \in Name, ~isAlreadyName(n),
           NEW s \in Nat, getListSize + s <= MEM,
           \A i \in 0 .. getListSize - 1 : mem'[i] = mem[i],
           \A b \in 0 .. s - 1 : mem'[getListSize + b] = <<n, b>>,
           addNode(n, s)
    PROVE  varlist' \in Seq(Node) /\ ListInv'
<1> DEFINE node == [name |-> n, size |-> UnsignedChar(s), bytes |-> s]
           old == SizesUpTo(varlist)
           new == SizesUpTo(varlist')
           len == Len(varlist)
<1>1. /\ UnsignedChar(s) \in 0 .. MEM - 1 /\ UnsignedChar(s) <= s
      /\ UnsignedChar(s) = s \/ UnsignedChar(s) = 0
  <2>1. getListSize \in Nat
    BY ListFacts
  <2> QED
    BY <2>1, UnsignedCharFacts, MemPositive
<1>2. node \in Node
  BY <1>1 DEF Node
<1>3. varlist' = Append(varlist, node)
  BY DEF addNode
<1>4. /\ varlist \in Seq(Node) /\ len \in Nat
      /\ getListSize = old[len] /\ getListSize \in Nat
  BY ListFacts
<1> HIDE DEF node
<1>5. /\ varlist' \in Seq(Node)
      /\ Len(varlist') = len + 1
      /\ \A k \in 1 .. len : varlist'[k] = varlist[k]
      /\ varlist'[len + 1] = node
      /\ \A k \in 0 .. len : new[k] = old[k]
      /\ new[len + 1] = old[len] + node.size
  BY <1>2, <1>3, <1>4, AppendSizes
<1>6. node.name = n /\ node.size = UnsignedChar(s)
  BY DEF node
<1> HIDE DEF len
<1>7. UniqueNames'
  <2>1. \A k \in 1 .. len : varlist'[k].name # n
    BY <1>5 DEF isAlreadyName, len
  <2>2. \A j, k \in 1 .. len : varlist'[j].name = varlist'[k].name => j = k
    BY <1>5 DEF ListInv, UniqueNames, len
  <2>3. \A k \in 1 .. len + 1 : k \in 1 .. len \/ k = len + 1
    BY <1>4
  <2> QED
    BY <1>5, <1>6, <2>1, <2>2, <2>3 DEF UniqueNames
<1>8. getListSize' = new[len + 1]
  BY <1>5 DEF getListSize, SizeOfFirst, SizesUpTo
<1>9. ListFits'
  BY <1>1, <1>4, <1>5, <1>6, <1>8, MemAssumption DEF ListFits
<1>10. ValuesIntact'
  <2> SUFFICES ASSUME NEW k \in 1 .. len + 1, NEW b \in 0 .. varlist'[k].size - 1
               PROVE  mem'[new[k - 1] + b] = <<varlist'[k].name, b>>
    BY <1>5 DEF ValuesIntact, getIndexOf, SizeOfFirst, SizesUpTo
  <2>1. CASE k \in 1 .. len
    <3>1. varlist'[k] = varlist[k] /\ new[k - 1] = old[k - 1]
      BY <1>4, <1>5, <2>1
    <3>2. mem[old[k - 1] + b] = <<varlist[k].name, b>>
      BY <2>1, <3>1
         DEF ListInv, ValuesIntact, getIndexOf, SizeOfFirst, SizesUpTo, len
    <3>3. old[k] = old[k - 1] + varlist[k].size /\ old[k] <= getListSize
      BY <1>4, <2>1, SizeFacts, ListFacts DEF len
    <3>4. old[k - 1] \in Nat /\ varlist[k].size \in Nat
      BY <1>4, <2>1, ListFacts, NodeFacts, MemAssumption DEF len
    <3>5. old[k - 1] + b \in 0 .. getListSize - 1
      <4>1. b \in 0 .. varlist[k].size - 1
        BY <3>1
      <4> DEFINE below == old[k - 1]
                 size == varlist[k].size
      <4>2. /\ below \in Nat /\ size \in Nat /\ b \in 0 .. size - 1
            /\ below + size <= getListSize /\ getListSize \in Nat
        BY <1>4, <3>3, <3>4, <4>1
      <4> HIDE DEF below, size
      <4>3. below + b \in 0 .. getListSize - 1
        BY <4>2
      <4> QED
        BY <4>3 DEF below
    <3> QED
      BY <3>1, <3>2, <3>5
  <2>2. CASE k = len + 1
    <3>1. varlist'[k] = node /\ k - 1 = len
      BY <1>4, <1>5, <2>2
    <3>2. new[k - 1] = getListSize
      BY <1>4, <1>5, <3>1
    <3>3. b \in 0 .. s - 1
      BY <1>1, <1>6, <3>1
    <3> QED
      BY <1>6, <3>1, <3>2, <3>3
  <2>3. k \in 1 .. len \/ k = len + 1
    BY <1>4
  <2> QED
    BY <2>1, <2>2, <2>3
<1> QED
  BY <1>5, <1>7, <1>9, <1>10 DEF ListInv

---------------------------------------------------------------------------
(* The type invariant part by part.                                        *)
Byte == (Name \X (0 .. MEM)) \cup {ZERO}
Memory == [0 .. MEM - 1 -> Byte]

LocalsOK(q, l) ==
    \/ q \in {"mode", "type", "remove"} /\ l = NoLocals
    \/ q = "value"  /\ l \in [name : Name, type : Basic]
    \/ q = "count"  /\ l \in [name : Name]
    \/ q = "member" /\ l \in [name : Name, left : 1 .. MaxMembers,
                              structSize : 0 .. MEM]

(* The type invariant, by its parts.                                       *)
LEMMA TypeParts ==
    /\ TypeOK <=> mem \in Memory /\ varlist \in Seq(Node) /\ LocalsOK(prompt, local)
    /\ TypeOK' <=>
          mem' \in Memory /\ varlist' \in Seq(Node) /\ LocalsOK(prompt', local')
<1>1. TypeOK <=>
         mem \in Memory /\ varlist \in Seq(Node) /\ LocalsOK(prompt, local)
  <2>1. CASE prompt \in {"mode", "type", "remove"}
    BY <2>1 DEF TypeOK, Memory, Byte, LocalsOK
  <2>2. CASE prompt = "value"
    BY <2>2 DEF TypeOK, Memory, Byte, LocalsOK
  <2>3. CASE prompt = "count"
    BY <2>3 DEF TypeOK, Memory, Byte, LocalsOK
  <2>4. CASE prompt = "member"
    BY <2>4 DEF TypeOK, Memory, Byte, LocalsOK
  <2> QED
    BY <2>1, <2>2, <2>3, <2>4 DEF TypeOK, LocalsOK
<1>2. TypeOK' <=>
         mem' \in Memory /\ varlist' \in Seq(Node) /\ LocalsOK(prompt', local')
  <2>1. CASE prompt' \in {"mode", "type", "remove"}
    BY <2>1 DEF TypeOK, Memory, Byte, LocalsOK, Node
  <2>2. CASE prompt' = "value"
    BY <2>2 DEF TypeOK, Memory, Byte, LocalsOK, Node
  <2>3. CASE prompt' = "count"
    BY <2>3 DEF TypeOK, Memory, Byte, LocalsOK, Node
  <2>4. CASE prompt' = "member"
    BY <2>4 DEF TypeOK, Memory, Byte, LocalsOK, Node
  <2> QED
    BY <2>1, <2>2, <2>3, <2>4 DEF TypeOK, LocalsOK, Node, Memory, Byte
<1> QED
  BY <1>1, <1>2

(* What is written and what is cleared is memory again.                    *)
LEMMA WriteFacts ==
    ASSUME mem \in Memory, NEW p \in Nat, NEW s \in Nat, NEW n \in Name,
           NEW b \in Nat, b + s <= MEM, p + s <= MEM
    PROVE  /\ Write(p, s, n, b) \in Memory
           /\ \A i \in 0 .. p - 1 : Write(p, s, n, b)[i] = mem[i]
           /\ \A j \in 0 .. s - 1 : Write(p, s, n, b)[p + j] = <<n, b + j>>
<1>1. DOMAIN mem = 0 .. MEM - 1 /\ MEM \in Nat
  BY MemAssumption DEF Memory
<1>2. ASSUME NEW i \in 0 .. MEM - 1
      PROVE  (IF i \in p .. p + s - 1 THEN <<n, b + i - p>> ELSE mem[i]) \in Byte
  <2>1. CASE i \in p .. p + s - 1
    <3>1. b + i - p \in 0 .. MEM
      BY <1>1, <2>1
    <3> QED
      BY <2>1, <3>1 DEF Byte
  <2>2. CASE i \notin p .. p + s - 1
    BY <1>2, <2>2 DEF Memory
  <2> QED
    BY <2>1, <2>2
<1>3. Write(p, s, n, b) \in Memory
  BY <1>1, <1>2 DEF Write, Memory
<1>4. \A i \in 0 .. p - 1 : Write(p, s, n, b)[i] = mem[i]
  BY <1>1 DEF Write
<1>5. ASSUME NEW j \in 0 .. s - 1
      PROVE  Write(p, s, n, b)[p + j] = <<n, b + j>>
  <2>1. p + j \in 0 .. MEM - 1 /\ p + j \in p .. p + s - 1 /\ b + (p + j) - p = b + j
    BY <1>1
  <2> QED
    BY <1>1, <2>1 DEF Write
<1> QED
  BY <1>3, <1>4, <1>5

(* memset clears the bytes it is told to and no others.                    *)
LEMMA ClearFacts ==
    ASSUME NEW m \in Memory, NEW p \in Nat, NEW s \in Nat
    PROVE  /\ Clear(m, p, s) \in Memory
           /\ \A i \in 0 .. p - 1 : i < MEM => Clear(m, p, s)[i] = m[i]
           /\ \A i \in p .. p + s - 1 : i < MEM => Clear(m, p, s)[i] = ZERO
<1>1. DOMAIN m = 0 .. MEM - 1 /\ MEM \in Nat
  BY MemAssumption DEF Memory
<1>2. \A i \in 0 .. MEM - 1 : m[i] \in Byte /\ ZERO \in Byte
  BY DEF Memory, Byte
<1>3. Clear(m, p, s) \in Memory
  BY <1>1, <1>2 DEF Clear, Memory
<1> QED
  BY <1>1, <1>3 DEF Clear

(* findByName finds a node of that name.                                   *)
LEMMA FindFacts ==
    ASSUME varlist \in Seq(Node), NEW n, isAlreadyName(n)
    PROVE  findByName(n) \in 1 .. Len(varlist) /\ varlist[findByName(n)].name = n
<1> DEFINE T == {k \in 1 .. Len(varlist) : varlist[k].name = n}
<1>1. T \subseteq Nat /\ T # {}
  BY DEF isAlreadyName
<1>2. PICK k \in T : \A j \in T : k <= j
  <2> HIDE DEF T
  <2> QED
    BY <1>1, SmallestNumber
<1>3. \A j \in 1 .. k - 1 : varlist[j].name # n
  <2> SUFFICES ASSUME NEW j \in 1 .. k - 1, varlist[j].name = n PROVE FALSE
    OBVIOUS
  <2>1. j \in T /\ ~(k <= j)
    OBVIOUS
  <2> QED
    BY <1>2, <2>1
<1>4. \E i \in 1 .. Len(varlist) :
         varlist[i].name = n /\ \A j \in 1 .. i - 1 : varlist[j].name # n
  BY <1>2, <1>3
<1> QED
  BY <1>4 DEF findByName

(* A step that leaves the list and the bytes before its end alone.         *)
LEMMA ListUnchanged ==
    ASSUME TypeOK, ListInv, varlist' = varlist,
           \A i \in 0 .. getListSize - 1 : mem'[i] = mem[i]
    PROVE  /\ varlist' \in Seq(Node) /\ ListInv' /\ getListSize' = getListSize
<1>1. varlist \in Seq(Node)
  BY DEF TypeOK
<1>2. getListSize' = getListSize /\ \A k : getIndexOf(k)' = getIndexOf(k)
  BY DEF getListSize, getIndexOf, SizeOfFirst
<1>3. UniqueNames' /\ ListFits'
  BY <1>2 DEF ListInv, UniqueNames, ListFits
<1>4. ValuesIntact'
  <2> SUFFICES ASSUME NEW k \in 1 .. Len(varlist),
                      NEW b \in 0 .. varlist[k].size - 1
               PROVE  mem'[getIndexOf(k) + b] = <<varlist[k].name, b>>
    BY <1>2 DEF ValuesIntact
  <2>1. mem[getIndexOf(k) + b] = <<varlist[k].name, b>>
    BY DEF ListInv, ValuesIntact
  <2>2. /\ SizesUpTo(varlist)[k] = SizesUpTo(varlist)[k - 1] + varlist[k].size
        /\ SizesUpTo(varlist)[k] <= getListSize /\ getListSize \in Nat
        /\ getIndexOf(k) = SizesUpTo(varlist)[k - 1]
        /\ SizesUpTo(varlist)[k - 1] \in Nat /\ varlist[k].size \in Nat
    <3>1. k - 1 \in 0 .. Len(varlist) /\ k \in 0 .. Len(varlist)
      BY <1>1
    <3> QED
      BY <1>1, <3>1, SizeFacts, ListFacts, NodeFacts, MemAssumption DEF getIndexOf
  <2>3. getIndexOf(k) + b \in 0 .. getListSize - 1
    BY <2>2
  <2> QED
    BY <2>1, <2>3
<1> QED
  BY <1>1, <1>2, <1>3, <1>4 DEF ListInv, isAlreadyName

---------------------------------------------------------------------------
(* The actions that only ask the next question.                            *)
LEMMA AskKeepsInv ==
    ASSUME MemInv, UNCHANGED <<mem, varlist>>, LocalsOK(prompt', local'),
           prompt' \in {"value", "count"} => ~isAlreadyName(local'.name),
           prompt' = "value" => getListSize + SizeOf[local'.type] <= MEM,
           prompt' = "member" => /\ ~isAlreadyName(local'.name)
                                 /\ local'.structSize = 0
    PROVE  MemInv'
<1>1. TypeOK /\ ListInv
  BY DEF MemInv
<1>2. /\ varlist' \in Seq(Node) /\ ListInv' /\ getListSize' = getListSize
  BY <1>1, ListUnchanged
<1>3. mem' \in Memory
  BY <1>1, TypeParts
<1>4. TypeOK'
  BY <1>2, <1>3, TypeParts
<1>5. getListSize \in Nat /\ getListSize <= MEM
  BY <1>1, ListFacts DEF ListInv, ListFits
<1>6. prompt' \in {"value", "count", "member"} => ~isAlreadyName(local.name)'
  BY DEF isAlreadyName
<1>7. prompt' = "value" => getListSize' + SizeOf[local'.type] <= MEM
  BY <1>2
<1>8. ASSUME prompt' = "member"
      PROVE  /\ getListSize' + local'.structSize <= MEM
             /\ \A b \in 0 .. local'.structSize - 1 :
                   mem'[getListSize' + b] = <<local'.name, b>>
  BY <1>2, <1>5, <1>8, MemAssumption
<1> QED
  BY <1>2, <1>4, <1>6, <1>7, <1>8 DEF MemInv, AskedInv

(* A value is stored behind the list, and its node added.                  *)
LEMMA GiveValueKeepsInv ==
    ASSUME MemInv, GiveValue
    PROVE  MemInv'
<1> DEFINE n == local.name
           s == SizeOf[local.type]
<1>1. /\ TypeOK /\ ListInv
      /\ prompt = "value" /\ ~isAlreadyName(n) /\ getListSize + s <= MEM
  BY DEF MemInv, AskedInv, GiveValue
<1>2. n \in Name /\ local.type \in Basic
  BY <1>1, TypeParts DEF LocalsOK
<1>3. s \in 1 .. MEM - 1 /\ MEM \in Nat
  BY <1>2, MemPositive
<1>4. getListSize \in Nat /\ mem \in Memory
  BY <1>1, ListFacts, TypeParts
<1>5. mem' = Write(UnsignedChar(getListSize), s, n, 0) /\ addNode(n, s)
  BY DEF GiveValue
<1> HIDE DEF n, s
<1>6. UnsignedChar(getListSize) = getListSize
  BY <1>1, <1>3, <1>4, UnsignedCharFacts
<1>7. /\ mem' \in Memory
      /\ \A i \in 0 .. getListSize - 1 : mem'[i] = mem[i]
      /\ \A b \in 0 .. s - 1 : mem'[getListSize + b] = <<n, b>>
  <2>1. mem' = Write(getListSize, s, n, 0)
    BY <1>5, <1>6
  <2>2. /\ s \in Nat /\ 0 + s <= MEM
        /\ \A b \in 0 .. s - 1 : <<n, 0 + b>> = <<n, b>>
    BY <1>3
  <2>3. /\ Write(getListSize, s, n, 0) \in Memory
        /\ \A i \in 0 .. getListSize - 1 : Write(getListSize, s, n, 0)[i] = mem[i]
        /\ \A b \in 0 .. s - 1 :
              Write(getListSize, s, n, 0)[getListSize + b] = <<n, 0 + b>>
    BY <1>1, <1>2, <1>4, <2>2, WriteFacts, 0 \in Nat
  <2> QED
    BY <2>1, <2>2, <2>3
<1>8. varlist' \in Seq(Node) /\ ListInv'
  BY <1>1, <1>2, <1>3, <1>5, <1>7, AddNodeInv
<1>9. prompt' = "mode" /\ local' = NoLocals
  BY DEF GiveValue, Menu, Ask
<1>10. TypeOK'
  BY <1>7, <1>8, <1>9, TypeParts DEF LocalsOK
<1> QED
  BY <1>8, <1>9, <1>10 DEF MemInv, AskedInv

(* The number of members is answered.                                      *)
LEMMA StructCountKeepsInv ==
    ASSUME MemInv, NEW c \in 0 .. MaxMembers, StructCount(c)
    PROVE  MemInv'
<1>1. /\ TypeOK /\ ListInv
      /\ prompt = "count" /\ ~isAlreadyName(local.name) /\ mem' = mem
  BY DEF MemInv, AskedInv, StructCount
<1>2. local.name \in Name
  BY <1>1, TypeParts DEF LocalsOK
<1>3. CASE c = 0
  <2>1. addNode(local.name, 0) /\ prompt' = "mode" /\ local' = NoLocals
    BY <1>3 DEF StructCount, Menu, Ask
  <2>2. getListSize \in Nat /\ getListSize + 0 <= MEM
    BY <1>1, ListFacts, MemAssumption DEF ListInv, ListFits
  <2>3. /\ \A i \in 0 .. getListSize - 1 : mem'[i] = mem[i]
        /\ \A b \in 0 .. 0 - 1 : mem'[getListSize + b] = <<local.name, b>>
    BY <1>1
  <2>4. varlist' \in Seq(Node) /\ ListInv'
    BY <1>1, <1>2, <2>1, <2>2, <2>3, AddNodeInv, 0 \in Nat
  <2>5. TypeOK'
    BY <1>1, <2>1, <2>4, TypeParts DEF LocalsOK
  <2> QED
    BY <2>1, <2>4, <2>5 DEF MemInv, AskedInv
<1>4. CASE c # 0
  <2>1. /\ prompt' = "member" /\ varlist' = varlist
        /\ local' = [name |-> local.name, left |-> c, structSize |-> 0]
    BY <1>4 DEF StructCount, Ask
  <2>2. c \in 1 .. MaxMembers /\ 0 \in 0 .. MEM
    BY <1>4, MembersAssumption, MemAssumption
  <2>3. LocalsOK(prompt', local')
    BY <1>2, <2>1, <2>2 DEF LocalsOK
  <2> QED
    BY <1>1, <2>1, <2>3, AskKeepsInv
<1> QED
  BY <1>3, <1>4

(* A member is stored; the last one completes the struct.                  *)
LEMMA StructMemberKeepsInv ==
    ASSUME MemInv, NEW t \in Basic, StructMember(t)
    PROVE  MemInv'
<1> DEFINE n == local.name
           b0 == local.structSize
           s == SizeOf[t]
           p == getListSize + b0
<1>1. /\ TypeOK /\ ListInv /\ prompt = "member" /\ ~isAlreadyName(n)
      /\ getListSize + b0 <= MEM
      /\ \A b \in 0 .. b0 - 1 : mem[getListSize + b] = <<n, b>>
  BY DEF MemInv, AskedInv, StructMember
<1>2. local \in [name : Name, left : 1 .. MaxMembers, structSize : 0 .. MEM]
  BY <1>1, TypeParts DEF LocalsOK
<1>3. n \in Name /\ b0 \in 0 .. MEM /\ local.left \in 1 .. MaxMembers
  BY <1>2
<1>4. /\ s \in 1 .. MEM - 1 /\ MEM \in Nat
      /\ getListSize \in Nat /\ mem \in Memory
  BY <1>1, MemPositive, ListFacts, TypeParts
<1>5. /\ ~(getListSize + (b0 + s) > MEM)
      /\ mem' = Write(p, s, n, b0)
  BY DEF StructMember, isSizeOver
<1>6. /\ local.left = 1 => addNode(n, b0 + s) /\ prompt' = "mode" /\ local' = NoLocals
      /\ local.left # 1 =>
            /\ local' = [local EXCEPT !.left = @ - 1, !.structSize = b0 + s]
            /\ varlist' = varlist /\ prompt' = prompt
  BY DEF StructMember, Menu, Ask
<1> HIDE DEF n, b0, s
<1>0. p = getListSize + b0
  OBVIOUS
<1> HIDE DEF p
<1>7. /\ mem' \in Memory
      /\ \A i \in 0 .. p - 1 : mem'[i] = mem[i]
      /\ \A j \in 0 .. s - 1 : mem'[p + j] = <<n, b0 + j>>
  <2>1. p \in Nat /\ s \in Nat /\ b0 \in Nat
    BY <1>0, <1>3, <1>4
  <2>2. b0 + s <= MEM /\ p + s <= MEM
    BY <1>0, <1>3, <1>4, <1>5
  <2>3. /\ Write(p, s, n, b0) \in Memory
        /\ \A i \in 0 .. p - 1 : Write(p, s, n, b0)[i] = mem[i]
        /\ \A j \in 0 .. s - 1 : Write(p, s, n, b0)[p + j] = <<n, b0 + j>>
    <3>1. mem \in Memory /\ n \in Name
      BY <1>3, <1>4
    <3> QED
      BY <2>1, <2>2, <3>1, WriteFacts, Zenon
  <2> QED
    BY <1>5, <2>3
<1>8. \A i \in 0 .. getListSize - 1 : mem'[i] = mem[i]
  BY <1>0, <1>3, <1>4, <1>7
<1>9. ASSUME NEW b \in 0 .. (b0 + s) - 1
      PROVE  mem'[getListSize + b] = <<n, b>>
  <2>1. CASE b < b0
    <3>1. b \in 0 .. b0 - 1 /\ getListSize + b \in 0 .. p - 1
      BY <1>0, <1>3, <1>4, <2>1
    <3> QED
      BY <1>1, <1>7, <3>1
  <2>2. CASE ~(b < b0)
    <3>1. /\ b - b0 \in 0 .. s - 1 /\ p + (b - b0) = getListSize + b
          /\ b0 + (b - b0) = b
      BY <1>0, <1>3, <1>4, <2>2
    <3> QED
      BY <1>7, <3>1
  <2> QED
    BY <2>1, <2>2
<1>10. CASE local.left = 1
  <2>1. b0 + s \in Nat /\ getListSize + (b0 + s) <= MEM
    BY <1>3, <1>4, <1>5
  <2>2. varlist' \in Seq(Node) /\ ListInv'
    BY <1>1, <1>3, <1>6, <1>8, <1>9, <1>10, <2>1, AddNodeInv
  <2>3. TypeOK'
    BY <1>6, <1>7, <1>10, <2>2, TypeParts DEF LocalsOK
  <2> QED
    BY <1>6, <1>10, <2>2, <2>3 DEF MemInv, AskedInv
<1>11. CASE local.left # 1
  <2>1. /\ varlist' \in Seq(Node) /\ ListInv' /\ getListSize' = getListSize
    BY <1>1, <1>6, <1>8, <1>11, ListUnchanged
  <2>2. prompt' = "member"
    BY <1>1, <1>6, <1>11
  <2>3. /\ local' \in [name : Name, left : 1 .. MaxMembers, structSize : 0 .. MEM]
        /\ local'.name = n /\ local'.structSize = b0 + s
    <3>1. local.left - 1 \in 1 .. MaxMembers /\ b0 + s \in 0 .. MEM
      BY <1>3, <1>4, <1>5, <1>11, MembersAssumption
    <3> QED
      BY <1>2, <1>6, <1>11, <3>1 DEF n
  <2>4. TypeOK'
    BY <1>7, <2>1, <2>2, <2>3, TypeParts DEF LocalsOK
  <2>5. ~isAlreadyName(local.name)'
    BY <1>1, <1>6, <1>11, <2>3 DEF isAlreadyName
  <2>6. getListSize' + local'.structSize <= MEM
    BY <1>3, <1>4, <1>5, <2>1, <2>3
  <2>7. \A b \in 0 .. local'.structSize - 1 :
           mem'[getListSize' + b] = <<local'.name, b>>
    BY <1>9, <2>1, <2>3
  <2> QED
    BY <2>1, <2>2, <2>4, <2>5, <2>6, <2>7 DEF MemInv, AskedInv
<1> QED
  BY <1>10, <1>11

(* A member of no known type clears the bytes of the struct.               *)
LEMMA WrongMemberKeepsInv ==
    ASSUME MemInv, WrongMember
    PROVE  MemInv'
<1>1. /\ TypeOK /\ ListInv /\ prompt = "member" /\ varlist' = varlist
      /\ mem' = Clear(mem, getListSize, local.structSize)
      /\ prompt' = "mode" /\ local' = NoLocals
  BY DEF MemInv, WrongMember, Menu, Ask
<1>2. /\ getListSize \in Nat /\ mem \in Memory /\ getListSize <= MEM
      /\ local.structSize \in Nat
  <2>1. local.structSize \in 0 .. MEM
    BY <1>1, TypeParts DEF LocalsOK
  <2> QED
    BY <1>1, <2>1, ListFacts, TypeParts, MemAssumption DEF ListInv, ListFits
<1>3. /\ mem' \in Memory
      /\ \A i \in 0 .. getListSize - 1 : i < MEM => mem'[i] = mem[i]
  BY <1>1, <1>2, ClearFacts
<1>4. \A i \in 0 .. getListSize - 1 : mem'[i] = mem[i]
  BY <1>2, <1>3, MemAssumption
<1>5. varlist' \in Seq(Node) /\ ListInv'
  BY <1>1, <1>4, ListUnchanged
<1>6. TypeOK'
  BY <1>1, <1>3, <1>5, TypeParts DEF LocalsOK
<1> QED
  BY <1>1, <1>5, <1>6 DEF MemInv, AskedInv

(* Node k is taken out of the list and its bytes out of the memory.        *)
TakenOut(k) ==
    LET size == varlist[k].size
        dest == getIndexOf(k)
    IN  /\ varlist' = Without(varlist, k)
        /\ dest \in Nat /\ size \in Nat /\ dest + size <= getListSize
        /\ getListSize' = getListSize - size
        /\ \A i \in 0 .. dest - 1 : mem'[i] = mem[i]
        /\ \A i \in dest .. MEM - size - 1 : mem'[i] = mem[i + size]
        /\ \A i \in MEM - size .. MEM - 1 : mem'[i] = ZERO

(* deallocate moves the bytes down by as much as removeNode moves the      *)
(* indices, and clears as many bytes at the end of the memory.             *)
LEMMA DeallocateStep ==
    ASSUME MemInv, NEW n \in Name, deallocate(n)
    PROVE  MemInv' /\ \E k \in 1 .. Len(varlist) : TakenOut(k)
<1> DEFINE k == findByName(n)
           size == varlist[k].size
           dest == getIndexOf(k)
           down == [i \in DOMAIN mem |->
                       IF i >= dest /\ i + size < MEM THEN mem[i + size] ELSE mem[i]]
           old == SizesUpTo(varlist)
           new == SizesUpTo(varlist')
           len == Len(varlist)
<1>1. TypeOK /\ ListInv /\ isAlreadyName(n)
  BY DEF MemInv, deallocate
<1>2. /\ varlist \in Seq(Node) /\ mem \in Memory /\ len \in Nat /\ MEM \in Nat
      /\ getListSize = old[len] /\ getListSize \in Nat /\ getListSize <= MEM
      /\ \A j \in 0 .. len : old[j] \in Nat /\ old[j] <= getListSize
  BY <1>1, TypeParts, ListFacts, MemAssumption DEF ListInv, ListFits
<1>3. k \in 1 .. len
  BY <1>1, <1>2, FindFacts
<1>4. /\ mem' = Clear(down, MEM - size, size)
      /\ varlist' = Without(varlist, k)
      /\ prompt' = "mode" /\ local' = NoLocals
  BY DEF deallocate, removeNode, Without, Menu, Ask
<1>5. dest = old[k - 1]
  BY DEF getIndexOf, SizeOfFirst, SizesUpTo
<1>6. /\ \A j \in 1 .. len : varlist[j].size \in 0 .. MEM - 1 /\ varlist[j].name \in Name
      /\ \A j \in 1 .. len : old[j] = old[j - 1] + varlist[j].size
      /\ \A i, j \in 0 .. len : i <= j => old[i] <= old[j]
  BY <1>2, NodeFacts, SizeFacts, SizesGrow
<1> HIDE DEF k
<1>7. /\ Without(varlist, k) \in Seq(Node)
      /\ Len(Without(varlist, k)) = len - 1
      /\ \A j \in 1 .. len - 1 :
            Without(varlist, k)[j] = IF j < k THEN varlist[j] ELSE varlist[j + 1]
      /\ \A j \in 0 .. len - 1 :
            SizesUpTo(Without(varlist, k))[j] =
               IF j < k THEN old[j] ELSE old[j + 1] - size
  BY <1>2, <1>3, RemoveSizes
<1>8. /\ varlist' \in Seq(Node)
      /\ Len(varlist') = len - 1
      /\ \A j \in 1 .. len - 1 :
            varlist'[j] = IF j < k THEN varlist[j] ELSE varlist[j + 1]
      /\ \A j \in 0 .. len - 1 :
            new[j] = IF j < k THEN old[j] ELSE old[j + 1] - size
  BY <1>4, <1>7
<1>9. /\ size \in 0 .. MEM - 1 /\ dest \in Nat /\ dest + size = old[k]
      /\ old[k] <= getListSize
  <2>1. k - 1 \in 0 .. len /\ k \in 0 .. len
    BY <1>2, <1>3
  <2> QED
    BY <1>2, <1>3, <1>5, <1>6, <2>1
<1>10. down \in Memory /\ DOMAIN mem = 0 .. MEM - 1
  <2>1. DOMAIN mem = 0 .. MEM - 1 /\ \A i \in 0 .. MEM - 1 : mem[i] \in Byte
    BY <1>2 DEF Memory
  <2> HIDE DEF dest, size
  <2>2. ASSUME NEW i \in 0 .. MEM - 1
        PROVE  (IF i >= dest /\ i + size < MEM THEN mem[i + size] ELSE mem[i]) \in Byte
    <3>1. i + size < MEM => i + size \in 0 .. MEM - 1
      BY <1>2, <1>9
    <3> QED
      BY <2>1, <3>1
  <2> QED
    BY <2>1, <2>2 DEF Memory
<1>11. /\ \A i \in 0 .. MEM - 1 :
            i < dest => down[i] = mem[i]
       /\ \A i \in 0 .. MEM - 1 :
            i >= dest /\ i + size < MEM => down[i] = mem[i + size]
  <2> HIDE DEF dest, size
  <2> QED
    BY <1>2, <1>9, <1>10
<1> HIDE DEF old, new, len, size, dest, down
<1>0. /\ dest \in Nat /\ size \in Nat /\ MEM \in Nat /\ getListSize \in Nat
      /\ dest + size <= getListSize /\ getListSize <= MEM
  BY <1>2, <1>9
<1>12. /\ mem' \in Memory
       /\ \A i \in 0 .. MEM - size - 1 : mem'[i] = down[i]
       /\ \A i \in MEM - size .. MEM - 1 : mem'[i] = ZERO
  <2> DEFINE p == MEM - size
  <2>1. p \in Nat /\ p <= MEM /\ p + size = MEM /\ size \in Nat
    BY <1>2, <1>9
  <2> HIDE DEF p
  <2>2. /\ Clear(down, p, size) \in Memory
        /\ \A i \in 0 .. p - 1 : i < MEM => Clear(down, p, size)[i] = down[i]
        /\ \A i \in p .. p + size - 1 : i < MEM => Clear(down, p, size)[i] = ZERO
    BY <1>10, <2>1, ClearFacts
  <2>3. mem' = Clear(down, p, size)
    BY <1>4 DEF p
  <2>4. /\ \A i \in 0 .. p - 1 : mem'[i] = down[i]
        /\ \A i \in p .. MEM - 1 : mem'[i] = ZERO
    BY <1>2, <2>1, <2>2, <2>3
  <2> QED
    BY <2>2, <2>3, <2>4 DEF p
<1>13. getListSize' = getListSize - size
  <2>1. getListSize' = new[len - 1]
    BY <1>8 DEF getListSize, SizeOfFirst, SizesUpTo, new
  <2>2. CASE k = len
    <3>1. len - 1 \in 0 .. len - 1 /\ len - 1 < k /\ len - 1 = k - 1
      BY <1>2, <1>3, <2>2
    <3>2. new[len - 1] = old[k - 1]
      BY <1>8, <3>1
    <3> QED
      BY <1>2, <1>5, <1>9, <2>1, <2>2, <3>2
  <2>3. CASE k # len
    <3>1. len - 1 \in 0 .. len - 1 /\ ~(len - 1 < k) /\ (len - 1) + 1 = len
      BY <1>2, <1>3, <2>3
    <3> QED
      BY <1>2, <1>8, <2>1, <3>1
  <2> QED
    BY <2>2, <2>3
<1>14. UniqueNames'
  <2>1. \A i, j \in 1 .. len : varlist[i].name = varlist[j].name => i = j
    BY <1>1 DEF ListInv, UniqueNames, len
  <2> SUFFICES ASSUME NEW i \in 1 .. len - 1, NEW j \in 1 .. len - 1,
                      varlist'[i].name = varlist'[j].name
               PROVE  i = j
    BY <1>8 DEF UniqueNames
  <2> DEFINE I == IF i < k THEN i ELSE i + 1
             J == IF j < k THEN j ELSE j + 1
  <2>2. I \in 1 .. len /\ J \in 1 .. len
    BY <1>2, <1>3
  <2>3. varlist'[i] = varlist[I] /\ varlist'[j] = varlist[J]
    BY <1>8
  <2>4. I = J
    <3> HIDE DEF I, J
    <3> QED
      BY <2>1, <2>2, <2>3
  <2> QED
    BY <1>2, <1>3, <2>4
<1>15. ListFits'
  BY <1>2, <1>9, <1>13 DEF ListFits
<1>16. ValuesIntact'
  <2>1. ASSUME NEW j \in 1 .. len, NEW b \in 0 .. varlist[j].size - 1
        PROVE  mem[old[j - 1] + b] = <<varlist[j].name, b>>
    BY <1>1 DEF ListInv, ValuesIntact, getIndexOf, SizeOfFirst, SizesUpTo, len, old
  <2> SUFFICES ASSUME NEW j \in 1 .. len - 1, NEW b \in 0 .. varlist'[j].size - 1
               PROVE  mem'[new[j - 1] + b] = <<varlist'[j].name, b>>
    BY <1>8 DEF ValuesIntact, getIndexOf, SizeOfFirst, SizesUpTo, new
  <2>2. CASE j < k
    <3>1. varlist'[j] = varlist[j] /\ b \in 0 .. varlist[j].size - 1
      BY <1>8, <2>2
    <3>2. j - 1 \in 0 .. len - 1 /\ j - 1 < k /\ j \in 1 .. len /\ j \in 0 .. len
          /\ k - 1 \in 0 .. len /\ j <= k - 1 /\ j - 1 \in 0 .. len
      BY <1>2, <1>3, <2>2
    <3>3. new[j - 1] = old[j - 1]
      BY <1>8, <3>2
    <3>4. mem[old[j - 1] + b] = <<varlist[j].name, b>>
      BY <2>1, <3>1, <3>2
    <3>5. /\ old[j] = old[j - 1] + varlist[j].size /\ old[j] <= dest
          /\ old[j - 1] \in Nat /\ old[j] \in Nat
          /\ varlist[j].size \in 0 .. MEM - 1
      BY <1>2, <1>5, <1>6, <3>2
    <3>6. old[j - 1] + b \in 0 .. MEM - size - 1 /\ old[j - 1] + b < dest
      <4>1. b \in Nat /\ b < varlist[j].size
        BY <3>1, <3>5
      <4>2. old[j - 1] + b \in Nat /\ old[j - 1] + b < dest
        BY <1>0, <3>5, <4>1
      <4> QED
        BY <1>0, <4>2
    <3>7. old[j - 1] + b \in 0 .. MEM - 1
      BY <1>2, <1>9, <3>6
    <3> QED
      BY <1>11, <1>12, <3>1, <3>3, <3>4, <3>6, <3>7
  <2>3. CASE ~(j < k)
    <3>1. /\ j - 1 \in 0 .. len - 1 /\ j + 1 \in 1 .. len /\ k \in 0 .. len
          /\ j \in 0 .. len /\ j + 1 \in 0 .. len /\ k <= j /\ (j + 1) - 1 = j
      BY <1>2, <1>3, <2>3
    <3>2. varlist'[j] = varlist[j + 1] /\ b \in 0 .. varlist[j + 1].size - 1
      BY <1>8, <2>3
    <3>3. new[j - 1] = old[j] - size
      <4>1. CASE j = k
        <5>1. new[j - 1] = old[j - 1]
          BY <1>2, <1>3, <1>8, <3>1, <4>1
        <5> QED
          BY <1>2, <1>5, <1>9, <4>1, <5>1
      <4>2. CASE j # k
        <5>1. ~(j - 1 < k) /\ (j - 1) + 1 = j
          BY <1>2, <1>3, <3>1, <4>2
        <5> QED
          BY <1>8, <3>1, <5>1
      <4> QED
        BY <4>1, <4>2
    <3>4. mem[old[j] + b] = <<varlist[j + 1].name, b>>
      BY <2>1, <3>1, <3>2
    <3>5. /\ old[j + 1] = old[j] + varlist[j + 1].size
          /\ old[j] \in Nat /\ old[j + 1] \in Nat
          /\ old[j + 1] <= getListSize
          /\ varlist[j + 1].size \in 0 .. MEM - 1 /\ old[k] <= old[j]
      BY <1>2, <1>6, <3>1
    <3> DEFINE i == (old[j] - size) + b
    <3>6. /\ i \in 0 .. MEM - 1 /\ i >= dest /\ i + size < MEM /\ i + size = old[j] + b
          /\ i \in 0 .. MEM - size - 1
      <4>1. b \in Nat /\ b < varlist[j + 1].size
        BY <3>2, <3>5
      <4>2. old[j] + b \in Nat /\ old[j] + b < getListSize
        BY <1>0, <3>5, <4>1
      <4>3. dest + size <= old[j]
        BY <1>9, <3>5, <1>0, <1>2, <3>1
      <4> QED
        BY <1>0, <3>5, <4>1, <4>2, <4>3
    <3>7. new[j - 1] + b = i
      BY <3>3
    <3> HIDE DEF i
    <3>8. mem'[i] = mem[old[j] + b]
      BY <1>11, <1>12, <3>6
    <3> QED
      BY <3>2, <3>4, <3>7, <3>8
  <2> QED
    BY <2>2, <2>3
<1>17. MemInv'
  <2>1. TypeOK'
    BY <1>4, <1>8, <1>12, TypeParts DEF LocalsOK
  <2> QED
    BY <1>4, <1>14, <1>15, <1>16, <2>1 DEF MemInv, AskedInv, ListInv
<1>18. TakenOut(k)
  <2>1. \A i \in 0 .. dest - 1 : mem'[i] = mem[i]
    BY <1>0, <1>11, <1>12
  <2>2. \A i \in dest .. MEM - size - 1 : mem'[i] = mem[i + size]
    BY <1>0, <1>11, <1>12
  <2> QED
    BY <1>0, <1>4, <1>12, <1>13, <2>1, <2>2 DEF TakenOut, size, dest
<1> QED
  BY <1>3, <1>17, <1>18 DEF len

---------------------------------------------------------------------------
(* The invariant holds at the start,                                       *)
LEMMA MemInit == Init => MemInv
<1> SUFFICES ASSUME Init PROVE MemInv
  OBVIOUS
<1>1. mem \in Memory /\ varlist \in Seq(Node) /\ Len(varlist) = 0
  BY MemAssumption DEF Init, Memory, Byte
<1>2. TypeOK
  BY <1>1, TypeParts DEF Init, LocalsOK
<1>3. getListSize = 0
  BY <1>1, <1>2, ListFacts, SizeFacts
<1> QED
  BY <1>1, <1>2, <1>3, MemAssumption
     DEF Init, MemInv, ListInv, AskedInv, UniqueNames, ListFits, ValuesIntact

(* ... and every step keeps it.                                            *)
LEMMA MemNext == MemInv /\ [Next]_vars => MemInv'
<1> SUFFICES ASSUME MemInv, [Next]_vars PROVE MemInv'
  OBVIOUS
<1>1. ASSUME NEW m \in {1, 2}, selectMode(m) PROVE MemInv'
  BY <1>1, AskKeepsInv DEF selectMode, Ask, LocalsOK
<1>2. ASSUME NEW t \in Basic \cup {"struct"}, NEW n \in Name, SelectTypeAndName(t, n)
      PROVE  MemInv'
  <2>1. UNCHANGED <<mem, varlist>>
    BY <1>2 DEF SelectTypeAndName
  <2>2. CASE isAlreadyName(n) \/ (t # "struct" /\ isSizeOver(SizeOf[t]))
    BY <1>2, <2>1, <2>2, AskKeepsInv DEF SelectTypeAndName, Menu, Ask, LocalsOK
  <2>3. CASE ~isAlreadyName(n) /\ t = "struct"
    <3>1. prompt' = "count" /\ local' = [name |-> n]
      BY <1>2, <2>3 DEF SelectTypeAndName, Ask
    <3>2. LocalsOK(prompt', local') /\ ~isAlreadyName(local'.name)
      BY <2>3, <3>1 DEF LocalsOK
    <3> QED
      BY <2>1, <3>1, <3>2, AskKeepsInv
  <2>4. CASE ~isAlreadyName(n) /\ t # "struct" /\ ~isSizeOver(SizeOf[t])
    <3>1. prompt' = "value" /\ local' = [name |-> n, type |-> t] /\ t \in Basic
      BY <1>2, <2>4 DEF SelectTypeAndName, Ask
    <3>2. LocalsOK(prompt', local') /\ ~isAlreadyName(local'.name)
      BY <2>4, <3>1 DEF LocalsOK
    <3>3. getListSize + SizeOf[local'.type] <= MEM
      <4>1. getListSize \in Nat /\ SizeOf[t] \in Nat
        BY <3>1, ListFacts, MemPositive DEF MemInv
      <4> QED
        BY <2>4, <3>1, <4>1, MemAssumption DEF isSizeOver
    <3> QED
      BY <2>1, <3>1, <3>2, <3>3, AskKeepsInv
  <2> QED
    BY <2>2, <2>3, <2>4
<1>3. CASE GiveValue
  BY <1>3, GiveValueKeepsInv
<1>4. ASSUME NEW c \in 0 .. MaxMembers, StructCount(c) PROVE MemInv'
  BY <1>4, StructCountKeepsInv
<1>5. CASE WrongCount
  BY <1>5, AskKeepsInv DEF WrongCount, Menu, Ask, LocalsOK
<1>6. ASSUME NEW t \in Basic, StructMember(t) PROVE MemInv'
  BY <1>6, StructMemberKeepsInv
<1>7. ASSUME NEW t \in Basic, StructMemberOver(t) PROVE MemInv'
  BY <1>7, AskKeepsInv DEF StructMemberOver, Menu, Ask, LocalsOK
<1>8. CASE WrongMember
  BY <1>8, WrongMemberKeepsInv
<1>9. ASSUME NEW n \in Name, deallocate(n) PROVE MemInv'
  BY <1>9, DeallocateStep
<1>10. CASE NoSuchName
  BY <1>10, AskKeepsInv DEF NoSuchName, Menu, Ask, LocalsOK
<1>11. CASE UNCHANGED vars
  <2>1. UNCHANGED <<mem, varlist, prompt, local>>
    BY <1>11 DEF vars
  <2>2. varlist' \in Seq(Node) /\ ListInv' /\ getListSize' = getListSize
    BY <2>1, ListUnchanged DEF MemInv
  <2>3. TypeOK'
    BY <2>1, TypeParts DEF MemInv
  <2>4. AskedInv'
    BY <2>1, <2>2 DEF MemInv, AskedInv, isAlreadyName
  <2> QED
    BY <2>2, <2>3, <2>4 DEF MemInv
<1> QED
  BY <1>1, <1>2, <1>3, <1>4, <1>5, <1>6, <1>7, <1>8, <1>9, <1>10, <1>11 DEF Next

(* What holds before each question of the program, for every size of the   *)
(* memory, of the types and of the structs.                                *)
THEOREM MemInvariance == Spec => []MemInv
  BY MemInit, MemNext, PTL DEF Spec

(* The variables have the values their declarations promise: no field size *)
(* and no byte of the memory goes out of range.                            *)
THEOREM MemTypeCorrect == Spec => []TypeOK
<1>1. MemInv => TypeOK
  BY DEF MemInv
<1> QED
  BY <1>1, MemInvariance, PTL

(* No two variables ever have the same name, although isAlreadyName is     *)
(* asked some questions before addNode.                                    *)
THEOREM NamesStayUnique == Spec => []UniqueNames
<1>1. MemInv => UniqueNames
  BY DEF MemInv, ListInv
<1> QED
  BY <1>1, MemInvariance, PTL

(* The list never outgrows the memory, whatever the field size forgets.    *)
THEOREM ListAlwaysFits == Spec => []ListFits
<1>1. MemInv => ListFits
  BY DEF MemInv, ListInv
<1> QED
  BY <1>1, MemInvariance, PTL

(* Every variable keeps its bytes until it is deallocated: neither a new   *)
(* variable, nor a struct that fails half way, nor the removal of another  *)
(* one changes them.                                                       *)
THEOREM ValuesStayIntact == Spec => []ValuesIntact
<1>1. MemInv => ValuesIntact
  BY DEF MemInv, ListInv
<1> QED
  BY <1>1, MemInvariance, PTL

---------------------------------------------------------------------------
(* What lies behind the list is never nearer to the end of the list than   *)
(* it was to the start of its struct: to write that struct again, from the *)
(* end of the list on, is to write over it.                                *)
LeftBehind ==
    \A i \in getListSize .. MEM - 1 : mem[i] # ZERO => mem[i][2] >= i - getListSize

CopyInv == OneCopy /\ LeftBehind

(* The bytes of the memory.                                                *)
LEMMA ByteFacts ==
    ASSUME TypeOK
    PROVE  /\ MEM \in Nat /\ mem \in Memory /\ DOMAIN mem = 0 .. MEM - 1
           /\ getListSize \in Nat
           /\ \A n \in Name : \A b \in 0 .. MEM : <<n, b>> # ZERO
           /\ \A i \in 0 .. MEM - 1 : mem[i] # ZERO =>
                 mem[i] \in Name \X (0 .. MEM) /\ mem[i] = <<mem[i][1], mem[i][2]>>
                 /\ mem[i][2] \in 0 .. MEM
<1>1. mem \in Memory /\ DOMAIN mem = 0 .. MEM - 1
  BY TypeParts DEF Memory
<1>2. ASSUME NEW i \in 0 .. MEM - 1, mem[i] # ZERO
      PROVE  mem[i] \in Name \X (0 .. MEM)
  BY <1>1, <1>2 DEF Memory, Byte
<1>3. \A x \in Name \X (0 .. MEM) : x = <<x[1], x[2]>> /\ x[2] \in 0 .. MEM
  OBVIOUS
<1> QED
  BY <1>1, <1>2, <1>3, MemAssumption, ZeroAssumption, ListFacts

(* A byte before the end of the list belongs to a variable.                *)
LEMMA BytesInList ==
    ASSUME TypeOK, ListInv, NEW i \in 0 .. getListSize - 1
    PROVE  \E k \in 1 .. Len(varlist) : \E b \in 0 .. varlist[k].size - 1 :
              mem[i] = <<varlist[k].name, b>>
<1> DEFINE old == SizesUpTo(varlist)
           len == Len(varlist)
           T == {k \in 0 .. len : i < old[k]}
<1>1. /\ varlist \in Seq(Node) /\ len \in Nat /\ getListSize = old[len]
      /\ \A k \in 0 .. len : old[k] \in Nat
      /\ getListSize \in Nat
  BY ListFacts
<1>2. /\ old[0] = 0
      /\ \A k \in 1 .. len : old[k] = old[k - 1] + varlist[k].size
      /\ \A k \in 1 .. len : varlist[k].size \in Nat
  BY <1>1, SizeFacts, NodeFacts, MemAssumption
<1> HIDE DEF old
<1>3. T \subseteq Nat /\ len \in T
  BY <1>1
<1>4. PICK k \in T : \A j \in T : k <= j
  <2> HIDE DEF T
  <2>1. T # {}
    BY <1>3
  <2> QED BY <1>3, <2>1, SmallestNumber
<1>5. k # 0
  BY <1>2, <1>4
<1>6. k \in 1 .. len /\ k - 1 \in 0 .. len
  BY <1>1, <1>4, <1>5
<1>7. ~(i < old[k - 1])
  <2> SUFFICES ASSUME i < old[k - 1] PROVE FALSE
    OBVIOUS
  <2>1. k - 1 \in T
    BY <1>6
  <2> QED BY <1>4, <1>6, <2>1
<1>8. PICK b \in Int : b = i - old[k - 1]
  BY <1>1, <1>6
<1>9. b \in 0 .. varlist[k].size - 1 /\ old[k - 1] + b = i
  <2>1. i < old[k] /\ old[k] = old[k - 1] + varlist[k].size
    BY <1>2, <1>4, <1>6
  <2> QED BY <1>1, <1>2, <1>6, <1>7, <1>8, <2>1
<1>10. getIndexOf(k) = old[k - 1]
  BY DEF getIndexOf, SizeOfFirst, SizesUpTo, old
<1>11. mem[getIndexOf(k) + b] = <<varlist[k].name, b>>
  BY <1>6, <1>9 DEF ListInv, ValuesIntact
<1> QED BY <1>6, <1>9, <1>10, <1>11

(* The bytes of a struct that is no variable yet lie behind the list.      *)
LEMMA NotInList ==
    ASSUME TypeOK, ListInv, NEW n, ~isAlreadyName(n), NEW b,
           NEW i \in 0 .. MEM - 1, mem[i] = <<n, b>>
    PROVE  i >= getListSize
<1> SUFFICES ASSUME ~(i >= getListSize) PROVE FALSE
  OBVIOUS
<1>1. i \in 0 .. getListSize - 1
  BY ByteFacts
<1>2. PICK k \in 1 .. Len(varlist) : \E c \in 0 .. varlist[k].size - 1 :
         mem[i] = <<varlist[k].name, c>>
  BY <1>1, BytesInList
<1>3. varlist[k].name = n
  BY <1>2
<1> QED BY <1>3 DEF isAlreadyName

(* A step that at most clears bytes, and leaves the list as long as it is. *)
LEMMA ClearingKeepsCopyInv ==
    ASSUME TypeOK, CopyInv, mem' \in Memory,
           \A i \in 0 .. MEM - 1 : mem'[i] = mem[i] \/ mem'[i] = ZERO,
           getListSize' = getListSize
    PROVE  CopyInv'
<1>1. DOMAIN mem = 0 .. MEM - 1 /\ DOMAIN mem' = 0 .. MEM - 1
      /\ MEM \in Nat /\ getListSize \in Nat
  BY ByteFacts DEF Memory
<1>2. OneCopy'
  BY <1>1 DEF CopyInv, OneCopy
<1>3. LeftBehind'
  BY <1>1 DEF CopyInv, LeftBehind
<1> QED BY <1>2, <1>3 DEF CopyInv

(* A value or a member of a struct is written behind the list, over all    *)
(* that was left of the bytes that it consists of.                         *)
LEMMA WritingKeepsCopyInv ==
    ASSUME TypeOK, ListInv, CopyInv,
           NEW n \in Name, ~isAlreadyName(n), NEW c \in Nat, NEW s \in Nat,
           getListSize + c + s <= MEM,
           \A b \in 0 .. c - 1 : mem[getListSize + b] = <<n, b>>,
           mem' = Write(getListSize + c, s, n, c),
           getListSize' = getListSize \/ getListSize' = getListSize + c + s
    PROVE  CopyInv'
<1>1. PICK l \in Nat : l = getListSize
  BY ByteFacts
<1>2. PICK p \in Nat : p = l + c
  OBVIOUS
<1>3. /\ DOMAIN mem = 0 .. MEM - 1 /\ MEM \in Nat /\ p + s <= MEM
      /\ mem' = [i \in 0 .. MEM - 1 |-> IF i \in p .. p + s - 1
                                          THEN <<n, c + i - p>> ELSE mem[i]]
  BY <1>1, <1>2, ByteFacts DEF Write
<1>4. \A i \in p .. p + s - 1 : i \in 0 .. MEM - 1 /\ mem'[i] = <<n, i - l>>
  <2> SUFFICES ASSUME NEW i \in p .. p + s - 1
               PROVE  i \in 0 .. MEM - 1 /\ mem'[i] = <<n, i - l>>
    OBVIOUS
  <2>1. i \in 0 .. MEM - 1 /\ c + i - p = i - l
    BY <1>2, <1>3
  <2> QED BY <1>3, <2>1
<1>5. \A i \in 0 .. MEM - 1 : i \notin p .. p + s - 1 => mem'[i] = mem[i]
  BY <1>3
<1>6. \A i \in p .. p + s - 1 : \A j \in 0 .. MEM - 1 :
         j \notin p .. p + s - 1 => mem'[j] # mem'[i]
  <2> SUFFICES ASSUME NEW i \in p .. p + s - 1, NEW j \in 0 .. MEM - 1,
                      j \notin p .. p + s - 1, mem'[j] = mem'[i]
               PROVE  FALSE
    OBVIOUS
  <2>1. mem[j] = <<n, i - l>>
    BY <1>4, <1>5
  <2>2. j >= l
    BY <1>1, <2>1, NotInList
  <2>3. i - l \in 0 .. MEM
    BY <1>2, <1>3
  <2>4. mem[j] # ZERO /\ mem[j][2] = i - l
    BY <2>1, <2>3, ByteFacts
  <2>5. i - l >= j - l
    <3>1. j \in l .. MEM - 1
      BY <1>3, <2>2
    <3> QED BY <1>1, <2>4, <3>1 DEF CopyInv, LeftBehind
  <2>6. j < p
    BY <1>2, <1>3, <2>5
  <2>7. j - l \in 0 .. c - 1 /\ l + (j - l) = j
    BY <1>2, <2>2, <2>6
  <2>8. mem[j] = <<n, j - l>>
    BY <1>1, <2>7
  <2>9. j - l = i - l
    BY <2>1, <2>8
  <2> QED BY <2>6, <2>9
<1>7. OneCopy'
  <2> SUFFICES ASSUME NEW i \in 0 .. MEM - 1, NEW j \in 0 .. MEM - 1,
                      mem'[i] = mem'[j], mem'[i] # ZERO
               PROVE  i = j
    BY <1>3 DEF OneCopy
  <2>1. CASE i \in p .. p + s - 1 /\ j \in p .. p + s - 1
    <3>1. i - l = j - l
      BY <1>4, <2>1
    <3> QED BY <2>1, <3>1
  <2>2. CASE i \notin p .. p + s - 1 /\ j \notin p .. p + s - 1
    <3>1. mem[i] = mem[j] /\ mem[i] # ZERO
      BY <1>5, <2>2
    <3> QED BY <1>3, <3>1 DEF CopyInv, OneCopy
  <2> QED BY <1>6, <2>1, <2>2
<1>8. LeftBehind'
  <2> SUFFICES ASSUME NEW i \in getListSize' .. MEM - 1, mem'[i] # ZERO
               PROVE  mem'[i][2] >= i - getListSize'
    BY DEF LeftBehind
  <2>1. PICK h \in Nat : h = getListSize'
    BY <1>1
  <2>2. l <= h /\ i \in l .. MEM - 1 /\ i \in 0 .. MEM - 1 /\ i >= h
    BY <1>1, <1>3, <2>1
  <2>3. CASE i \in p .. p + s - 1
    <3>1. mem'[i][2] = i - l
      BY <1>4, <2>3
    <3> QED BY <2>1, <2>2, <3>1
  <2>4. CASE i \notin p .. p + s - 1
    <3>1. mem'[i] = mem[i] /\ mem[i] # ZERO
      BY <1>5, <2>2, <2>4
    <3>2. mem[i][2] >= i - l /\ mem[i][2] \in Nat
      <4>1. mem[i][2] >= i - l
        BY <1>1, <2>2, <3>1 DEF CopyInv, LeftBehind
      <4> QED BY <2>2, <3>1, <4>1, ByteFacts
    <3> QED BY <2>1, <2>2, <3>1, <3>2
  <2> QED BY <2>3, <2>4
<1> QED BY <1>7, <1>8 DEF CopyInv

(* A removal copies no byte, and moves what lies behind the list by as     *)
(* much as the end of the list.                                            *)
LEMMA TakingOutKeepsCopyInv ==
    ASSUME TypeOK, ListInv, CopyInv, mem' \in Memory,
           NEW k \in 1 .. Len(varlist), TakenOut(k)
    PROVE  CopyInv'
<1>1. PICK l \in Nat : l = getListSize
  BY ByteFacts
<1>2. PICK d \in Nat : d = getIndexOf(k)
  BY DEF TakenOut
<1>3. PICK s \in Nat : s = varlist[k].size
  BY DEF TakenOut
<1>4. /\ d + s <= l /\ l <= MEM /\ MEM \in Nat /\ getListSize' = l - s
      /\ DOMAIN mem = 0 .. MEM - 1 /\ DOMAIN mem' = 0 .. MEM - 1
  BY <1>1, <1>2, <1>3, ByteFacts DEF TakenOut, ListInv, ListFits, Memory
<1>5. /\ \A i \in 0 .. d - 1 : mem'[i] = mem[i]
      /\ \A i \in d .. MEM - s - 1 : mem'[i] = mem[i + s]
      /\ \A i \in MEM - s .. MEM - 1 : mem'[i] = ZERO
  BY <1>2, <1>3 DEF TakenOut
<1>6. ASSUME NEW i \in 0 .. MEM - 1, mem'[i] # ZERO
      PROVE  \/ i < d /\ mem'[i] = mem[i]
             \/ i >= d /\ i + s \in 0 .. MEM - 1 /\ mem'[i] = mem[i + s]
  <2>1. i \notin MEM - s .. MEM - 1
    BY <1>5, <1>6
  <2>2. i \in 0 .. d - 1 \/ (i \in d .. MEM - s - 1 /\ i + s \in 0 .. MEM - 1)
    BY <1>4, <2>1
  <2> QED BY <1>5, <2>2
<1>7. OneCopy'
  <2> SUFFICES ASSUME NEW i \in 0 .. MEM - 1, NEW j \in 0 .. MEM - 1,
                      mem'[i] = mem'[j], mem'[i] # ZERO
               PROVE  i = j
    BY <1>4 DEF OneCopy
  <2>1. PICK a \in 0 .. MEM - 1 : /\ mem'[i] = mem[a]
                                  /\ a = IF i < d THEN i ELSE i + s
    BY <1>4, <1>6
  <2>2. PICK b \in 0 .. MEM - 1 : /\ mem'[j] = mem[b]
                                  /\ b = IF j < d THEN j ELSE j + s
    BY <1>4, <1>6
  <2>3. a = b
    BY <1>4, <2>1, <2>2 DEF CopyInv, OneCopy
  <2> QED BY <1>4, <2>1, <2>2, <2>3
<1>8. LeftBehind'
  <2> SUFFICES ASSUME NEW i \in l - s .. MEM - 1, mem'[i] # ZERO
               PROVE  mem'[i][2] >= i - (l - s)
    BY <1>4 DEF LeftBehind
  <2>1. i \in 0 .. MEM - 1 /\ i >= d
    BY <1>4
  <2>2. mem'[i] = mem[i + s] /\ i + s \in l .. MEM - 1
    BY <1>4, <1>6, <2>1
  <2>3. mem[i + s][2] >= (i + s) - l
    BY <1>1, <2>2 DEF CopyInv, LeftBehind
  <2>4. (i + s) - l = i - (l - s)
    BY <2>1
  <2> QED BY <2>2, <2>3, <2>4
<1> QED BY <1>7, <1>8 DEF CopyInv

(* addNode makes the list longer by what is stored as the node's size.     *)
LEMMA AddNodeSize ==
    ASSUME TypeOK, NEW n \in Name, NEW s \in Nat, s <= MEM, addNode(n, s)
    PROVE  getListSize' = getListSize \/ getListSize' = getListSize + s
<1> DEFINE node == [name |-> n, size |-> UnsignedChar(s), bytes |-> s]
<1>1. UnsignedChar(s) \in 0 .. MEM - 1 /\ (UnsignedChar(s) = s \/ UnsignedChar(s) = 0)
  BY UnsignedCharFacts
<1>2. node \in Node /\ node.size = UnsignedChar(s)
  BY <1>1 DEF Node
<1>3. varlist' = Append(varlist, node)
  BY DEF addNode
<1>4. /\ varlist \in Seq(Node) /\ Len(varlist) \in Nat /\ getListSize \in Nat
      /\ getListSize = SizesUpTo(varlist)[Len(varlist)]
  BY ListFacts
<1> HIDE DEF node
<1>5. /\ Len(varlist') = Len(varlist) + 1
      /\ SizesUpTo(varlist')[Len(varlist) + 1] =
            SizesUpTo(varlist)[Len(varlist)] + node.size
  BY <1>2, <1>3, <1>4, AppendSizes
<1>6. getListSize' = SizesUpTo(varlist')[Len(varlist')]
  BY DEF getListSize, SizeOfFirst, SizesUpTo
<1> QED BY <1>1, <1>2, <1>4, <1>5, <1>6

(* A step that changes neither the memory nor the list.                    *)
LEMMA AskingKeepsCopyInv ==
    ASSUME TypeOK, CopyInv, UNCHANGED <<mem, varlist>>
    PROVE  CopyInv'
<1>1. mem' \in Memory /\ getListSize' = getListSize
  BY ByteFacts DEF getListSize, SizeOfFirst
<1> QED BY <1>1, ClearingKeepsCopyInv

(* A value is written behind the list.                                     *)
LEMMA ValueKeepsCopyInv ==
    ASSUME MemInv, CopyInv, GiveValue
    PROVE  CopyInv'
<1> DEFINE n == local.name
           s == SizeOf[local.type]
<1>1. /\ TypeOK /\ ListInv
      /\ prompt = "value" /\ ~isAlreadyName(n) /\ getListSize + s <= MEM
  BY DEF MemInv, AskedInv, GiveValue
<1>2. n \in Name /\ s \in 1 .. MEM - 1 /\ MEM \in Nat /\ getListSize \in Nat
  <2>1. n \in Name /\ local.type \in Basic
    BY <1>1, TypeParts DEF LocalsOK
  <2> QED BY <1>1, <2>1, MemPositive, ByteFacts
<1>3. mem' = Write(UnsignedChar(getListSize), s, n, 0) /\ addNode(n, s)
  BY DEF GiveValue
<1> HIDE DEF n, s
<1>4. UnsignedChar(getListSize) = getListSize + 0
  BY <1>1, <1>2, UnsignedCharFacts
<1>5. getListSize' = getListSize \/ getListSize' = getListSize + 0 + s
  BY <1>1, <1>2, <1>3, AddNodeSize
<1>6. \A b \in 0 .. 0 - 1 : mem[getListSize + b] = <<n, b>>
  OBVIOUS
<1>7. 0 \in Nat /\ s \in Nat /\ getListSize + 0 + s <= MEM
  BY <1>1, <1>2
<1> QED BY <1>1, <1>2, <1>3, <1>4, <1>5, <1>6, <1>7, WritingKeepsCopyInv

(* The bytes of a struct are written one behind the other.                 *)
LEMMA MemberKeepsCopyInv ==
    ASSUME MemInv, CopyInv, NEW t \in Basic, StructMember(t)
    PROVE  CopyInv'
<1> DEFINE n == local.name
           c == local.structSize
           s == SizeOf[t]
<1>1. /\ TypeOK /\ ListInv /\ prompt = "member" /\ ~isAlreadyName(n)
      /\ \A b \in 0 .. c - 1 : mem[getListSize + b] = <<n, b>>
  BY DEF MemInv, AskedInv, StructMember
<1>2. n \in Name /\ c \in Nat /\ s \in Nat /\ MEM \in Nat /\ getListSize \in Nat
  <2>1. n \in Name /\ c \in 0 .. MEM
    BY <1>1, TypeParts DEF LocalsOK
  <2> QED BY <1>1, <2>1, MemPositive, ByteFacts
<1>3. /\ ~(getListSize + (c + s) > MEM)
      /\ mem' = Write(getListSize + c, s, n, c)
      /\ addNode(n, c + s) \/ varlist' = varlist
  BY DEF StructMember, isSizeOver
<1> HIDE DEF n, c, s
<1>4. getListSize + c + s <= MEM /\ c + s \in Nat /\ c + s <= MEM
      /\ getListSize + c + s = getListSize + (c + s)
  BY <1>2, <1>3
<1>5. getListSize' = getListSize \/ getListSize' = getListSize + c + s
  <2>1. CASE addNode(n, c + s)
    BY <1>1, <1>2, <1>4, <2>1, AddNodeSize
  <2>2. CASE varlist' = varlist
    BY <2>2 DEF getListSize, SizeOfFirst
  <2> QED BY <1>3, <2>1, <2>2
<1> QED BY <1>1, <1>2, <1>3, <1>4, <1>5, WritingKeepsCopyInv

(* Every step keeps what lies behind the list in its place.                *)
LEMMA CopyNext == MemInv /\ CopyInv /\ [Next]_vars => CopyInv'
<1> SUFFICES ASSUME MemInv, CopyInv, [Next]_vars PROVE CopyInv'
  OBVIOUS
<1>1. TypeOK /\ ListInv /\ mem' \in Memory
  <2>1. MemInv'
    BY MemNext
  <2> QED BY <2>1, TypeParts DEF MemInv
<1>2. CASE UNCHANGED <<mem, varlist>>
  BY <1>1, <1>2, AskingKeepsCopyInv
<1>3. CASE GiveValue
  BY <1>3, ValueKeepsCopyInv
<1>4. ASSUME NEW c \in 0 .. MaxMembers, StructCount(c) PROVE CopyInv'
  <2>1. CASE c = 0
    <3>1. mem' = mem /\ addNode(local.name, 0) /\ local.name \in Name
      <4>1. prompt = "count"
        BY <1>4 DEF StructCount
      <4> QED BY <1>1, <1>4, <2>1, <4>1, TypeParts DEF StructCount, LocalsOK
    <3>2. getListSize \in Nat /\ 0 <= MEM /\ 0 \in Nat
      BY <1>1, ByteFacts
    <3>3. getListSize' = getListSize \/ getListSize' = getListSize + 0
      BY <1>1, <3>1, <3>2, AddNodeSize
    <3>4. getListSize' = getListSize
      BY <3>2, <3>3
    <3> QED BY <1>1, <3>1, <3>4, ClearingKeepsCopyInv
  <2>2. CASE c # 0
    BY <1>2, <1>4, <2>2 DEF StructCount
  <2> QED BY <2>1, <2>2
<1>5. ASSUME NEW t \in Basic, StructMember(t) PROVE CopyInv'
  BY <1>5, MemberKeepsCopyInv
<1>6. CASE WrongMember
  <2>1. mem' = Clear(mem, getListSize, local.structSize) /\ varlist' = varlist
    BY <1>6 DEF WrongMember
  <2>2. \A i \in 0 .. MEM - 1 : mem'[i] = mem[i] \/ mem'[i] = ZERO
    BY <1>1, <2>1, ByteFacts DEF Clear
  <2>3. getListSize' = getListSize
    BY <2>1 DEF getListSize, SizeOfFirst
  <2> QED BY <1>1, <2>2, <2>3, ClearingKeepsCopyInv
<1>7. ASSUME NEW n \in Name, deallocate(n) PROVE CopyInv'
  BY <1>1, <1>7, DeallocateStep, TakingOutKeepsCopyInv
<1>8. \/ UNCHANGED <<mem, varlist>> \/ GiveValue \/ WrongMember
      \/ \E c \in 0 .. MaxMembers : StructCount(c)
      \/ \E t \in Basic : StructMember(t)
      \/ \E n \in Name : deallocate(n)
  BY DEF Next, vars, selectMode, SelectTypeAndName, WrongCount, StructMemberOver,
         NoSuchName
<1> QED BY <1>2, <1>3, <1>4, <1>5, <1>6, <1>7, <1>8

(* The memory is clear at the start.                                       *)
LEMMA CopyInit == Init => CopyInv
<1> SUFFICES ASSUME Init PROVE CopyInv
  OBVIOUS
<1>1. DOMAIN mem = 0 .. MEM - 1 /\ getListSize \in Nat
      /\ \A i \in 0 .. MEM - 1 : mem[i] = ZERO
  <2>1. TypeOK
    BY MemInit DEF MemInv
  <2> QED BY <2>1, ByteFacts DEF Init
<1>2. \A i \in getListSize .. MEM - 1 : i \in 0 .. MEM - 1
  BY <1>1, MemAssumption
<1> QED BY <1>1, <1>2 DEF CopyInv, OneCopy, LeftBehind

(* The memory never holds two versions of a byte, for every size of the    *)
(* memory: what a struct that failed for want of memory leaves behind the  *)
(* list is written over when a variable of that name comes there again.    *)
THEOREM OneCopyOfEachByte == Spec => []OneCopy
<1>1. CopyInv => OneCopy
  BY DEF CopyInv
<1> QED
  BY <1>1, CopyInit, CopyNext, MemInvariance, PTL DEF Spec

(* The bytes that a removal takes from the list are those of the variable. *)
LEMMA OwnedTaken ==
    ASSUME TypeOK, ListInv, NEW k \in 1 .. Len(varlist), TakenOut(k)
    PROVE  Owned \ Owned' = {varlist[k].name} \X (0 .. varlist[k].size - 1)
<1> DEFINE len == Len(varlist)
           own(j) == {varlist[j].name} \X (0 .. varlist[j].size - 1)
<1>1. /\ varlist \in Seq(Node) /\ len \in Nat
      /\ \A i, j \in 1 .. len : varlist[i].name = varlist[j].name => i = j
  BY ListFacts DEF ListInv, UniqueNames
<1>2. /\ Len(varlist') = len - 1
      /\ \A j \in 1 .. len - 1 :
            varlist'[j] = IF j < k THEN varlist[j] ELSE varlist[j + 1]
  BY <1>1, RemoveSizes DEF TakenOut
<1>3. Owned = UNION {own(j) : j \in 1 .. len}
  BY DEF Owned
<1>4. Owned' = UNION {own(j) : j \in (1 .. len) \ {k}}
  <2>1. ASSUME NEW j \in (1 .. len) \ {k}
        PROVE  \E i \in 1 .. len - 1 : varlist'[i] = varlist[j]
    <3>1. CASE j < k
      <4>1. j \in 1 .. len - 1
        BY <1>1, <3>1
      <4> QED BY <1>2, <3>1, <4>1
    <3>2. CASE ~(j < k)
      <4>1. j - 1 \in 1 .. len - 1 /\ ~(j - 1 < k) /\ (j - 1) + 1 = j
        BY <1>1, <2>1, <3>2
      <4> QED BY <1>2, <4>1
    <3> QED BY <3>1, <3>2
  <2>2. ASSUME NEW i \in 1 .. len - 1
        PROVE  \E j \in (1 .. len) \ {k} : varlist'[i] = varlist[j]
    <3>1. CASE i < k
      <4>1. i \in (1 .. len) \ {k}
        BY <1>1, <3>1
      <4> QED BY <1>2, <3>1, <4>1
    <3>2. CASE ~(i < k)
      <4>1. i + 1 \in (1 .. len) \ {k}
        BY <1>1, <3>2
      <4> QED BY <1>2, <3>2, <4>1
    <3> QED BY <3>1, <3>2
  <2>3. Owned' = UNION {{varlist'[i].name} \X (0 .. varlist'[i].size - 1) :
                          i \in 1 .. len - 1}
    BY <1>2 DEF Owned
  <2>4. ASSUME NEW x \in Owned' PROVE \E j \in (1 .. len) \ {k} : x \in own(j)
    <3>1. PICK i \in 1 .. len - 1 :
             x \in {varlist'[i].name} \X (0 .. varlist'[i].size - 1)
      BY <2>3, <2>4
    <3> QED BY <2>2, <3>1
  <2>5. ASSUME NEW j \in (1 .. len) \ {k}, NEW x \in own(j) PROVE x \in Owned'
    <3>1. PICK i \in 1 .. len - 1 : varlist'[i] = varlist[j]
      BY <2>1
    <3>2. x \in {varlist'[i].name} \X (0 .. varlist'[i].size - 1)
      BY <3>1
    <3> QED BY <2>3, <3>2
  <2> QED BY <2>4, <2>5
<1>5. ASSUME NEW j \in (1 .. len) \ {k}, NEW x \in own(k) PROVE x \notin own(j)
  <2>1. varlist[j].name # varlist[k].name
    BY <1>1
  <2> QED BY <2>1
<1> HIDE DEF own
<1>6. Owned \ Owned' = own(k)
  BY <1>3, <1>4, <1>5
<1> QED BY <1>6 DEF own

(* A removal takes the bytes of the variable from the memory, and no byte  *)
(* is moved over another one that is still needed.                         *)
LEMMA ContentTaken ==
    ASSUME TypeOK, ListInv, CopyInv, mem' \in Memory,
           NEW k \in 1 .. Len(varlist), TakenOut(k)
    PROVE  Content' = Content \ ({varlist[k].name} \X (0 .. varlist[k].size - 1))
<1>1. PICK n : n = varlist[k].name
  OBVIOUS
<1>2. PICK d \in Nat : d = getIndexOf(k)
  BY DEF TakenOut
<1>3. PICK s \in Nat : s = varlist[k].size
  BY DEF TakenOut
<1>4. /\ d + s <= MEM /\ MEM \in Nat
      /\ DOMAIN mem = 0 .. MEM - 1 /\ DOMAIN mem' = 0 .. MEM - 1
  <2>1. d + s <= getListSize /\ getListSize <= MEM /\ getListSize \in Nat
    BY <1>2, <1>3, ByteFacts DEF TakenOut, ListInv, ListFits
  <2> QED BY <2>1, ByteFacts DEF Memory
<1>5. /\ \A i \in 0 .. d - 1 : mem'[i] = mem[i]
      /\ \A i \in d .. MEM - s - 1 : mem'[i] = mem[i + s]
      /\ \A i \in MEM - s .. MEM - 1 : mem'[i] = ZERO
  BY <1>2, <1>3 DEF TakenOut
<1>6. \A b \in 0 .. s - 1 : mem[d + b] = <<n, b>>
  BY <1>1, <1>2, <1>3 DEF ListInv, ValuesIntact
<1> DEFINE G == {n} \X (0 .. s - 1)
<1>7. ASSUME NEW x \in Content' PROVE x \in Content \ G
  <2>1. PICK i \in 0 .. MEM - 1 : x = mem'[i] /\ x # ZERO
    BY <1>4, <1>7 DEF Content
  <2>2. PICK j \in 0 .. MEM - 1 : x = mem[j] /\ (j < d \/ j >= d + s)
    <3>1. i \notin MEM - s .. MEM - 1
      BY <1>5, <2>1
    <3>2. CASE i < d
      BY <1>5, <2>1, <3>2
    <3>3. CASE ~(i < d)
      <4>1. i \in d .. MEM - s - 1 /\ i + s \in 0 .. MEM - 1 /\ i + s >= d + s
        BY <1>4, <3>1, <3>3
      <4> QED BY <1>5, <2>1, <4>1
    <3> QED BY <3>2, <3>3
  <2>3. x \in Content
    BY <1>4, <2>1, <2>2 DEF Content
  <2>4. ASSUME x \in G PROVE FALSE
    <3>1. PICK b \in 0 .. s - 1 : x = <<n, b>>
      BY <2>4
    <3>2. d + b \in 0 .. MEM - 1 /\ d + b >= d /\ d + b < d + s
      BY <1>4
    <3>3. mem[d + b] = mem[j] /\ mem[j] # ZERO
      BY <1>6, <2>1, <2>2, <3>1
    <3>4. d + b = j
      BY <1>4, <3>2, <3>3 DEF CopyInv, OneCopy
    <3> QED BY <2>2, <3>2, <3>4
  <2> QED BY <2>3, <2>4
<1>8. ASSUME NEW x \in Content \ G PROVE x \in Content'
  <2>1. PICK j \in 0 .. MEM - 1 : x = mem[j] /\ x # ZERO
    BY <1>4, <1>8 DEF Content
  <2>2. j < d \/ j >= d + s
    <3> SUFFICES ASSUME ~(j < d), ~(j >= d + s) PROVE FALSE
      OBVIOUS
    <3>1. j - d \in 0 .. s - 1 /\ d + (j - d) = j
      OBVIOUS
    <3>2. x = <<n, j - d>>
      BY <1>6, <2>1, <3>1
    <3> QED BY <1>8, <3>1, <3>2
  <2>3. PICK i \in 0 .. MEM - 1 : mem'[i] = x
    <3>1. CASE j < d
      BY <1>5, <2>1, <3>1
    <3>2. CASE j >= d + s
      <4>1. j - s \in d .. MEM - s - 1 /\ j - s \in 0 .. MEM - 1 /\ (j - s) + s = j
        BY <1>4, <3>2
      <4> QED BY <1>5, <2>1, <4>1
    <3> QED BY <2>2, <3>1, <3>2
  <2> QED BY <1>4, <2>1, <2>3 DEF Content
<1> QED BY <1>1, <1>3, <1>7, <1>8

(* What dump_mem shows after a removal is what it showed before, without   *)
(* the bytes of the variable: wherever compactions have put them, and      *)
(* whatever failed structs have left in the memory.                        *)
THEOREM RemovalsTakeTheirBytes == Spec => RemovalTakesItsBytes
<1>1. ASSUME MemInv, CopyInv, [Next]_vars, Len(varlist') < Len(varlist)
      PROVE  Content' = Content \ (Owned \ Owned')
  <2>1. varlist \in Seq(Node) /\ Len(varlist) \in Nat
    BY <1>1, ListFacts DEF MemInv
  <2>2. \A n, s : ~addNode(n, s)
    BY <1>1, <2>1 DEF addNode
  <2>3. varlist' # varlist
    BY <1>1, <2>1
  <2>4. PICK n \in Name : deallocate(n)
    BY <1>1, <2>2, <2>3
       DEF Next, vars, selectMode, SelectTypeAndName, GiveValue, StructCount,
           WrongCount, StructMember, StructMemberOver, WrongMember, NoSuchName
  <2>5. PICK k \in 1 .. Len(varlist) : TakenOut(k)
    BY <1>1, <2>4, DeallocateStep
  <2>6. TypeOK /\ ListInv /\ mem' \in Memory
    <3>1. MemInv'
      BY <1>1, MemNext
    <3> QED BY <1>1, <3>1, TypeParts DEF MemInv
  <2> QED BY <1>1, <2>5, <2>6, OwnedTaken, ContentTaken
<1>2. MemInv /\ CopyInv /\ [Next]_vars =>
         [Len(varlist') < Len(varlist) => Content' = Content \ (Owned \ Owned')]_vars
  BY <1>1
<1> QED
  BY <1>2, CopyInit, CopyNext, MemInvariance, PTL DEF Spec, RemovalTakesItsBytes
=============================================================================
