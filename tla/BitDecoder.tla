----------------------------- MODULE BitDecoder -----------------------------
(***************************************************************************)
(* The program of assignment1: it reads a file of the characters '0' and   *)
(* '1' seven times, packs the characters into memory as bits, and shows    *)
(* the memory as numbers of a type that differs from time to time.         *)
(*                                                                         *)
(* A pass of the loop of readFile is a step.  memory is byte by byte as    *)
(* the machine (little-endian) stores it.  It goes on behind the block     *)
(* that calloc returned, because the loop stores one element there.        *)
(***************************************************************************)
EXTENDS Integers, Sequences

CONSTANTS
    BYTE,         (* the bits of a byte: 8                                 *)
    SizeOfType,   (* sizeof of the three types: 1, 4 and 8                 *)
    Inputs,       (* the files: sequences of character codes               *)
    Stack,        (* what tmpStr may hold before the first fread           *)
    HEAP          (* a byte that belongs to the allocator                  *)

ASSUME ByteAssumption == BYTE \in Nat \ {0}
ASSUME TypeAssumption == SizeOfType \in [{"char", "int", "double"} -> Nat \ {0}]
ASSUME WidthAssumption ==
    \A t \in {"char", "int", "double"} : SizeOfType["double"] % SizeOfType[t] = 0
ASSUME InputAssumption == Inputs \subseteq Seq(Nat)
ASSUME StackAssumption ==
    Stack # {} /\ Stack \subseteq [1 .. BYTE * SizeOfType["double"] -> Nat]
ASSUME HeapAssumption == HEAP \notin Nat

VARIABLES
    input,        (* the characters of the file                            *)
    flag,         (* the type of the loop in main, from 1 on               *)
    pos,          (* the position of fp                                    *)
    eof,          (* its end-of-file indicator                             *)
    tmpStr,       (* the characters read last                              *)
    memory,       (* the block memorySpace and what follows it             *)
    i,            (* the elements stored                                   *)
    heap,         (* "ok", or "corrupt" when a byte of the allocator was   *)
                  (* overwritten                                           *)
    shown,        (* what was printed, one sequence of numbers per type    *)
    stage         (* where the program is                                  *)

decoder == <<input, flag, pos, eof, tmpStr, memory, i, heap, shown, stage>>

---------------------------------------------------------------------------
(* The macros SIGNED_CHAR .. DOUBLE.                                       *)
Flags == 1 .. 7
TypeOf == <<"char", "char", "char", "int", "int", "int", "double">>
IsSigned(k) == k \in {1, 2, 4}

Width(k) == SizeOfType[TypeOf[k]]             \* in bytes
Bits(k)  == BYTE * Width(k)                   \* and in bits

MaxWidth == SizeOfType["double"]
MaxBits  == BYTE * MaxWidth

(* The powers of two.                                                      *)
Power == LET p[k \in 0 .. MaxBits] == IF k = 0 THEN 1 ELSE 2 * p[k - 1]
         IN  p

fileSize == Len(input) \div BYTE

(* The bytes that the caller of malloc may use when it asks for n bytes, a *)
(* multiple of the largest type: glibc rounds to an odd number of those.   *)
Usable(n) ==
    LET k == n \div MaxWidth
    IN  MaxWidth * (IF k < 3 THEN 3 ELSE IF k % 2 = 1 THEN k ELSE k + 1)

(* Fault, no part of the model, like all faults below: the result is       *)
(* shifted behind the last bit, too.                                       *)
stringToBitShiftsOn(str, size) ==
    LET res[k \in 0 .. size] ==
            IF k = 0 THEN 0 ELSE ((res[k - 1] + (str[k] % 2)) * 2) % Power[MaxBits]
    IN  res[size]

(* res has the width of uint64_t.  res[k] is its value after k characters. *)
stringToBit(str, size) ==
    LET res[k \in 0 .. size] ==
            IF k = 0 THEN 0
            ELSE LET sum == (res[k - 1] + (str[k] % 2)) % Power[MaxBits]
                 IN  IF k = size THEN sum ELSE (sum * 2) % Power[MaxBits]
    IN  res[size]

(* Element e of the type of flag k in m, set to the number v: the cast     *)
(* keeps as many bytes of it as the type has.                              *)
Store(m, k, e, v) ==
    [a \in DOMAIN m |->
        IF a \in e * Width(k) .. e * Width(k) + Width(k) - 1
          THEN (v \div Power[BYTE * (a - e * Width(k))]) % Power[BYTE]
          ELSE m[a]]

(* The same element read as an unsigned number.                            *)
Load(m, k, e) ==
    LET sum[j \in 0 .. Width(k)] ==
            IF j = 0 THEN 0
            ELSE sum[j - 1] + m[e * Width(k) + j - 1] * Power[BYTE * (j - 1)]
    IN  sum[Width(k)]

(* ... and as a number of the type itself; of float and double the bits.   *)
Signed(k, v) == IF IsSigned(k) /\ v >= Power[Bits(k) - 1] THEN v - Power[Bits(k)] ELSE v

Elements(k) == fileSize \div Width(k)

---------------------------------------------------------------------------
DecoderInit ==
    /\ input \in Inputs
    /\ flag = 1
    /\ pos = 0 /\ eof = FALSE
    /\ tmpStr \in Stack
    /\ memory = <<>>
    /\ i = 0
    /\ heap = "ok"
    /\ shown = <<>>
    /\ stage = "readFile"

(* readFile up to its loop: a file that is not a multiple of 64 characters *)
(* long ends the program.                                                  *)
WrongLength ==
    /\ stage = "readFile"
    /\ Len(input) % MaxBits # 0
    /\ stage' = "exit 1"
    /\ UNCHANGED <<input, flag, pos, eof, tmpStr, memory, i, heap, shown>>

Allocate ==
    /\ stage = "readFile"
    /\ Len(input) % MaxBits = 0
    /\ memory' = [a \in 0 .. fileSize + MaxWidth - 1 |->
                      IF a < fileSize THEN 0 ELSE HEAP]
    /\ pos' = 0 /\ eof' = FALSE
    /\ tmpStr' \in Stack
    /\ i' = 0
    /\ stage' = "loop"
    /\ UNCHANGED <<input, flag, heap, shown>>

(* fread of one item of n characters.  What there is of it is stored.      *)
fread1(n) ==
    LET left == Len(input) - pos
        got  == IF n <= left THEN n ELSE left
    IN  /\ tmpStr' = [c \in DOMAIN tmpStr |->
                          IF c <= got THEN input[pos + c] ELSE tmpStr[c]]
        /\ pos' = pos + got
        /\ eof' = (eof \/ got < n)

(* Fault: i is counted up before the element is stored.                    *)
ReadElementTooFar ==
    /\ stage = "loop"
    /\ ~eof
    /\ fread1(Bits(flag))
    /\ i' = i + 1
    /\ memory' = Store(memory, flag, i', stringToBit(tmpStr', Bits(flag)))
    /\ heap' = IF (i' + 1) * Width(flag) > Usable(fileSize) THEN "corrupt" ELSE heap
    /\ UNCHANGED <<input, flag, shown, stage>>

(* A pass of the loop.  The result of fread is not looked at: the pass     *)
(* that finds the end of the file stores what tmpStr held before, behind   *)
(* the block.                                                              *)
ReadElement ==
    /\ stage = "loop"
    /\ ~eof
    /\ fread1(Bits(flag))
    /\ memory' = Store(memory, flag, i, stringToBit(tmpStr', Bits(flag)))
    /\ heap' = IF (i + 1) * Width(flag) > Usable(fileSize) THEN "corrupt" ELSE heap
    /\ i' = i + 1
    /\ UNCHANGED <<input, flag, shown, stage>>

(* printResult.                                                            *)
Printed == shown' = Append(shown, [e \in 1 .. Elements(flag) |->
                                     Signed(flag, Load(memory, flag, e - 1))])

(* Faults: main stops before the last type, or behind it.                  *)
printResultTo(last) ==
    /\ stage = "loop"
    /\ eof
    /\ Printed
    /\ memory' = <<>>
    /\ flag' = flag + 1
    /\ stage' = IF flag = last THEN "exit 0" ELSE "readFile"
    /\ UNCHANGED <<input, pos, eof, tmpStr, i, heap>>
printResultButDouble == printResultTo(6)
printResultOnceMore == printResultTo(8)

(* The end of readFile, which frees the block, and main goes on to the     *)
(* next type.                                                              *)
printResult ==
    /\ stage = "loop"
    /\ eof
    /\ Printed
    /\ memory' = <<>>
    /\ flag' = flag + 1
    /\ stage' = IF flag = 7 THEN "exit 0" ELSE "readFile"
    /\ UNCHANGED <<input, pos, eof, tmpStr, i, heap>>

(* The allocator may find out what was done to its bytes, in fclose and    *)
(* free behind printResult or in the next fopen and calloc, and aborts.    *)
AbortInFree ==
    /\ stage = "loop"
    /\ eof
    /\ heap = "corrupt"
    /\ Printed
    /\ stage' = "aborted"
    /\ UNCHANGED <<input, flag, pos, eof, tmpStr, memory, i, heap>>

AbortInMalloc ==
    /\ stage = "readFile"
    /\ heap = "corrupt"
    /\ stage' = "aborted"
    /\ UNCHANGED <<input, flag, pos, eof, tmpStr, memory, i, heap, shown>>

DecoderNext ==
    \/ WrongLength
    \/ Allocate
    \/ ReadElement
    \/ printResult
    \/ AbortInFree
    \/ AbortInMalloc

DecoderSpec == DecoderInit /\ [][DecoderNext]_decoder /\ WF_decoder(DecoderNext)

---------------------------------------------------------------------------
(* The type invariant.                                                     *)
DecoderTypeOK ==
    /\ input \in Inputs
    /\ flag \in 1 .. 8
    /\ pos \in 0 .. Len(input)
    /\ eof \in BOOLEAN
    /\ tmpStr \in [1 .. MaxBits -> Nat]
    /\ stage = "loop" =>
          /\ flag \in Flags
          /\ memory \in [0 .. fileSize + MaxWidth - 1 -> Nat \cup {HEAP}]
    /\ i \in Nat
    /\ heap \in {"ok", "corrupt"}
    /\ shown \in Seq(Seq(Int))
    /\ stage \in {"readFile", "loop", "exit 0", "exit 1", "aborted"}

(* What is shown is what the file says: the binary digits of element e, as *)
(* an unsigned number of its width, are the characters that stand for it.  *)
(* The element that the loop stores once too often shows nowhere.          *)
ShowsTheBits ==
    \A k \in 1 .. Len(shown) :
        /\ Len(shown[k]) = Len(input) \div Bits(k)
        /\ \A e \in 1 .. Len(shown[k]) :
              LET v == shown[k][e]
                  u == IF v < 0 THEN v + Power[Bits(k)] ELSE v
              IN  /\ u \in 0 .. Power[Bits(k)] - 1
                  /\ IsSigned(k) =>
                        (v < 0 <=> input[(e - 1) * Bits(k) + 1] % 2 = 1)
                  /\ \A b \in 1 .. Bits(k) :
                        (u \div Power[Bits(k) - b]) % 2
                           = input[(e - 1) * Bits(k) + b] % 2

(* The pass that finds the end of the file stores one element behind the   *)
(* block, a copy of the last one, and no pass stores more.                 *)
OneElementBehind ==
    stage = "loop" =>
        /\ \A a \in fileSize + Width(flag) .. fileSize + MaxWidth - 1 :
              memory[a] = HEAP
        /\ eof /\ fileSize > 0 =>
              Load(memory, flag, Elements(flag)) = Load(memory, flag, Elements(flag) - 1)

(* The heap is damaged only by files that fill their block to its last     *)
(* byte: 24, 40, 56 .. bytes of bits.                                      *)
Fits == fileSize < Usable(fileSize)

(* Every file of a multiple of 64 characters that leaves room behind its   *)
(* bits is shown as all seven types, and the program ends: feof becomes    *)
(* true although every item is read completely.                            *)
ShowsAllTypes ==
    (stage = "readFile" /\ Len(input) % MaxBits = 0 /\ Fits)
        ~> (stage = "exit 0" /\ Len(shown) = 7)
=============================================================================
