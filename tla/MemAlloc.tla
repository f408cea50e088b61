------------------------------ MODULE MemAlloc ------------------------------
(***************************************************************************)
(* The allocator of assignment4/20170286.h: named variables packed without *)
(* gaps into the array mem, in the order of the list varlist.  The user    *)
(* types one line at a time, and each line is a step: a choice in the      *)
(* menu, a type and a name, a value, one member of a struct.  A line that  *)
(* is only answered with the same question again is a stuttering step.     *)
(*                                                                         *)
(* A byte of mem is known by the variable that it was written for and its  *)
(* place in it.                                                            *)
(***************************************************************************)
EXTENDS Integers, Sums

CONSTANTS
    Name,         (* the names the user gives to variables                 *)
    ZERO,         (* a byte that was never written, or cleared             *)
    SizeOf,       (* sizeof of the three types: 1, 4 and 8                 *)
    MEM,          (* sizeof(mem), which is also 2 to the width of unsigned *)
                  (* char: 256                                             *)
    MaxMembers    (* bound: the largest struct the user asks for           *)

ASSUME MemAssumption == MEM \in Nat
ASSUME SizeAssumption ==
    SizeOf \in [{"char", "int", "double"} -> 1 .. MEM - 1]
ASSUME MembersAssumption == MaxMembers \in Nat
ASSUME ZeroAssumption == \A n \in Name : \A b \in 0 .. MEM : ZERO # <<n, b>>

VARIABLES
    mem,          (* the memory                                            *)
    varlist,      (* the nodes behind the nameless first one: the name and *)
                  (* the field size; bytes is the size before it was       *)
                  (* stored into that field, which the program forgets     *)
    prompt,       (* the question the program asks                         *)
    local         (* the local variables of the function that asks it      *)

vars == <<mem, varlist, prompt, local>>

---------------------------------------------------------------------------
NoLocals == <<>>

Basic == {"char", "int", "double"}

(* Fault, no part of the model, like all faults below: size is an int.     *)
UnsignedCharWide(i) == i

UnsignedChar(i) == i % MEM

(* The sizes of the first k nodes.                                         *)
Sizes(list) == [j \in 1 .. Len(list) |-> list[j].size]
SizeOfFirst(k) == RunningTotal(Sizes(varlist))[k]

getListSize == SizeOfFirst(Len(varlist))
getIndexOf(k) == SizeOfFirst(k - 1)

(* Fault: the last node is not looked at.                                  *)
isAlreadyNameButLast(n) == \E k \in 1 .. Len(varlist) - 1 : varlist[k].name = n

isAlreadyName(n) == \E k \in 1 .. Len(varlist) : varlist[k].name = n
findByName(n) == CHOOSE k \in 1 .. Len(varlist) :
    /\ varlist[k].name = n
    /\ \A j \in 1 .. k - 1 : varlist[j].name # n

(* Fault: what the list occupies is not counted.                           *)
isSizeOverAlone(s) == s > MEM

isSizeOver(s) == getListSize + s > MEM

(* Write s bytes at place p: the bytes of variable n from its byte b on.   *)
Write(p, s, n, b) ==
    [i \in DOMAIN mem |-> IF i \in p .. p + s - 1 THEN <<n, b + i - p>>
                                                  ELSE mem[i]]

(* memset to 0.                                                            *)
Clear(m, p, s) == [i \in DOMAIN m |-> IF i \in p .. p + s - 1 THEN ZERO ELSE m[i]]

addNode(n, s) ==
    varlist' = Append(varlist, [name |-> n, size |-> UnsignedChar(s), bytes |-> s])

removeNode(k) ==
    varlist' = SubSeq(varlist, 1, k - 1) \o SubSeq(varlist, k + 1, Len(varlist))

(* Ask the question q in a function with the local variables l.            *)
Ask(q, l) == prompt' = q /\ local' = l
Menu == Ask("mode", NoLocals)

---------------------------------------------------------------------------
(* initMemory.                                                             *)
Init ==
    /\ mem = [i \in 0 .. MEM - 1 |-> ZERO]
    /\ varlist = <<>>
    /\ prompt = "mode"
    /\ local = NoLocals

(* selectMode: 1 allocates, 2 deallocates.                                 *)
selectMode(m) ==
    /\ prompt = "mode"
    /\ \/ m = 1 /\ Ask("type", NoLocals)
       \/ m = 2 /\ Ask("remove", NoLocals)
    /\ UNCHANGED <<mem, varlist>>

(* allocate_SelectTypeAndName, and the checks of the allocate_* functions  *)
(* before they ask the next question.                                      *)
SelectTypeAndName(t, n) ==
    /\ prompt = "type"
    /\ IF isAlreadyName(n) \/ (t # "struct" /\ isSizeOver(SizeOf[t])) THEN Menu
       ELSE IF t = "struct" THEN Ask("count", [name |-> n])
       ELSE Ask("value", [name |-> n, type |-> t])
    /\ UNCHANGED <<mem, varlist>>

(* allocate_Char, allocate_Int and allocate_Double get their value.        *)
GiveValue ==
    /\ prompt = "value"
    /\ mem' = Write(UnsignedChar(getListSize), SizeOf[local.type], local.name, 0)
    /\ addNode(local.name, SizeOf[local.type])
    /\ Menu

(* allocate_Struct gets the number of members, or a line that is none.     *)
StructCount(c) ==
    /\ prompt = "count"
    /\ IF c = 0 THEN addNode(local.name, 0) /\ Menu
       ELSE /\ Ask("member", [name |-> local.name, left |-> c, structSize |-> 0])
            /\ UNCHANGED varlist
    /\ UNCHANGED mem

WrongCount ==
    /\ prompt = "count"
    /\ Menu
    /\ UNCHANGED <<mem, varlist>>

(* allocate_Struct_value gets one member.  A member that does not fit ends *)
(* the struct and leaves the bytes of the others where they are.           *)
StructMember(t) ==
    LET size == local.structSize + SizeOf[t]
    IN  /\ prompt = "member"
        /\ ~isSizeOver(size)
        /\ mem' = Write(getListSize + local.structSize, SizeOf[t], local.name,
                        local.structSize)
        /\ IF local.left = 1 THEN addNode(local.name, size) /\ Menu
           ELSE /\ local' = [local EXCEPT !.left = @ - 1, !.structSize = size]
                /\ UNCHANGED <<varlist, prompt>>

StructMemberOver(t) ==
    /\ prompt = "member"
    /\ isSizeOver(local.structSize + SizeOf[t])
    /\ Menu
    /\ UNCHANGED <<mem, varlist>>

(* An unknown type or a malformed line clears the bytes of the struct.     *)
WrongMember ==
    /\ prompt = "member"
    /\ mem' = Clear(mem, getListSize, local.structSize)
    /\ Menu
    /\ UNCHANGED varlist

(* Fault: the variables behind the removed one stay where they are.        *)
deallocateInPlace(n) ==
    /\ prompt = "remove"
    /\ isAlreadyName(n)
    /\ mem' = Clear(mem, getIndexOf(findByName(n)), varlist[findByName(n)].size)
    /\ removeNode(findByName(n))
    /\ Menu

(* Fault: only what belongs to the list moves down.                        *)
deallocateListOnly(n) ==
    LET k    == findByName(n)
        size == varlist[k].size
        dest == getIndexOf(k)
        down == [i \in DOMAIN mem |->
                    IF i >= dest /\ i + size < getListSize THEN mem[i + size] ELSE mem[i]]
    IN  /\ prompt = "remove"
        /\ isAlreadyName(n)
        /\ mem' = Clear(down, getListSize - size, size)
        /\ removeNode(k)
        /\ Menu

(* deallocate: everything behind the variable moves down and as many bytes *)
(* at the end are cleared.                                                 *)
deallocate(n) ==
    LET k    == findByName(n)
        size == varlist[k].size
        dest == getIndexOf(k)
        down == [i \in DOMAIN mem |->
                    IF i >= dest /\ i + size < MEM THEN mem[i + size] ELSE mem[i]]
    IN  /\ prompt = "remove"
        /\ isAlreadyName(n)
        /\ mem' = Clear(down, MEM - size, size)
        /\ removeNode(k)
        /\ Menu

(* A name that is not found, or no name.                                   *)
NoSuchName ==
    /\ prompt = "remove"
    /\ Menu
    /\ UNCHANGED <<mem, varlist>>

Next ==
    \/ \E m \in {1, 2} : selectMode(m)
    \/ \E t \in Basic \cup {"struct"}, n \in Name : SelectTypeAndName(t, n)
    \/ GiveValue
    \/ \E c \in 0 .. MaxMembers : StructCount(c)
    \/ WrongCount
    \/ \E t \in Basic : StructMember(t) \/ StructMemberOver(t)
    \/ WrongMember
    \/ \E n \in Name : deallocate(n)
    \/ NoSuchName

Spec == Init /\ [][Next]_vars

---------------------------------------------------------------------------
(* The type invariant.                                                     *)
Node == [name : Name, size : 0 .. MEM - 1, bytes : Nat]

TypeOK ==
    /\ mem \in [0 .. MEM - 1 -> (Name \X (0 .. MEM)) \cup {ZERO}]
    /\ varlist \in Seq(Node)
    /\ prompt \in {"mode", "type", "value", "count", "member", "remove"}
    /\ local \in
          CASE prompt \in {"mode", "type", "remove"} -> {NoLocals}
            [] prompt = "value"  -> [name : Name, type : Basic]
            [] prompt = "count"  -> [name : Name]
            [] prompt = "member" -> [name : Name, left : 1 .. MaxMembers,
                                     structSize : 0 .. MEM]

(* Names are unique, although a name is checked some questions before its  *)
(* node is added: deallocate finds the variable it was asked for.          *)
UniqueNames ==
    \A j, k \in 1 .. Len(varlist) : varlist[j].name = varlist[k].name => j = k

(* The variables fit into mem, so every index that getIndexOf and          *)
(* getListSize compute lies inside it.                                     *)
ListFits == getListSize <= MEM

(* However variables come and go, and whatever failed structs leave        *)
(* behind, the bytes at a variable's index are its own.  Only a struct of  *)
(* exactly MEM bytes, whose size is stored as 0, has no bytes to speak of. *)
ValuesIntact ==
    \A k \in 1 .. Len(varlist) : \A b \in 0 .. varlist[k].size - 1 :
        mem[getIndexOf(k) + b] = <<varlist[k].name, b>>

(* Structs that fail for want of memory leave bytes behind the list, and   *)
(* the next struct may have the same name.  Yet mem never holds two        *)
(* versions of a byte: what is left behind moves with the end of the list, *)
(* so that a new variable is written over it.                              *)
OneCopy ==
    \A i, j \in DOMAIN mem : mem[i] = mem[j] /\ mem[i] # ZERO => i = j

Content == {mem[i] : i \in DOMAIN mem} \ {ZERO}

(* The bytes that varlist accounts for.                                    *)
Owned == UNION {{varlist[k].name} \X (0 .. varlist[k].size - 1) :
                   k \in 1 .. Len(varlist)}

(* dump_mem shows all of mem after a removal: the bytes of the variable    *)
(* are gone from it, wherever compaction has put them, and nothing else    *)
(* is, the remains of failed structs included.  Of a struct of MEM bytes,  *)
(* whose size is stored as 0, nothing goes.                                *)
RemovalTakesItsBytes ==
    [][Len(varlist') < Len(varlist) => Content' = Content \ (Owned \ Owned')]_vars

(* notEnoughMemory tells how many bytes the user can use: they belong to   *)
(* no variable.                                                            *)
ReportedBytesAreFree ==
    Total([j \in 1 .. Len(varlist) |-> varlist[j].bytes]) <= getListSize
===========================================================================
