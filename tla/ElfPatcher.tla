----------------------------- MODULE ElfPatcher -----------------------------
(***************************************************************************)
(* The program of assignment2: it looks for the .rodata sections of an ELF *)
(* file and replaces "software" by "hackers!" in them, in place.           *)
(*                                                                         *)
(* The bytes of the file are counted from 0.  What its headers say is kept *)
(* in the record elf, because nothing but their place in the file matters. *)
(* A pass of the loop of software2Hackers is a step.                       *)
(***************************************************************************)
EXTENDS Integers, Sequences

CONSTANTS
    WORD,         (* "software"                                            *)
    resString,    (* "hackers!"                                            *)
    NUL,          (* the byte 0                                            *)
    JUNK,         (* a byte of a new array                                 *)
    EHSIZE,       (* the sizes of the ELF header and of a section header   *)
    SHSIZE,
    Images,       (* the files, see Image                                  *)
    Behind        (* what may lie on the stack behind the array buff, up   *)
                  (* to the next byte 0                                    *)

Chars(s) == {s[q] : q \in 1 .. Len(s)}

(* No proper end of the word is a beginning of it, and what replaces it    *)
(* begins and ends with bytes that the word does not have.                 *)
ASSUME WordAssumption ==
    /\ WORD \in Seq(Nat) /\ resString \in Seq(Nat) /\ NUL \in Nat /\ JUNK \in Nat
    /\ Len(WORD) > 0 /\ Len(resString) = Len(WORD)
    /\ NUL \notin Chars(WORD)
    /\ \A n \in 1 .. Len(WORD) - 1 :
          SubSeq(WORD, Len(WORD) - n + 1, Len(WORD)) # SubSeq(WORD, 1, n)
    /\ resString[1] \notin Chars(WORD) /\ resString[Len(WORD)] \notin Chars(WORD)
ASSUME BehindAssumption ==
    /\ Behind # {}
    /\ \A s \in Behind : s \in Seq(Nat) /\ Len(s) > 0 /\ s[Len(s)] = NUL
ASSUME HeaderAssumption == EHSIZE \in Nat /\ SHSIZE \in Nat \ {0}

(* What the headers say: whether the magic number is right, where the      *)
(* section headers are (e_shoff), where the table of their names is, and,  *)
(* for each section, whether its name begins with ".rodata" and where it   *)
(* is.  Offsets count from 0.                                              *)
Extent == [offset : Nat, size : Nat]
Section == [rodata : BOOLEAN, offset : Nat, size : Nat]
Headers == [isElf : BOOLEAN, shoff : Nat, table : Seq(Section), names : Extent]
Image == [elf : Headers, bytes : Seq(Nat)]

(* The byte at place p (from 1 on) of a file belongs to the section s.     *)
In(p, s) == p \in s.offset + 1 .. s.offset + s.size

(* Sections do not overlap each other; a .rodata section lies between the  *)
(* ELF header and the section headers, which linkers write last, and does  *)
(* not hold the names.  A file may end anywhere.                           *)
ASSUME ImageAssumption ==
    /\ Images \subseteq Image
    /\ \A m \in Images : \A s \in Chars(m.elf.table) :
          s.rodata => /\ EHSIZE <= s.offset /\ s.offset + s.size <= m.elf.shoff
                      /\ \A p \in 1 .. m.elf.shoff : In(p, s) => ~In(p, m.elf.names)
    /\ \A m \in Images : \A j, k \in DOMAIN m.elf.table :
          \A p \in 1 .. m.elf.shoff :
              In(p, m.elf.table[j]) /\ In(p, m.elf.table[k]) => j = k

VARIABLES
    bytes,        (* the file                                              *)
    elf,          (* the headers in it                                     *)
    unpatched,    (* history: the file before the program ran              *)
    buff,         (* the array of software2Hackers and what lies behind it *)
    section,      (* the number of the section the program is at           *)
    pass,         (* the variable i of the loop of software2Hackers        *)
    step          (* where the program is                                  *)

patcher == <<bytes, elf, unpatched, buff, section, pass, step>>

---------------------------------------------------------------------------
Sections == 1 .. Len(elf.table)
this == elf.table[section]

(* The whole extent lies in the file: the assertions on read hold.         *)
Complete(offset, size) == offset + size <= Len(bytes)

(* What read puts into an array of n bytes.                                *)
Read(offset, n) ==
    [p \in 1 .. n |-> IF offset + p <= Len(bytes) THEN bytes[offset + p] ELSE JUNK]

(* The file after write, which does not go beyond its end here.            *)
Write(offset, s) ==
    [p \in DOMAIN bytes |-> IF p \in offset + 1 .. offset + Len(s)
                              THEN s[p - offset] ELSE bytes[p]]

WordAt(b, p) ==
    p + Len(WORD) - 1 <= Len(b) /\ SubSeq(b, p, p + Len(WORD) - 1) = WORD

(* strstr from place p on: the places of the word before the next zero     *)
(* byte, of which it returns the first.                                    *)
Words(b, p) == {q \in p .. Len(b) : WordAt(b, q) /\ \A r \in p .. q : b[r] # NUL}
strstr(b, p) == CHOOSE q \in Words(b, p) : \A r \in Words(b, p) : q <= r

(* Fault, no part of the model, like all faults below: the zero byte at    *)
(* the end of resString is copied, too.                                    *)
strncpyAndZero(b, q) ==
    [p \in DOMAIN b |-> IF p \in q .. q + Len(WORD) - 1 THEN resString[p - q + 1]
                        ELSE IF p = q + Len(WORD) THEN NUL ELSE b[p]]

strncpy(b, q) ==
    [p \in DOMAIN b |-> IF p \in q .. q + Len(WORD) - 1 THEN resString[p - q + 1]
                                                         ELSE b[p]]

---------------------------------------------------------------------------
PatcherInit ==
    /\ \E m \in Images : elf = m.elf /\ bytes = m.bytes
    /\ unpatched = bytes
    /\ buff = <<>>
    /\ section = 1
    /\ pass = 0
    /\ step = "main"

(* main up to is_elf: a file that is no ELF file ends the program, one     *)
(* that is shorter than the header aborts it.                              *)
read_elf_header ==
    /\ step = "main"
    /\ step' = IF ~Complete(0, EHSIZE) THEN "aborted"
               ELSE IF ~elf.isElf THEN "done" ELSE "headers"
    /\ UNCHANGED <<bytes, elf, unpatched, buff, section, pass>>

(* Fault: the number of bytes that read returned is not looked at.         *)
print_section_headersUnchecked ==
    /\ step = "headers"
    /\ step' = "sections"
    /\ section' = 1
    /\ UNCHANGED <<bytes, elf, unpatched, buff, pass>>

(* All section headers and the table of names are read, or the program     *)
(* aborts, before any section is looked at.                                *)
print_section_headers ==
    /\ step = "headers"
    /\ step' = IF /\ Complete(elf.shoff, SHSIZE * Len(elf.table))
                  /\ Complete(elf.names.offset, elf.names.size)
               THEN "sections" ELSE "aborted"
    /\ section' = 1
    /\ UNCHANGED <<bytes, elf, unpatched, buff, pass>>

(* The loop over the sections: the other sections are passed over.         *)
OtherSection ==
    /\ step = "sections"
    /\ section \in Sections
    /\ ~this.rodata
    /\ section' = section + 1
    /\ UNCHANGED <<bytes, elf, unpatched, buff, pass, step>>

LastSection ==
    /\ step = "sections"
    /\ section \notin Sections
    /\ step' = "done"
    /\ UNCHANGED <<bytes, elf, unpatched, buff, section, pass>>

(* software2Hackers reads the section.                                     *)
ReadSection ==
    /\ step = "sections"
    /\ section \in Sections
    /\ this.rodata
    /\ \E s \in Behind : buff' = Read(this.offset, this.size) \o s
    /\ pass' = 0
    /\ step' = "loop"
    /\ UNCHANGED <<bytes, elf, unpatched, section>>

(* A pass of its loop, which goes on to i = sh_size, one byte too far, and *)
(* searches behind the array as long as it finds no zero byte.             *)
ReplaceFirst ==
    buff' = IF Words(buff, pass + 1) # {} THEN strncpy(buff, strstr(buff, pass + 1))
                                          ELSE buff

(* Fault: the loop makes one more pass.                                    *)
LoopTooLong ==
    /\ step = "loop"
    /\ pass <= this.size + 1
    /\ ReplaceFirst
    /\ pass' = pass + 1
    /\ UNCHANGED <<bytes, elf, unpatched, section, step>>

Loop ==
    /\ step = "loop"
    /\ pass <= this.size
    /\ ReplaceFirst
    /\ pass' = pass + 1
    /\ UNCHANGED <<bytes, elf, unpatched, section, step>>

(* Fault: all of the array is written, what lies behind it included.       *)
WriteSectionAndMore ==
    /\ step = "loop"
    /\ pass > this.size
    /\ bytes' = Write(this.offset, buff)
    /\ section' = section + 1
    /\ step' = "sections"
    /\ UNCHANGED <<elf, unpatched, buff, pass>>

(* It writes the section back.                                             *)
WriteSection ==
    /\ step = "loop"
    /\ pass > this.size
    /\ bytes' = Write(this.offset, SubSeq(buff, 1, this.size))
    /\ section' = section + 1
    /\ step' = "sections"
    /\ UNCHANGED <<elf, unpatched, buff, pass>>

(* The user starts the program again.                                      *)
RunAgain ==
    /\ step \in {"done", "aborted"}
    /\ step' = "main"
    /\ UNCHANGED <<bytes, elf, unpatched, buff, section, pass>>

PatcherNext ==
    \/ read_elf_header
    \/ print_section_headers
    \/ OtherSection
    \/ LastSection
    \/ ReadSection
    \/ Loop
    \/ WriteSection
    \/ RunAgain

PatcherSpec == PatcherInit /\ [][PatcherNext]_patcher

---------------------------------------------------------------------------
(* The type invariant.                                                     *)
PatcherTypeOK ==
    /\ elf \in Headers
    /\ unpatched \in Seq(Nat)
    /\ bytes \in Seq(Nat)
    /\ buff \in Seq(Nat)
    /\ section \in 1 .. Len(elf.table) + 1
    /\ step \in {"main", "headers", "sections", "loop", "done", "aborted"}
    /\ pass \in Nat
    /\ step = "loop" => /\ section \in Sections
                        /\ pass <= this.size + 1
                        /\ this.size < Len(buff)

(* Whatever lies behind the array when it is searched, the file keeps its  *)
(* length and every byte outside its .rodata sections.                     *)
OnlyRodataChanges ==
    /\ Len(bytes) = Len(unpatched)
    /\ \A p \in 1 .. Len(bytes) :
          (\A s \in Chars(elf.table) : s.rodata => ~In(p, s)) =>
              bytes[p] = unpatched[p]

(* It is an ELF file with all that is read before its sections.            *)
Accepted ==
    /\ elf.isElf
    /\ Complete(0, EHSIZE)
    /\ Complete(elf.shoff, SHSIZE * Len(elf.table))
    /\ Complete(elf.names.offset, elf.names.size)

(* A file that is no ELF file, or ends before its headers or the table of  *)
(* names do, is left as it is, however often the program is run.           *)
RejectedUntouched == ~Accepted => bytes = unpatched

(* What may be at place p of the section s when it has been dealt with:    *)
(* each word that lies in the section is replaced and everything else is   *)
(* as it was.  Only from a beginning of the word at the very end of the    *)
(* section may something be replaced as well, if the array is followed by  *)
(* what is missing, in this run or in an earlier one.                      *)
Allowed(s, p) ==
    LET end       == s.offset + s.size
        words     == {q \in s.offset + 1 .. end - Len(WORD) + 1 :
                        p \in q .. q + Len(WORD) - 1 /\ WordAt(unpatched, q)}
        isRest(q) == /\ q > end - Len(WORD) + 1
                     /\ SubSeq(unpatched, q, end) = SubSeq(WORD, 1, end - q + 1)
    IN  IF words # {} THEN {resString[p - q + 1] : q \in words}
        ELSE IF \E q \in s.offset + 1 .. p : isRest(q)
               THEN {unpatched[p]} \cup Chars(resString)
        ELSE {unpatched[p]}

(* The program has come past section k.                                    *)
IsBehind(k) ==
    \/ step \in {"sections", "loop"} /\ k < section
    \/ step = "done" /\ elf.isElf

(* Every .rodata section behind which the program has come is patched, and *)
(* stays so however often the program runs: the search finds the words     *)
(* behind zero bytes, too, and what it writes makes no new ones.           *)
SectionsPatched ==
    \A k \in Sections :
        elf.table[k].rodata /\ IsBehind(k) =>
            \A p \in 1 .. Len(bytes) :
                In(p, elf.table[k]) => bytes[p] \in Allowed(elf.table[k], p)
=============================================================================
