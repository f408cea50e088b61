-------------------------- MODULE ElfPatcher_proofs --------------------------
(***************************************************************************)
(* What the patcher may do to a file, for every file, every word and       *)
(* whatever lies behind the array on the stack.                            *)
(***************************************************************************)
EXTENDS ElfPatcher, Sums_proofs

---------------------------------------------------------------------------
(* strstr returns the first of the words.                                  *)
LEMMA FirstWord ==
    ASSUME NEW b \in Seq(Nat), NEW p \in Nat, Words(b, p) # {}
    PROVE  strstr(b, p) \in Words(b, p) /\ \A r \in Words(b, p) : strstr(b, p) <= r
<1>1. Words(b, p) \subseteq Nat
  BY DEF Words
<1>2. \E x \in Words(b, p) : \A y \in Words(b, p) : x <= y
  BY <1>1, SmallestNumber
<1> QED
  BY <1>2 DEF strstr

(* strstr returns a place of the word from p on, if there is one.          *)
LEMMA FoundWord ==
    ASSUME NEW b \in Seq(Nat), NEW p \in Nat, Words(b, p) # {}
    PROVE  /\ strstr(b, p) \in Nat
           /\ strstr(b, p) >= p
           /\ strstr(b, p) + Len(WORD) - 1 <= Len(b)
<1>1. strstr(b, p) \in Words(b, p)
  BY FirstWord
<1> QED
  BY <1>1 DEF Words, WordAt

(* The replacement keeps an array of bytes of the same length.             *)
LEMMA Replacement ==
    ASSUME NEW b \in Seq(Nat), NEW q \in Nat
    PROVE  strncpy(b, q) \in Seq(Nat) /\ Len(strncpy(b, q)) = Len(b)
<1>1. \A p \in 1 .. Len(b) : p \in q .. q + Len(WORD) - 1 => resString[p - q + 1] \in Nat
  BY WordAssumption
<1>2. strncpy(b, q) \in [1 .. Len(b) -> Nat]
  BY <1>1 DEF strncpy
<1> QED
  BY <1>2

(* read fills the array, with bytes.                                       *)
LEMMA ReadType ==
    ASSUME NEW s \in Nat, NEW n \in Nat, bytes \in Seq(Nat)
    PROVE  Read(s, n) \in Seq(Nat) /\ Len(Read(s, n)) = n
<1>1. JUNK \in Nat
  BY WordAssumption
<1>2. Read(s, n) \in [1 .. n -> Nat]
  BY <1>1 DEF Read
<1> QED
  BY <1>2

(* write keeps the length and every byte outside of what is written.       *)
LEMMA WriteKeeps ==
    ASSUME bytes \in Seq(Nat), NEW s \in Nat, NEW d \in Seq(Nat)
    PROVE  /\ Write(s, d) \in Seq(Nat)
           /\ Len(Write(s, d)) = Len(bytes)
           /\ \A p \in 1 .. Len(bytes) :
                 p \notin s + 1 .. s + Len(d) => Write(s, d)[p] = bytes[p]
<1>1. Write(s, d) \in [1 .. Len(bytes) -> Nat]
  BY DEF Write
<1> QED
  BY <1>1 DEF Write

---------------------------------------------------------------------------
(* The sections are looked at only when the file is an ELF file with all   *)
(* its headers and names, and only a .rodata section is searched.          *)
PatcherInv ==
    /\ PatcherTypeOK
    /\ Len(bytes) = Len(unpatched)
    /\ step = "headers" => elf.isElf /\ Complete(0, EHSIZE)
    /\ step \in {"sections", "loop"} => Accepted
    /\ step = "loop" => this.rodata
    /\ ~Accepted => bytes = unpatched
    /\ \A p \in 1 .. Len(bytes) :
          (\A s \in Chars(elf.table) : s.rodata => ~In(p, s)) =>
              bytes[p] = unpatched[p]

(* The invariant holds when the program is first run.                      *)
LEMMA PatcherInitInv == PatcherInit => PatcherInv
<1> SUFFICES ASSUME PatcherInit PROVE PatcherInv
  OBVIOUS
<1>1. PICK m \in Images : elf = m.elf /\ bytes = m.bytes
  BY DEF PatcherInit
<1>2. m \in Image
  BY ImageAssumption
<1>3. elf \in Headers /\ bytes \in Seq(Nat)
  BY <1>1, <1>2 DEF Image
<1>4. Len(elf.table) \in Nat
  BY <1>3 DEF Headers
<1>5. PatcherTypeOK
  BY <1>3, <1>4 DEF PatcherInit, PatcherTypeOK
<1> QED
  BY <1>5 DEF PatcherInit, PatcherInv

(* What the invariant says of the section the program is at.               *)
LEMMA ThisSection ==
    ASSUME PatcherTypeOK, section \in Sections
    PROVE  /\ this \in Section
           /\ this \in Chars(elf.table)
           /\ this.offset \in Nat /\ this.size \in Nat
<1>1. elf.table \in Seq(Section)
  BY DEF PatcherTypeOK, Headers
<1>2. section \in 1 .. Len(elf.table)
  BY DEF Sections
<1>3. this \in Section
  BY <1>1, <1>2 DEF this
<1>4. this \in Chars(elf.table)
  BY <1>2 DEF Chars, this
<1>5. this.offset \in Nat /\ this.size \in Nat
  BY <1>3 DEF Section
<1> QED
  BY <1>3, <1>4, <1>5

(* What is read, with what lies behind it, is longer than the section.     *)
LEMMA ReadSectionInv == PatcherInv /\ ReadSection => PatcherInv'
<1> SUFFICES ASSUME PatcherInv, ReadSection PROVE PatcherInv'
  OBVIOUS
<1>1. PatcherTypeOK
  BY DEF PatcherInv
<1>2. this.offset \in Nat /\ this.size \in Nat
  BY <1>1, ThisSection DEF ReadSection
<1>3. PICK s \in Behind : buff' = Read(this.offset, this.size) \o s
  BY DEF ReadSection
<1>4. s \in Seq(Nat) /\ Len(s) > 0
  BY BehindAssumption
<1>5. /\ Read(this.offset, this.size) \in Seq(Nat)
      /\ Len(Read(this.offset, this.size)) = this.size
  BY <1>1, <1>2, ReadType DEF PatcherTypeOK
<1>6. buff' \in Seq(Nat) /\ this.size < Len(buff')
  BY <1>2, <1>3, <1>4, <1>5, ConcatProperties
<1>7. this' = this
  BY DEF ReadSection, this
<1>8. PatcherTypeOK'
  BY <1>1, <1>2, <1>6, <1>7 DEF ReadSection, PatcherTypeOK, Sections
<1> QED
  BY <1>7, <1>8 DEF PatcherInv, ReadSection, Accepted, Complete

(* A pass changes the array only.                                          *)
LEMMA LoopInv == PatcherInv /\ Loop => PatcherInv'
<1> SUFFICES ASSUME PatcherInv, Loop PROVE PatcherInv'
  OBVIOUS
<1>1. PatcherTypeOK /\ section \in Sections /\ pass \in Nat /\ buff \in Seq(Nat)
  BY DEF PatcherInv, PatcherTypeOK, Loop
<1>2. this.size \in Nat
  BY <1>1, ThisSection
<1>3. buff' \in Seq(Nat) /\ Len(buff') = Len(buff)
  <2>1. CASE Words(buff, pass + 1) # {}
    <3>1. strstr(buff, pass + 1) \in Nat
      BY <1>1, <2>1, FoundWord
    <3> QED
      BY <1>1, <2>1, <3>1, Replacement DEF Loop, ReplaceFirst
  <2>2. CASE Words(buff, pass + 1) = {}
    BY <1>1, <2>2 DEF Loop, ReplaceFirst
  <2> QED
    BY <2>1, <2>2
<1>4. this' = this
  BY DEF Loop, this
<1>5. PatcherTypeOK'
  BY <1>1, <1>2, <1>3, <1>4 DEF Loop, PatcherTypeOK, Sections
<1> QED
  BY <1>4, <1>5 DEF PatcherInv, Loop, Accepted, Complete

(* Writing the array back changes the section only, which is a .rodata one.*)
LEMMA WriteSectionInv == PatcherInv /\ WriteSection => PatcherInv'
<1> SUFFICES ASSUME PatcherInv, WriteSection PROVE PatcherInv'
  OBVIOUS
<1> DEFINE d == SubSeq(buff, 1, this.size)
<1>1. PatcherTypeOK /\ section \in Sections /\ this.size < Len(buff)
  BY DEF PatcherInv, PatcherTypeOK, WriteSection
<1>2. this.offset \in Nat /\ this.size \in Nat /\ this \in Chars(elf.table)
  BY <1>1, ThisSection
<1>3. bytes \in Seq(Nat) /\ buff \in Seq(Nat)
  BY <1>1 DEF PatcherTypeOK
<1>4. d \in Seq(Nat) /\ Len(d) = this.size
  BY <1>1, <1>2, <1>3
<1>5. /\ bytes' \in Seq(Nat)
      /\ Len(bytes') = Len(bytes)
      /\ \A p \in 1 .. Len(bytes) :
            p \notin this.offset + 1 .. this.offset + this.size => bytes'[p] = bytes[p]
  BY <1>2, <1>3, <1>4, WriteKeeps DEF WriteSection
<1>6. this.rodata /\ Accepted
  BY DEF PatcherInv, WriteSection
<1>7. PatcherTypeOK'
  <2>1. section + 1 \in 1 .. Len(elf.table) + 1
    BY <1>1 DEF Sections, PatcherTypeOK, Headers
  <2> QED
    BY <1>1, <1>5, <2>1 DEF WriteSection, PatcherTypeOK
<1>8. Accepted'
  BY <1>5, <1>6 DEF Accepted, Complete, WriteSection
<1>9. \A p \in 1 .. Len(bytes) : ~In(p, this) => bytes'[p] = bytes[p]
  BY <1>5 DEF In
<1>10. \A p \in 1 .. Len(bytes') :
          (\A s \in Chars(elf'.table) : s.rodata => ~In(p, s)) =>
              bytes'[p] = unpatched'[p]
  BY <1>2, <1>5, <1>6, <1>9 DEF PatcherInv, WriteSection
<1> QED
  BY <1>5, <1>7, <1>8, <1>10 DEF PatcherInv, WriteSection

(* The other steps change neither the file nor the array.                  *)
LEMMA OtherStepInv ==
    ASSUME PatcherInv,
           \/ read_elf_header \/ print_section_headers \/ OtherSection
           \/ LastSection \/ RunAgain
    PROVE  PatcherInv'
<1>1. UNCHANGED <<bytes, elf, unpatched, buff, pass>> /\ step' # "loop"
  BY DEF read_elf_header, print_section_headers, OtherSection, LastSection, RunAgain
<1>2. Len(elf.table) \in Nat
  BY DEF PatcherInv, PatcherTypeOK, Headers
<1>3. section' \in 1 .. Len(elf.table) + 1
  BY <1>2 DEF PatcherInv, PatcherTypeOK, Sections, read_elf_header,
       print_section_headers, OtherSection, LastSection, RunAgain
<1>4. step' \in {"main", "headers", "sections", "done", "aborted"}
  BY DEF PatcherInv, PatcherTypeOK, read_elf_header, print_section_headers,
       OtherSection, LastSection, RunAgain
<1>5. PatcherTypeOK'
  BY <1>1, <1>3, <1>4 DEF PatcherInv, PatcherTypeOK
<1>6. /\ step' = "headers" => elf.isElf /\ Complete(0, EHSIZE)
      /\ step' = "sections" => Accepted
  BY DEF PatcherInv, Accepted, read_elf_header, print_section_headers, OtherSection,
       LastSection, RunAgain
<1>7. Accepted' = Accepted /\ Complete(0, EHSIZE)' = Complete(0, EHSIZE)
  BY <1>1 DEF Accepted, Complete
<1> QED
  BY <1>1, <1>4, <1>5, <1>6, <1>7 DEF PatcherInv

(* No step of the program breaks the invariant, on whatever file.          *)
THEOREM PatcherInvariance == PatcherSpec => []PatcherInv
<1>1. PatcherInv /\ [PatcherNext]_patcher => PatcherInv'
  <2> SUFFICES ASSUME PatcherInv, [PatcherNext]_patcher PROVE PatcherInv'
    OBVIOUS
  <2>1. CASE UNCHANGED patcher
    BY <2>1 DEF patcher, PatcherInv, PatcherTypeOK, Accepted, Complete, this, Sections
  <2>2. CASE PatcherNext
    BY <2>2, ReadSectionInv, LoopInv, WriteSectionInv, OtherStepInv DEF PatcherNext
  <2> QED
    BY <2>1, <2>2
<1> QED
  BY <1>1, PatcherInitInv, PTL DEF PatcherSpec

(* The program keeps within its arrays' types: the section and the pass it *)
(* is at are within their bounds, whatever the file.                       *)
THEOREM PatcherTypeCorrect == PatcherSpec => []PatcherTypeOK
<1>1. PatcherInv => PatcherTypeOK
  BY DEF PatcherInv
<1> QED
  BY <1>1, PatcherInvariance, PTL

(* Whatever lies behind the array, and however often the program is run,   *)
(* the file keeps its length and every byte outside its .rodata sections.  *)
THEOREM OnlyRodata == PatcherSpec => []OnlyRodataChanges
<1>1. PatcherInv => OnlyRodataChanges
  BY DEF PatcherInv, OnlyRodataChanges
<1> QED
  BY <1>1, PatcherInvariance, PTL

(* A file that is no ELF file, or ends before its headers or the table of  *)
(* names do, is left as it is.                                             *)
THEOREM Rejected == PatcherSpec => []RejectedUntouched
<1>1. PatcherInv => RejectedUntouched
  BY DEF PatcherInv, Accepted, RejectedUntouched
<1> QED
  BY <1>1, PatcherInvariance, PTL

---------------------------------------------------------------------------
(* A section of the places o + 1 .. e, as it was (u) and as it is (c).     *)

(* The first m bytes of w are at place q.                                  *)
At(c, q, w, m) == \A j \in 1 .. m : c[q + j - 1] = w[j]

(* The places of the words in the section.                                 *)
Whole(o, e, u) == {q \in o + 1 .. e - Len(WORD) + 1 : At(u, q, WORD, Len(WORD))}

(* The section ends with a beginning of the word, at place q.              *)
Rest(o, e, u, q) ==
    q \in o + 1 .. e /\ q > e - Len(WORD) + 1 /\ At(u, q, WORD, e - q + 1)

Inside(o, e, u, p) == \E q \in Whole(o, e, u) : p \in q .. q + Len(WORD) - 1

(* Outside of words nothing is changed before place t, from which on what  *)
(* lay behind the array once completed the word.                           *)
CutAt(o, e, u, c, t) ==
    /\ t <= e => Rest(o, e, u, t) /\ c[t] = resString[1]
    /\ \A p \in o + 1 .. e : p < t /\ ~Inside(o, e, u, p) => c[p] = u[p]
    /\ \A p \in t .. e : c[p] = u[p] \/ c[p] \in Chars(resString)

(* Some of the words are replaced.                                         *)
Partial(o, e, u, c) ==
    /\ \A q \in Whole(o, e, u) :
          At(c, q, WORD, Len(WORD)) \/ At(c, q, resString, Len(WORD))
    /\ \E t \in o + 1 .. e + 1 : CutAt(o, e, u, c, t)

(* Two parts of arrays are equal if all their bytes are.                   *)
LEMMA EqualParts ==
    ASSUME NEW b \in Seq(Nat), NEW c \in Seq(Nat), NEW k \in Nat,
           NEW x \in Nat, x >= 1, x + k - 1 <= Len(b),
           NEW y \in Nat, y >= 1, y + k - 1 <= Len(c)
    PROVE  SubSeq(b, x, x + k - 1) = SubSeq(c, y, y + k - 1)
             <=> \A j \in 1 .. k : b[x + j - 1] = c[y + j - 1]
<1> DEFINE s == SubSeq(b, x, x + k - 1)
           r == SubSeq(c, y, y + k - 1)
<1>1. ASSUME NEW a \in Seq(Nat), NEW z \in Nat, z >= 1, z + k - 1 <= Len(a)
      PROVE  /\ SubSeq(a, z, z + k - 1) \in Seq(Nat) /\ Len(SubSeq(a, z, z + k - 1)) = k
             /\ \A j \in 1 .. k : SubSeq(a, z, z + k - 1)[j] = a[z + j - 1]
  <2> DEFINE w == z + k - 1
  <2>1. \A i \in z .. w : a[i] \in Nat
    BY <1>1
  <2>2. w \in Int /\ w - z + 1 = k /\ (k = 0 <=> ~(z <= w))
    OBVIOUS
  <2> HIDE DEF w
  <2>3. /\ SubSeq(a, z, w) \in Seq(Nat)
        /\ Len(SubSeq(a, z, w)) = IF z <= w THEN w - z + 1 ELSE 0
        /\ \A i \in 1 .. w - z + 1 : SubSeq(a, z, w)[i] = a[z + i - 1]
    <3>1. z \in Int /\ w \in Int
      BY <2>2
    <3> QED
      BY ONLY <2>1, <3>1, SubSeqProperties, SMT
  <2>4. /\ SubSeq(a, z, w) \in Seq(Nat) /\ Len(SubSeq(a, z, w)) = k
        /\ \A i \in 1 .. k : SubSeq(a, z, w)[i] = a[z + i - 1]
    BY <2>2, <2>3
  <2> QED
    BY <2>4 DEF w
<1>2. /\ s \in Seq(Nat) /\ Len(s) = k /\ \A j \in 1 .. k : s[j] = b[x + j - 1]
      /\ r \in Seq(Nat) /\ Len(r) = k /\ \A j \in 1 .. k : r[j] = c[y + j - 1]
  BY <1>1
<1> HIDE DEF s, r
<1>3. (\A j \in 1 .. k : b[x + j - 1] = c[y + j - 1]) => s = r
  BY <1>2, SeqEqual
<1>4. s = r => \A j \in 1 .. k : b[x + j - 1] = c[y + j - 1]
  BY <1>2
<1> QED
  BY <1>3, <1>4 DEF s, r

(* What the proofs use of WordAssumption.                                  *)
LEMMA WordFacts ==
    /\ Len(WORD) \in Nat /\ Len(WORD) >= 1 /\ Len(resString) = Len(WORD)
    /\ WORD \in Seq(Nat) /\ resString \in Seq(Nat)
    /\ \A j \in 1 .. Len(WORD) : WORD[j] # resString[1] /\ WORD[j] # resString[Len(WORD)]
                                 /\ WORD[j] # NUL
    /\ \A j \in 1 .. Len(WORD) : resString[j] \in Chars(resString)
<1>1. /\ Len(WORD) \in Nat /\ Len(WORD) >= 1 /\ Len(resString) = Len(WORD)
      /\ WORD \in Seq(Nat) /\ resString \in Seq(Nat)
  BY WordAssumption
<1>2. \A j \in 1 .. Len(WORD) : WORD[j] \in Chars(WORD)
  BY DEF Chars
<1>3. \A j \in 1 .. Len(WORD) : resString[j] \in Chars(resString)
  BY <1>1 DEF Chars
<1>4. /\ resString[1] \notin Chars(WORD) /\ resString[Len(WORD)] \notin Chars(WORD)
      /\ NUL \notin Chars(WORD)
  BY WordAssumption
<1> QED
  BY <1>1, <1>2, <1>3, <1>4

(* Words do not overlap, nor does one overlap the rest at the end.         *)
LEMMA NoOverlap ==
    ASSUME NEW c, NEW q \in Int, NEW r \in Int, NEW m \in Int,
           At(c, q, WORD, Len(WORD)), At(c, r, WORD, m),
           q < r, r <= q + Len(WORD) - 1, q + Len(WORD) <= r + m
    PROVE  FALSE
<1> DEFINE n == Len(WORD)
           l == q + n - r
<1>1. n \in Nat /\ l \in 1 .. n - 1 /\ l <= m
  BY WordFacts
<1>2. ASSUME NEW j \in 1 .. l PROVE WORD[n - l + j] = WORD[j]
  <2>1. n - l + j \in 1 .. n /\ j \in 1 .. m
    BY <1>1
  <2>2. c[q + (n - l + j) - 1] = WORD[n - l + j]
    BY <2>1 DEF At
  <2>3. c[r + j - 1] = WORD[j]
    BY <2>1 DEF At
  <2>4. q + (n - l + j) - 1 = r + j - 1
    BY <1>1
  <2> QED
    BY <2>2, <2>3, <2>4
<1>3. WORD \in Seq(Nat)
  BY WordFacts
<1> HIDE DEF l
<1>4. SubSeq(WORD, n - l + 1, n) = SubSeq(WORD, 1, l)
  <2> DEFINE x == n - l + 1
  <2>1. x \in Nat /\ x >= 1 /\ x + l - 1 = n /\ l \in Nat /\ 1 + l - 1 = l /\ l <= n
    BY <1>1
  <2>2. \A j \in 1 .. l : WORD[x + j - 1] = WORD[1 + j - 1]
    <3> SUFFICES ASSUME NEW j \in 1 .. l PROVE WORD[x + j - 1] = WORD[1 + j - 1]
      OBVIOUS
    <3>1. x + j - 1 = n - l + j /\ 1 + j - 1 = j
      BY <1>1
    <3> QED
      BY <1>2, <3>1
  <2> HIDE DEF x
  <2>3. SubSeq(WORD, x, x + l - 1) = SubSeq(WORD, 1, 1 + l - 1)
    BY <1>3, <2>1, <2>2, EqualParts
  <2> QED
    BY <2>1, <2>3 DEF x
<1>5. l \in 1 .. Len(WORD) - 1
  BY <1>1
<1> QED
  BY <1>4, <1>5, WordAssumption

(* A section that was not changed.                                         *)
LEMMA PartialStart ==
    ASSUME NEW o \in Nat, NEW e \in Nat, o <= e, NEW u
    PROVE  Partial(o, e, u, u)
<1>1. CutAt(o, e, u, u, e + 1)
  BY DEF CutAt
<1> QED
  BY <1>1 DEF Partial, Whole

(* Only the bytes in the section matter.                                   *)
LEMMA PartialSame ==
    ASSUME NEW o \in Nat, NEW e \in Nat, NEW u, NEW c, NEW d,
           Partial(o, e, u, c), \A p \in o + 1 .. e : d[p] = c[p]
    PROVE  Partial(o, e, u, d)
<1> DEFINE n == Len(WORD)
<1>1. n \in Nat
  BY WordFacts
<1>2. ASSUME NEW q \in Whole(o, e, u)
      PROVE  At(d, q, WORD, n) \/ At(d, q, resString, n)
  <2>1. q \in o + 1 .. e - n + 1
    BY DEF Whole
  <2>2. \A j \in 1 .. n : q + j - 1 \in o + 1 .. e
    BY <1>1, <2>1
  <2>3. \A j \in 1 .. n : d[q + j - 1] = c[q + j - 1]
    BY <2>2
  <2> QED
    BY <2>3 DEF Partial, At
<1>3. PICK t \in o + 1 .. e + 1 : CutAt(o, e, u, c, t)
  BY DEF Partial
<1>4. CutAt(o, e, u, d, t)
  <2>1. t <= e => d[t] = c[t]
    OBVIOUS
  <2>2. \A p \in t .. e : d[p] = c[p]
    OBVIOUS
  <2> QED
    BY <1>3, <2>1, <2>2 DEF CutAt
<1> QED
  BY <1>2, <1>3, <1>4 DEF Partial

---------------------------------------------------------------------------
(* What is found at place q of the section, the whole word or, at its end, *)
(* a beginning of it, is replaced.                                         *)
Found(e, c, q) == \A j \in 1 .. Len(WORD) : q + j - 1 <= e => c[q + j - 1] = WORD[j]
Replaced(o, e, c, d, q) ==
    \A p \in o + 1 .. e :
        d[p] = IF p \in q .. q + Len(WORD) - 1 THEN resString[p - q + 1] ELSE c[p]

(* A word that was replaced does not overlap what is found ..              *)
LEMMA ReplacedApart ==
    ASSUME NEW o \in Nat, NEW e \in Nat, NEW c, NEW q \in o + 1 .. e, Found(e, c, q),
           NEW r \in o + 1 .. e - Len(WORD) + 1, At(c, r, resString, Len(WORD)),
           NEW p \in r .. r + Len(WORD) - 1, p \in q .. q + Len(WORD) - 1
    PROVE  FALSE
<1> DEFINE n == Len(WORD)
<1>1. n \in Nat /\ n >= 1
      /\ \A j \in 1 .. n : WORD[j] # resString[1] /\ WORD[j] # resString[n]
  BY WordFacts
<1>2. CASE q <= r
  <2>1. r - q + 1 \in 1 .. n /\ q + (r - q + 1) - 1 = r /\ r <= e
    BY <1>1, <1>2
  <2>2. c[r] = WORD[r - q + 1]
    BY <2>1 DEF Found
  <2>3. 1 \in 1 .. n /\ r + 1 - 1 = r
    BY <1>1
  <2>4. c[r] = resString[1]
    BY <2>3 DEF At
  <2> QED
    BY <1>1, <2>1, <2>2, <2>4
<1>3. CASE r < q
  <2> DEFINE k == r + n - 1
  <2>1. k - q + 1 \in 1 .. n /\ q + (k - q + 1) - 1 = k /\ k <= e
    BY <1>1, <1>3
  <2>2. c[k] = WORD[k - q + 1]
    BY <2>1 DEF Found
  <2>3. n \in 1 .. n /\ r + n - 1 = k
    BY <1>1
  <2>4. c[k] = resString[n]
    BY <2>3 DEF At
  <2> QED
    BY <1>1, <2>1, <2>2, <2>4
<1> QED
  BY <1>2, <1>3

(* .. and neither does another word.                                       *)
LEMMA WordApart ==
    ASSUME NEW o \in Nat, NEW e \in Nat, NEW c, NEW q \in o + 1 .. e, Found(e, c, q),
           NEW r \in o + 1 .. e - Len(WORD) + 1, At(c, r, WORD, Len(WORD)), r # q,
           NEW p \in r .. r + Len(WORD) - 1, p \in q .. q + Len(WORD) - 1
    PROVE  FALSE
<1> DEFINE n == Len(WORD)
           m == IF q + n - 1 <= e THEN n ELSE e - q + 1
<1>1. n \in Nat /\ n >= 1
  BY WordFacts
<1>2. m \in Int /\ m <= n /\ q + m - 1 <= e /\ (m = n \/ q + m - 1 = e)
  BY <1>1
<1> HIDE DEF m
<1>3. At(c, q, WORD, m)
  <2>1. \A j \in 1 .. m : j \in 1 .. n /\ q + j - 1 <= e
    BY <1>1, <1>2
  <2> QED
    BY <2>1 DEF Found, At
<1>4. CASE r < q
  <2>1. q <= r + n - 1 /\ r + n <= q + m
    BY <1>1, <1>2, <1>4
  <2> QED
    BY <1>2, <1>3, <1>4, <2>1, NoOverlap
<1>5. CASE q < r
  <2>1. r <= q + n - 1 /\ q + n <= r + n /\ m = n
    BY <1>1, <1>2, <1>5
  <2>2. At(c, q, WORD, n)
    BY <1>3, <2>1
  <2> QED
    BY <1>1, <1>5, <2>1, <2>2, NoOverlap
<1> QED
  BY <1>4, <1>5

(* To replace a word in a section, or one that goes on behind it, is as    *)
(* good as before: some of its words are replaced, and the rest at its end.*)
LEMMA ReplaceStep ==
    ASSUME NEW o \in Nat, NEW e \in Nat, NEW u, NEW c, NEW d, NEW q \in o + 1 .. e,
           Partial(o, e, u, c), Found(e, c, q), Replaced(o, e, c, d, q)
    PROVE  Partial(o, e, u, d)
<1> DEFINE n == Len(WORD)
           Block == q .. q + n - 1
           W == Whole(o, e, u)
<1>1. /\ n \in Nat /\ n >= 1
      /\ \A j \in 1 .. n : /\ WORD[j] # resString[1]
                           /\ resString[j] \in Chars(resString)
  BY WordFacts
<1>2. \A r \in W : r \in o + 1 .. e - n + 1 /\ At(u, r, WORD, n)
  BY DEF Whole
<1>3. \A r \in W : At(c, r, WORD, n) \/ At(c, r, resString, n)
  BY DEF Partial
<1>4. PICK t \in o + 1 .. e + 1 : CutAt(o, e, u, c, t)
  BY DEF Partial
<1>5. \A p \in o + 1 .. e : d[p] = IF p \in Block THEN resString[p - q + 1] ELSE c[p]
  BY DEF Replaced
<1>6. ASSUME NEW r \in W, NEW p \in r .. r + n - 1, p \in Block
      PROVE  r = q
  BY <1>2, <1>3, <1>6, ReplacedApart, WordApart
<1>7. ASSUME NEW p \in Block, p <= e
      PROVE  c[p] = WORD[p - q + 1] /\ c[p] # resString[1] /\ p \in o + 1 .. e
             /\ d[p] \in Chars(resString)
  <2>1. p - q + 1 \in 1 .. n /\ q + (p - q + 1) - 1 = p /\ p \in o + 1 .. e
    BY <1>1, <1>7
  <2>2. c[p] = WORD[p - q + 1]
    BY <1>7, <2>1 DEF Found
  <2> QED
    BY <1>1, <1>5, <2>1, <2>2
<1>8. t <= e => t \notin Block
  BY <1>4, <1>7 DEF CutAt
<1>9. ASSUME NEW r \in W
      PROVE  At(d, r, WORD, n) \/ At(d, r, resString, n)
  <2>1. r \in o + 1 .. e - n + 1
    BY <1>2
  <2>2. CASE r = q
    <3>1. ASSUME NEW j \in 1 .. n PROVE d[r + j - 1] = resString[j]
      <4>1. r + j - 1 \in Block /\ r + j - 1 \in o + 1 .. e /\ (r + j - 1) - q + 1 = j
        BY <1>1, <2>1, <2>2
      <4> QED
        BY <1>5, <4>1
    <3> QED
      BY <3>1 DEF At
  <2>3. CASE r # q
    <3>1. ASSUME NEW j \in 1 .. n PROVE d[r + j - 1] = c[r + j - 1]
      <4>1. r + j - 1 \in r .. r + n - 1 /\ r + j - 1 \in o + 1 .. e
        BY <1>1, <2>1
      <4>2. r + j - 1 \notin Block
        BY <1>6, <2>3, <4>1
      <4> HIDE DEF Block
      <4> QED
        BY <1>5, <4>1, <4>2
    <3> QED
      BY <1>3, <3>1 DEF At
  <2> QED
    BY <2>2, <2>3
<1>10. CASE q + n - 1 <= e
  <2>1. q \in W
    <3> SUFFICES ASSUME q \notin W PROVE FALSE
      OBVIOUS
    <3>1. ASSUME NEW j \in 1 .. n PROVE u[q + j - 1] = WORD[j]
      <4> DEFINE p == q + j - 1
      <4>1. p \in Block /\ p \in o + 1 .. e /\ p - q + 1 = j
        BY <1>1, <1>10
      <4>2. ~Inside(o, e, u, p)
        BY <1>6, <4>1 DEF Inside
      <4>3. p < t
        <5> SUFFICES ASSUME t <= p PROVE FALSE
          BY <4>1
        <5>1. t <= e /\ t > e - n + 1
          BY <1>1, <1>4, <4>1 DEF CutAt, Rest
        <5>2. t < q
          BY <1>1, <1>8, <4>1, <5>1
        <5> QED
          BY <1>1, <1>10, <5>1, <5>2
      <4>4. c[p] = u[p]
        BY <1>4, <4>1, <4>2, <4>3 DEF CutAt
      <4> QED
        BY <1>7, <4>1, <4>4
    <3>2. q \in o + 1 .. e - n + 1
      BY <1>1, <1>10
    <3> QED
      BY <3>1, <3>2 DEF Whole, At
  <2>2. \A p \in o + 1 .. e : ~Inside(o, e, u, p) => p \notin Block
    BY <2>1 DEF Inside
  <2>3. CutAt(o, e, u, d, t)
    <3>1. ASSUME t <= e PROVE Rest(o, e, u, t) /\ d[t] = resString[1]
      <4>1. t \in o + 1 .. e /\ Rest(o, e, u, t) /\ c[t] = resString[1]
        BY <1>4, <3>1 DEF CutAt
      <4> QED
        BY <1>5, <1>8, <4>1
    <3>2. ASSUME NEW p \in o + 1 .. e, p < t, ~Inside(o, e, u, p) PROVE d[p] = u[p]
      <4> HIDE DEF Block
      <4>1. d[p] = c[p]
        BY <1>5, <2>2, <3>2
      <4> QED
        BY <1>4, <3>2, <4>1 DEF CutAt
    <3>3. ASSUME NEW p \in t .. e PROVE d[p] = u[p] \/ d[p] \in Chars(resString)
      <4>1. p \in o + 1 .. e
        OBVIOUS
      <4>2. CASE p \in Block
        BY <1>7, <4>1, <4>2
      <4>3. CASE p \notin Block
        <5> HIDE DEF Block
        <5>1. d[p] = c[p]
          BY <1>5, <4>1, <4>3
        <5> QED
          BY <1>4, <5>1 DEF CutAt
      <4> QED
        BY <4>2, <4>3
    <3> QED
      BY <3>1, <3>2, <3>3 DEF CutAt
  <2> QED
    BY <1>9, <2>3 DEF Partial
<1>11. CASE e < q + n - 1
  <2> DEFINE x == IF t <= e THEN t ELSE q
  <2>1. x \in o + 1 .. e /\ x <= q
    <3>1. t <= e => t < q
      BY <1>1, <1>8, <1>11
    <3> QED
      BY <3>1
  <2>2. \A p \in Block : p <= e => ~Inside(o, e, u, p)
    <3> SUFFICES ASSUME NEW p \in Block, p <= e, Inside(o, e, u, p) PROVE FALSE
      OBVIOUS
    <3>1. q \in W
      BY <1>6 DEF Inside
    <3> QED
      BY <1>1, <1>2, <1>11, <3>1
  <2>3. Rest(o, e, u, x) /\ d[x] = resString[1]
    <3>1. CASE t <= e
      <4>1. Rest(o, e, u, t) /\ c[t] = resString[1]
        BY <1>4, <3>1 DEF CutAt
      <4> QED
        BY <1>5, <1>8, <2>1, <3>1, <4>1
    <3>2. CASE ~(t <= e)
      <4>1. ASSUME NEW j \in 1 .. e - q + 1 PROVE u[q + j - 1] = WORD[j]
        <5> DEFINE p == q + j - 1
        <5>1. p \in Block /\ p <= e /\ p < t /\ p \in o + 1 .. e /\ p - q + 1 = j
          BY <1>1, <1>11, <3>2
        <5>2. c[p] = u[p]
          BY <1>4, <2>2, <5>1 DEF CutAt
        <5> QED
          BY <1>7, <5>1, <5>2
      <4>2. At(u, q, WORD, e - q + 1)
        BY <4>1 DEF At
      <4>3. q \in Block /\ q - q + 1 = 1
        BY <1>1
      <4>4. d[q] = resString[1]
        BY <1>5, <4>3
      <4> QED
        BY <1>1, <1>11, <3>2, <4>2, <4>4 DEF Rest
    <3> QED
      BY <3>1, <3>2
  <2>4. ASSUME NEW p \in o + 1 .. e, p < x, ~Inside(o, e, u, p) PROVE d[p] = u[p]
    <3>1. p \notin Block /\ p < t
      BY <2>1, <2>4
    <3>2. d[p] = c[p]
      <4> HIDE DEF Block
      <4> QED
        BY <1>5, <3>1
    <3> QED
      BY <1>4, <2>4, <3>1, <3>2 DEF CutAt
  <2>5. ASSUME NEW p \in x .. e PROVE d[p] = u[p] \/ d[p] \in Chars(resString)
    <3>1. p \in o + 1 .. e /\ p <= e
      BY <2>1
    <3>2. CASE p \in Block
      BY <1>7, <3>1, <3>2
    <3>3. CASE p \notin Block
      <4>1. d[p] = c[p]
        <5> HIDE DEF Block
        <5> QED
          BY <1>5, <3>1, <3>3
      <4>2. t <= p
        BY <1>11, <2>1, <3>1, <3>3
      <4>3. p \in t .. e
        BY <3>1, <4>2
      <4> QED
        BY <1>4, <4>1, <4>3 DEF CutAt
    <3> QED
      BY <3>2, <3>3
  <2> HIDE DEF x
  <2>6. CutAt(o, e, u, d, x)
    BY <2>3, <2>4, <2>5 DEF CutAt
  <2>7. x \in o + 1 .. e + 1
    BY <2>1
  <2> QED
    BY <1>9, <2>6, <2>7 DEF Partial
<1> QED
  BY <1>1, <1>10, <1>11

---------------------------------------------------------------------------
(* The words of an array, byte by byte.                                    *)
LEMMA WordAtFacts ==
    ASSUME NEW b \in Seq(Nat), NEW q \in Nat, q >= 1
    PROVE  WordAt(b, q) <=> q + Len(WORD) - 1 <= Len(b) /\ At(b, q, WORD, Len(WORD))
<1> DEFINE n == Len(WORD)
<1>1. n \in Nat /\ n >= 1 /\ WORD \in Seq(Nat) /\ Len(b) \in Nat
  BY WordFacts
<1>2. CASE q + n - 1 <= Len(b)
  <2>1. SubSeq(b, q, q + n - 1) = SubSeq(WORD, 1, 1 + n - 1)
          <=> \A j \in 1 .. n : b[q + j - 1] = WORD[1 + j - 1]
    <3>1. n \in Nat /\ 1 \in Nat /\ 1 >= 1 /\ 1 + n - 1 <= Len(WORD)
      BY <1>1
    <3> QED
      BY <1>1, <1>2, <3>1, EqualParts
  <2>2. SubSeq(WORD, 1, 1 + n - 1) = WORD
    <3>1. 1 + n - 1 = n /\ SubSeq(WORD, 1, Len(WORD)) = WORD
      BY <1>1
    <3> QED
      BY <3>1
  <2>3. \A j \in 1 .. n : 1 + j - 1 = j
    OBVIOUS
  <2>4. (\A j \in 1 .. n : b[q + j - 1] = WORD[1 + j - 1])
          <=> \A j \in 1 .. n : b[q + j - 1] = WORD[j]
    BY <2>3
  <2> QED
    BY <1>2, <2>1, <2>2, <2>4 DEF WordAt, At
<1>3. CASE ~(q + n - 1 <= Len(b))
  BY <1>3 DEF WordAt
<1> QED
  BY <1>2, <1>3

(* The beginning of the word at the end of a section.                      *)
LEMMA RestFacts ==
    ASSUME NEW b \in Seq(Nat), NEW e \in Nat, e <= Len(b), NEW q \in Nat, q >= 1,
           q <= e, q > e - Len(WORD) + 1, At(b, q, WORD, e - q + 1)
    PROVE  SubSeq(b, q, e) = SubSeq(WORD, 1, e - q + 1)
<1> DEFINE k == e - q + 1
<1>1. k \in Nat /\ q + k - 1 = e /\ 1 + k - 1 = k /\ k <= Len(WORD)
      /\ WORD \in Seq(Nat) /\ 1 \in Nat /\ 1 >= 1
  BY WordFacts
<1>2. \A j \in 1 .. k : b[q + j - 1] = WORD[1 + j - 1]
  <2>1. \A j \in 1 .. k : 1 + j - 1 = j
    OBVIOUS
  <2> QED
    BY <2>1 DEF At
<1> HIDE DEF k
<1>3. SubSeq(b, q, q + k - 1) = SubSeq(WORD, 1, 1 + k - 1)
  BY <1>1, <1>2, EqualParts
<1> QED
  BY <1>1, <1>3 DEF k

(* A pass of the loop leaves no word at the places it has come past, and   *)
(* the replacement makes no new one.                                       *)
NoneBefore(b, n) == \A q \in 1 .. n : ~WordAt(b, q)

(* A pass of the loop leaves no word at the place it has come to.          *)
LEMMA PassFindsWord ==
    ASSUME NEW b \in Seq(Nat), NEW k \in Nat, NoneBefore(b, k),
           NEW d, d = IF Words(b, k + 1) # {} THEN strncpy(b, strstr(b, k + 1)) ELSE b
    PROVE  NoneBefore(d, k + 1)
<1> DEFINE n == Len(WORD)
           f == strstr(b, k + 1)
<1>1. /\ n \in Nat /\ n >= 1
      /\ \A j \in 1 .. n : WORD[j] # resString[1] /\ WORD[j] # resString[n] /\ WORD[j] # NUL
  BY WordFacts
<1>2. ASSUME NEW q \in 1 .. k + 1, WordAt(b, q)
      PROVE  q = k + 1 /\ q \in Words(b, k + 1)
  <2>1. q = k + 1
    BY <1>2 DEF NoneBefore
  <2>2. At(b, q, WORD, n) /\ q + n - 1 <= Len(b)
    BY <1>2, WordAtFacts
  <2>3. b[q] # NUL
    <3>1. 1 \in 1 .. n /\ q + 1 - 1 = q
      BY <1>1
    <3>2. b[q] = WORD[1]
      BY <2>2, <3>1 DEF At
    <3> QED
      BY <1>1, <3>1, <3>2
  <2>4. q \in k + 1 .. Len(b) /\ \A r \in k + 1 .. q : b[r] # NUL
    BY <1>1, <2>1, <2>2, <2>3
  <2> QED
    BY <1>2, <2>1, <2>4 DEF Words
<1> SUFFICES ASSUME NEW q \in 1 .. k + 1, WordAt(d, q) PROVE FALSE
  BY DEF NoneBefore
<1>3. CASE Words(b, k + 1) = {}
  <2>1. d = b
    BY <1>3
  <2> QED
    BY <1>2, <1>3, <2>1
<1>4. CASE Words(b, k + 1) # {}
  <2>1. f \in Words(b, k + 1) /\ \A r \in Words(b, k + 1) : f <= r
    BY <1>4, FirstWord
  <2>2. f \in Nat /\ f >= k + 1 /\ f + n - 1 <= Len(b)
    BY <2>1 DEF Words, WordAt
  <2> HIDE DEF f
  <2>3. d = strncpy(b, f)
    BY <1>4 DEF f
  <2>4. d \in Seq(Nat) /\ Len(d) = Len(b)
    BY <2>2, <2>3, Replacement
  <2>5. \A p \in 1 .. Len(b) :
           d[p] = IF p \in f .. f + n - 1 THEN resString[p - f + 1] ELSE b[p]
    BY <2>3 DEF strncpy
  <2>6. At(d, q, WORD, n) /\ q + n - 1 <= Len(b)
    BY <2>4, WordAtFacts
  <2>7. f \notin q .. q + n - 1
    <3> SUFFICES ASSUME f \in q .. q + n - 1 PROVE FALSE
      OBVIOUS
    <3>1. f - q + 1 \in 1 .. n /\ q + (f - q + 1) - 1 = f /\ f \in 1 .. Len(b)
          /\ f \in f .. f + n - 1 /\ f - f + 1 = 1
      BY <1>1, <2>2
    <3>2. d[f] = WORD[f - q + 1]
      BY <2>6, <3>1 DEF At
    <3>3. d[f] = resString[1]
      BY <2>5, <3>1
    <3> QED
      BY <1>1, <3>1, <3>2, <3>3
  <2>8. f + n - 1 \notin q .. q + n - 1
    <3> DEFINE x == f + n - 1
    <3> SUFFICES ASSUME x \in q .. q + n - 1 PROVE FALSE
      OBVIOUS
    <3>1. x - q + 1 \in 1 .. n /\ q + (x - q + 1) - 1 = x /\ x \in 1 .. Len(b)
          /\ x \in f .. f + n - 1 /\ x - f + 1 = n
      BY <1>1, <2>2
    <3>2. d[x] = WORD[x - q + 1]
      BY <2>6, <3>1 DEF At
    <3>3. d[x] = resString[n]
      BY <2>5, <3>1
    <3> QED
      BY <1>1, <3>1, <3>2, <3>3
  <2>9. ASSUME NEW j \in 1 .. n
        PROVE  q + j - 1 \in 1 .. Len(b) /\ q + j - 1 \notin f .. f + n - 1
    <3>1. n \in Nat /\ Len(b) \in Nat /\ q + n - 1 <= Len(b)
      BY <1>1, <2>6
    <3> HIDE DEF n
    <3>2. q + j - 1 \in 1 .. Len(b)
      BY <3>1
    <3>3. CASE q <= f
      BY <2>2, <2>7, <3>1, <3>3
    <3>4. CASE f < q
      BY <2>2, <2>8, <3>1, <3>4
    <3> QED
      BY <2>2, <3>2, <3>3, <3>4
  <2>10. At(b, q, WORD, n)
    <3>1. \A j \in 1 .. n : b[q + j - 1] = d[q + j - 1]
      BY <2>5, <2>9
    <3> QED
      BY <2>6, <3>1 DEF At
  <2>11. WordAt(b, q)
    BY <2>6, <2>10, WordAtFacts
  <2>12. q = k + 1 /\ f <= q
    BY <1>2, <2>1, <2>11
  <2>13. f = q /\ q \in q .. q + n - 1
    BY <1>1, <2>2, <2>12
  <2> QED
    BY <2>7, <2>13
<1> QED
  BY <1>3, <1>4

---------------------------------------------------------------------------
(* The invariant: words are only replaced, in the file and in the array,   *)
(* none is left where the loop has come past, and none in a section behind *)
(* which the program has come.                                             *)
EndOf(s) == s.offset + s.size

(* The bytes of the section s in the array b, at their places in the file. *)
ArrayOf(s, b) == [p \in s.offset + 1 .. EndOf(s) |-> b[p - s.offset]]

SectionsInv ==
    \A k \in Sections :
        elf.table[k].rodata =>
            /\ Partial(elf.table[k].offset, EndOf(elf.table[k]), unpatched, bytes)
            /\ IsBehind(k) => Whole(elf.table[k].offset, EndOf(elf.table[k]), bytes) = {}

ArrayInv ==
    step = "loop" =>
        /\ Partial(this.offset, EndOf(this), unpatched, ArrayOf(this, buff))
        /\ NoneBefore(buff, pass)

HeadersInv == PatcherInv /\ \E m \in Images : elf = m.elf

PatchInv ==
    /\ HeadersInv
    /\ step = "done" /\ elf.isElf => Accepted
    /\ SectionsInv
    /\ ArrayInv

(* A .rodata section lies in a file whose headers are complete.            *)
LEMMA RodataFacts ==
    ASSUME HeadersInv, NEW k \in Sections, elf.table[k].rodata
    PROVE  /\ elf.table[k].offset \in Nat /\ elf.table[k].size \in Nat
           /\ EndOf(elf.table[k]) \in Nat /\ elf.table[k].offset <= EndOf(elf.table[k])
           /\ Accepted => EndOf(elf.table[k]) <= Len(bytes)
<1> DEFINE s == elf.table[k]
<1>1. PICK m \in Images : elf = m.elf
  BY DEF HeadersInv
<1>2. elf \in Headers /\ bytes \in Seq(Nat) /\ k \in 1 .. Len(elf.table)
  BY DEF HeadersInv, PatcherInv, PatcherTypeOK, Sections
<1>3. s \in Section /\ s \in Chars(elf.table)
  BY <1>2 DEF Headers, Chars
<1>4. EHSIZE <= s.offset /\ s.offset + s.size <= elf.shoff
  BY <1>1, <1>3, ImageAssumption
<1>5. s.offset \in Nat /\ s.size \in Nat /\ elf.shoff \in Nat /\ Len(elf.table) \in Nat
  BY <1>2, <1>3 DEF Section, Headers
<1>6. Accepted => elf.shoff <= Len(bytes)
  <2>1. SHSIZE * Len(elf.table) \in Nat
    BY <1>5, HeaderAssumption
  <2> QED
    BY <1>2, <1>5, <2>1 DEF Accepted, Complete
<1> QED
  BY <1>2, <1>4, <1>5, <1>6 DEF EndOf

(* The sections are apart.                                                 *)
LEMMA SectionsApart ==
    ASSUME HeadersInv, NEW j \in Sections, NEW k \in Sections, j # k, elf.table[k].rodata,
           NEW p \in Int, In(p, elf.table[k])
    PROVE  ~In(p, elf.table[j])
<1>1. PICK m \in Images : elf = m.elf
  BY DEF HeadersInv
<1>2. elf.table \in Seq(Section) /\ j \in 1 .. Len(elf.table) /\ k \in 1 .. Len(elf.table)
  BY DEF HeadersInv, PatcherInv, PatcherTypeOK, Sections, Headers
<1>3. j \in DOMAIN m.elf.table /\ k \in DOMAIN m.elf.table /\ elf.table[k] \in Chars(m.elf.table)
  BY <1>1, <1>2 DEF Chars
<1>4. p \in 1 .. m.elf.shoff
  <2>1. elf.table[k].offset + elf.table[k].size <= m.elf.shoff
    BY <1>1, <1>3, ImageAssumption
  <2>2. elf.table[k].offset \in Nat /\ elf.table[k].size \in Nat
    BY RodataFacts
  <2>3. m.elf.shoff \in Nat
    BY <1>1 DEF HeadersInv, PatcherInv, PatcherTypeOK, Headers
  <2> QED
    BY <2>1, <2>2, <2>3 DEF In
<1> QED
  BY <1>1, <1>3, <1>4, ImageAssumption

(* The invariant holds when the program is first run.                      *)
LEMMA PatchInitInv == PatcherInit => PatchInv
<1> SUFFICES ASSUME PatcherInit PROVE PatchInv
  OBVIOUS
<1>1. HeadersInv
  BY PatcherInitInv DEF HeadersInv, PatcherInit
<1>2. SectionsInv
  <2> SUFFICES ASSUME NEW k \in Sections, elf.table[k].rodata
               PROVE  /\ Partial(elf.table[k].offset, EndOf(elf.table[k]), unpatched, bytes)
                      /\ ~IsBehind(k)
    BY DEF SectionsInv
  <2>1. ~IsBehind(k)
    BY DEF IsBehind, PatcherInit
  <2>2. Partial(elf.table[k].offset, EndOf(elf.table[k]), bytes, bytes)
    <3>1. PICK o \in Nat : o = elf.table[k].offset
      BY <1>1, RodataFacts
    <3>2. PICK e \in Nat : e = EndOf(elf.table[k])
      BY <1>1, RodataFacts
    <3>3. o <= e
      BY <1>1, <3>1, <3>2, RodataFacts
    <3> QED
      BY <3>1, <3>2, <3>3, PartialStart
  <2> QED
    BY <2>1, <2>2 DEF PatcherInit
<1> QED
  BY <1>1, <1>2 DEF PatchInv, ArrayInv, PatcherInit

(* Steps that change neither the file nor the array.                       *)
LEMMA OtherPatchInv ==
    ASSUME PatchInv,
           \/ read_elf_header \/ print_section_headers \/ OtherSection
           \/ LastSection \/ RunAgain
    PROVE  PatchInv'
<1>1. /\ bytes' = bytes /\ elf' = elf /\ unpatched' = unpatched /\ step' # "loop"
  BY DEF read_elf_header, print_section_headers, OtherSection, LastSection, RunAgain
<1>2. HeadersInv'
  BY <1>1, OtherStepInv DEF PatchInv, HeadersInv
<1>3. Sections' = Sections /\ Accepted' = Accepted
  BY <1>1 DEF Sections, Accepted, Complete
<1>4. step' = "done" /\ elf'.isElf => step = "sections" /\ section \notin Sections
  BY <1>1 DEF read_elf_header, print_section_headers, OtherSection, LastSection, RunAgain
<1>5. step' = "done" /\ elf'.isElf => Accepted'
  BY <1>3, <1>4 DEF PatchInv, HeadersInv, PatcherInv
<1>6. ASSUME NEW k \in Sections, elf.table[k].rodata, IsBehind(k)'
      PROVE  IsBehind(k)
  <2>1. section \in 1 .. Len(elf.table) + 1 /\ k \in 1 .. Len(elf.table)
        /\ Len(elf.table) \in Nat
    BY DEF PatchInv, HeadersInv, PatcherInv, PatcherTypeOK, Headers, Sections
  <2>2. CASE step' = "done"
    <3>1. step = "sections" /\ section \notin Sections
      BY <1>4, <1>6, <2>2 DEF IsBehind
    <3>2. k < section
      BY <2>1, <3>1 DEF Sections
    <3> QED
      BY <3>1, <3>2 DEF IsBehind
  <2>3. CASE step' # "done"
    <3>1. step' = "sections" /\ k < section'
      BY <1>1, <1>6, <2>3 DEF IsBehind
    <3>2. ~print_section_headers
      BY <2>1, <3>1 DEF print_section_headers
    <3>3. OtherSection
      BY <3>1, <3>2 DEF read_elf_header, LastSection, RunAgain
    <3>4. k # section
      BY <1>6, <3>3 DEF OtherSection, this
    <3>5. step = "sections" /\ k < section
      BY <2>1, <3>1, <3>3, <3>4 DEF OtherSection
    <3> QED
      BY <3>5 DEF IsBehind
  <2> QED
    BY <2>2, <2>3
<1>7. SectionsInv'
  <2> SUFFICES ASSUME NEW k \in Sections, elf.table[k].rodata
               PROVE  /\ Partial(elf.table[k].offset, EndOf(elf.table[k]), unpatched, bytes)
                      /\ IsBehind(k)' =>
                           Whole(elf.table[k].offset, EndOf(elf.table[k]), bytes) = {}
    BY <1>1, <1>3 DEF SectionsInv
  <2> QED
    BY <1>6 DEF PatchInv, SectionsInv
<1>8. ArrayInv'
  BY <1>1 DEF ArrayInv
<1> QED
  BY <1>2, <1>5, <1>7, <1>8 DEF PatchInv

(* The array is filled with the section.                                   *)
LEMMA ReadPatchInv ==
    ASSUME PatchInv, ReadSection
    PROVE  PatchInv'
<1>1. /\ bytes' = bytes /\ elf' = elf /\ unpatched' = unpatched /\ section' = section
      /\ step = "sections" /\ step' = "loop" /\ pass' = 0
      /\ section \in Sections /\ elf.table[section].rodata
  BY DEF ReadSection, this
<1>2. HeadersInv'
  BY <1>1, ReadSectionInv DEF PatchInv, HeadersInv
<1>3. SectionsInv'
  BY <1>1 DEF PatchInv, SectionsInv, Sections, IsBehind
<1>4. PICK s : s = this
  OBVIOUS
<1>5. /\ s.offset \in Nat /\ s.size \in Nat /\ EndOf(s) \in Nat /\ s.offset <= EndOf(s)
      /\ EndOf(s) <= Len(bytes)
  BY <1>1, <1>4, RodataFacts DEF PatchInv, HeadersInv, PatcherInv, this
<1>6. PICK r \in Behind : buff' = Read(s.offset, s.size) \o r
  BY <1>4 DEF ReadSection
<1>7. /\ Read(s.offset, s.size) \in Seq(Nat) /\ Len(Read(s.offset, s.size)) = s.size
      /\ bytes \in Seq(Nat)
  BY <1>5, ReadType DEF PatchInv, HeadersInv, PatcherInv, PatcherTypeOK
<1>8. \A p \in s.offset + 1 .. EndOf(s) : ArrayOf(s, buff')[p] = bytes[p]
  <2> SUFFICES ASSUME NEW p \in s.offset + 1 .. EndOf(s)
               PROVE  ArrayOf(s, buff')[p] = bytes[p]
    OBVIOUS
  <2>1. /\ p - s.offset \in 1 .. s.size /\ s.offset + (p - s.offset) = p
        /\ p <= Len(bytes)
    BY <1>5, <1>7 DEF EndOf
  <2>2. Read(s.offset, s.size)[p - s.offset] = bytes[p]
    BY <2>1 DEF Read
  <2>3. r \in Seq(Nat)
    BY BehindAssumption
  <2>4. buff'[p - s.offset] = bytes[p]
    BY <1>6, <1>7, <2>1, <2>2, <2>3, ConcatProperties
  <2> QED
    BY <2>4 DEF ArrayOf
<1>9. Partial(s.offset, EndOf(s), unpatched, bytes)
  BY <1>1, <1>4 DEF PatchInv, SectionsInv, this
<1>10. Partial(s.offset, EndOf(s), unpatched, ArrayOf(s, buff'))
  BY <1>5, <1>8, <1>9, PartialSame
<1>11. this' = s
  BY <1>1, <1>4 DEF this
<1>12. ArrayInv'
  BY <1>1, <1>10, <1>11 DEF ArrayInv, NoneBefore
<1> QED
  BY <1>1, <1>2, <1>3, <1>12 DEF PatchInv

(* A pass of the loop.                                                     *)
LEMMA LoopPatchInv ==
    ASSUME PatchInv, Loop
    PROVE  PatchInv'
<1>1. /\ bytes' = bytes /\ elf' = elf /\ unpatched' = unpatched /\ section' = section
      /\ step = "loop" /\ step' = "loop" /\ pass' = pass + 1 /\ this.rodata
      /\ section \in Sections /\ pass \in Nat /\ buff \in Seq(Nat) /\ this.size < Len(buff)
  BY DEF Loop, PatchInv, HeadersInv, PatcherInv, PatcherTypeOK
<1>2. HeadersInv'
  BY <1>1, LoopInv DEF PatchInv, HeadersInv
<1>3. SectionsInv'
  BY <1>1 DEF PatchInv, SectionsInv, Sections, IsBehind
<1>4. PICK s : s = this
  OBVIOUS
<1>5. /\ s.offset \in Nat /\ s.size \in Nat /\ EndOf(s) \in Nat /\ s.offset <= EndOf(s)
  BY <1>1, <1>4, RodataFacts DEF PatchInv, this
<1>6. Partial(s.offset, EndOf(s), unpatched, ArrayOf(s, buff)) /\ NoneBefore(buff, pass)
  BY <1>1, <1>4 DEF PatchInv, ArrayInv
<1>7. buff' = IF Words(buff, pass + 1) # {} THEN strncpy(buff, strstr(buff, pass + 1))
                                           ELSE buff
  BY DEF Loop, ReplaceFirst
<1>8. NoneBefore(buff', pass + 1)
  BY <1>1, <1>6, <1>7, PassFindsWord
<1>9. Partial(s.offset, EndOf(s), unpatched, ArrayOf(s, buff'))
  <2>1. CASE Words(buff, pass + 1) = {}
    BY <1>6, <1>7, <2>1
  <2>2. CASE Words(buff, pass + 1) # {}
    <3> DEFINE n == Len(WORD)
    <3>1. PICK f : f = strstr(buff, pass + 1)
      OBVIOUS
    <3>2. f \in Words(buff, pass + 1)
      BY <1>1, <2>2, <3>1, FirstWord
    <3>3. f \in Nat /\ f >= 1 /\ WordAt(buff, f)
      BY <1>1, <3>2 DEF Words
    <3>4. f + n - 1 <= Len(buff) /\ At(buff, f, WORD, n) /\ n \in Nat /\ n >= 1
      BY <1>1, <3>3, WordAtFacts, WordFacts
    <3> HIDE DEF n
    <3>5. buff' = strncpy(buff, f)
      BY <1>7, <2>2, <3>1
    <3>6. \A p \in 1 .. Len(buff) :
             buff'[p] = IF p \in f .. f + n - 1 THEN resString[p - f + 1] ELSE buff[p]
      BY <3>5 DEF strncpy, n
    <3>7. PICK q : q = s.offset + f
      OBVIOUS
    <3>8. Replaced(s.offset, EndOf(s), ArrayOf(s, buff), ArrayOf(s, buff'), q)
      <4> SUFFICES ASSUME NEW p \in s.offset + 1 .. EndOf(s)
                   PROVE  ArrayOf(s, buff')[p] =
                            IF p \in q .. q + n - 1 THEN resString[p - q + 1]
                                                    ELSE ArrayOf(s, buff)[p]
        BY DEF Replaced, n
      <4>1. p - s.offset \in 1 .. Len(buff) /\ p - s.offset - f + 1 = p - q + 1
        BY <1>1, <1>4, <1>5, <3>3, <3>7 DEF EndOf
      <4>2. p - s.offset \in f .. f + n - 1 <=> p \in q .. q + n - 1
        BY <1>5, <3>3, <3>4, <3>7
      <4>3. ArrayOf(s, buff')[p] = buff'[p - s.offset]
            /\ ArrayOf(s, buff)[p] = buff[p - s.offset]
        BY DEF ArrayOf
      <4> QED
        BY <3>6, <4>1, <4>2, <4>3
    <3>9. CASE q <= EndOf(s)
      <4>1. Found(EndOf(s), ArrayOf(s, buff), q)
        <5> SUFFICES ASSUME NEW j \in 1 .. n, q + j - 1 <= EndOf(s)
                     PROVE  ArrayOf(s, buff)[q + j - 1] = WORD[j]
          BY DEF Found, n
        <5>1. q + j - 1 \in s.offset + 1 .. EndOf(s) /\ (q + j - 1) - s.offset = f + j - 1
          BY <1>5, <3>3, <3>4, <3>7
        <5>2. ArrayOf(s, buff)[q + j - 1] = buff[f + j - 1]
          BY <5>1 DEF ArrayOf
        <5> QED
          BY <3>4, <5>2 DEF At
      <4>2. q \in s.offset + 1 .. EndOf(s)
        BY <1>5, <3>3, <3>7, <3>9
      <4> QED
        BY <1>5, <1>6, <3>8, <4>1, <4>2, ReplaceStep
    <3>10. CASE EndOf(s) < q
      <4>1. \A p \in s.offset + 1 .. EndOf(s) : p \notin q .. q + n - 1
        BY <1>5, <3>3, <3>7, <3>10
      <4>2. \A p \in s.offset + 1 .. EndOf(s) : ArrayOf(s, buff')[p] = ArrayOf(s, buff)[p]
        BY <3>8, <4>1 DEF Replaced, n
      <4> QED
        BY <1>5, <1>6, <4>2, PartialSame
    <3> QED
      BY <1>5, <3>3, <3>7, <3>9, <3>10
  <2> QED
    BY <2>1, <2>2
<1>10. this' = s
  BY <1>1, <1>4 DEF this
<1>11. ArrayInv'
  BY <1>1, <1>8, <1>9, <1>10 DEF ArrayInv
<1> QED
  BY <1>1, <1>2, <1>3, <1>11 DEF PatchInv

(* The words of a section are told by its bytes.                           *)
LEMMA WholeSame ==
    ASSUME NEW o \in Nat, NEW e \in Nat, NEW c, NEW d,
           \A p \in o + 1 .. e : d[p] = c[p]
    PROVE  Whole(o, e, d) = Whole(o, e, c)
<1> DEFINE n == Len(WORD)
<1>1. n \in Nat
  BY WordFacts
<1>2. ASSUME NEW q \in o + 1 .. e - n + 1
      PROVE  At(d, q, WORD, n) <=> At(c, q, WORD, n)
  <2>1. \A j \in 1 .. n : q + j - 1 \in o + 1 .. e
    BY <1>1
  <2>2. \A j \in 1 .. n : d[q + j - 1] = c[q + j - 1]
    BY <2>1
  <2> QED
    BY <2>2 DEF At
<1> QED
  BY <1>2 DEF Whole

(* The section is written back, with all its words replaced.               *)
LEMMA WritePatchInv ==
    ASSUME PatchInv, WriteSection
    PROVE  PatchInv'
<1>1. /\ elf' = elf /\ unpatched' = unpatched /\ section' = section + 1
      /\ step = "loop" /\ step' = "sections" /\ this.rodata /\ this.size < pass
      /\ section \in Sections /\ pass \in Nat /\ buff \in Seq(Nat) /\ this.size < Len(buff)
      /\ bytes \in Seq(Nat) /\ Accepted
  <2>1. step = "loop"
    BY DEF WriteSection
  <2>2. /\ pass \in Nat /\ buff \in Seq(Nat) /\ this.size < Len(buff) /\ section \in Sections
        /\ this.rodata /\ bytes \in Seq(Nat) /\ Accepted
    BY <2>1 DEF PatchInv, HeadersInv, PatcherInv, PatcherTypeOK
  <2>3. this.size \in Nat
    BY <2>2, RodataFacts DEF PatchInv, this
  <2> QED
    BY <2>2, <2>3 DEF WriteSection
<1>2. HeadersInv'
  BY <1>1, WriteSectionInv DEF PatchInv, HeadersInv
<1>4. PICK s : s = this
  OBVIOUS
<1>5. /\ s.offset \in Nat /\ s.size \in Nat /\ EndOf(s) \in Nat /\ s.offset <= EndOf(s)
      /\ EndOf(s) <= Len(bytes)
  BY <1>1, <1>4, RodataFacts DEF PatchInv, this
<1>6. Partial(s.offset, EndOf(s), unpatched, ArrayOf(s, buff)) /\ NoneBefore(buff, pass)
  BY <1>1, <1>4 DEF PatchInv, ArrayInv
<1>7. PICK b : b = SubSeq(buff, 1, s.size)
  OBVIOUS
<1>8. Len(b) = s.size /\ \A j \in 1 .. s.size : b[j] = buff[j]
  BY <1>1, <1>4, <1>5, <1>7
<1>9. \A p \in 1 .. Len(bytes) :
         bytes'[p] = IF p \in s.offset + 1 .. s.offset + s.size
                       THEN buff[p - s.offset] ELSE bytes[p]
  <2>1. bytes' = Write(s.offset, b)
    BY <1>4, <1>7 DEF WriteSection
  <2>2. \A p \in s.offset + 1 .. s.offset + s.size : p - s.offset \in 1 .. s.size
    BY <1>5
  <2>3. DOMAIN bytes = 1 .. Len(bytes)
    BY <1>1
  <2> QED
    BY <1>8, <2>1, <2>2, <2>3 DEF Write
<1>10. \A p \in s.offset + 1 .. EndOf(s) :
          bytes'[p] = buff[p - s.offset] /\ bytes'[p] = ArrayOf(s, buff)[p]
  <2>1. \A p \in s.offset + 1 .. EndOf(s) : p \in 1 .. Len(bytes)
    BY <1>1, <1>5
  <2>2. EndOf(s) = s.offset + s.size
    BY DEF EndOf
  <2> QED
    BY <1>9, <2>1, <2>2 DEF ArrayOf
<1>11. Partial(s.offset, EndOf(s), unpatched, bytes')
  <2>1. PICK c : c = ArrayOf(s, buff)
    OBVIOUS
  <2>2. PICK d : d = bytes'
    OBVIOUS
  <2>3. Partial(s.offset, EndOf(s), unpatched, d)
    BY <1>5, <1>6, <1>10, <2>1, <2>2, PartialSame
  <2> QED
    BY <2>2, <2>3
<1>12. Whole(s.offset, EndOf(s), bytes') = {}
  <2> DEFINE n == Len(WORD)
  <2> SUFFICES ASSUME NEW q \in Whole(s.offset, EndOf(s), bytes') PROVE FALSE
    OBVIOUS
  <2>1. q \in s.offset + 1 .. EndOf(s) - n + 1 /\ At(bytes', q, WORD, n)
    BY DEF Whole
  <2>2. n \in Nat /\ n >= 1
    BY WordFacts
  <2>3. PICK r : r = q - s.offset
    OBVIOUS
  <2> HIDE DEF n
  <2>4. r \in Nat /\ r >= 1 /\ r \in 1 .. pass /\ r + n - 1 <= Len(buff)
    <3>1. s.size < pass /\ s.size < Len(buff) /\ Len(buff) \in Nat /\ pass \in Nat
      BY <1>1, <1>4
    <3>2. EndOf(s) = s.offset + s.size
      BY DEF EndOf
    <3>3. r \in Nat /\ r >= 1 /\ r + n - 1 <= s.size
      BY <1>5, <2>1, <2>2, <2>3, <3>2
    <3> QED
      BY <1>5, <2>2, <3>1, <3>3
  <2>5. At(buff, r, WORD, n)
    <3> SUFFICES ASSUME NEW j \in 1 .. n PROVE buff[r + j - 1] = WORD[j]
      BY DEF At
    <3>1. q + j - 1 \in s.offset + 1 .. EndOf(s) /\ (q + j - 1) - s.offset = r + j - 1
      BY <1>5, <2>1, <2>2, <2>3
    <3>2. bytes'[q + j - 1] = WORD[j]
      BY <2>1 DEF At
    <3> QED
      BY <1>10, <3>1, <3>2
  <2>6. WordAt(buff, r)
    BY <1>1, <2>4, <2>5, WordAtFacts DEF n
  <2> QED
    BY <1>6, <2>4, <2>6 DEF NoneBefore
<1>13. ASSUME NEW k \in Sections, elf.table[k].rodata
       PROVE  /\ Partial(elf.table[k].offset, EndOf(elf.table[k]), unpatched, bytes')
              /\ k < section + 1 =>
                   Whole(elf.table[k].offset, EndOf(elf.table[k]), bytes') = {}
  <2>1. CASE k = section
    BY <1>4, <1>11, <1>12, <2>1 DEF this
  <2>2. CASE k # section
    <3> DEFINE z == elf.table[k]
    <3>1. /\ z.offset \in Nat /\ z.size \in Nat /\ EndOf(z) \in Nat
          /\ EndOf(z) <= Len(bytes)
      BY <1>1, <1>13, RodataFacts DEF PatchInv
    <3>2. ASSUME NEW p \in z.offset + 1 .. EndOf(z)
          PROVE  bytes'[p] = bytes[p]
      <4>1. In(p, z) /\ p \in 1 .. Len(bytes) /\ p \in Int
        BY <1>1, <3>1 DEF In, EndOf
      <4> HIDE DEF z
      <4>2. ~In(p, elf.table[section])
        BY <1>1, <1>13, <2>2, <4>1, SectionsApart DEF PatchInv, z
      <4>3. p \notin s.offset + 1 .. s.offset + s.size
        BY <1>4, <4>2 DEF In, this
      <4> QED
        BY <1>9, <4>1, <4>3
    <3>3. /\ Partial(z.offset, EndOf(z), unpatched, bytes)
          /\ IsBehind(k) => Whole(z.offset, EndOf(z), bytes) = {}
      BY <1>13 DEF PatchInv, SectionsInv
    <3>4. k < section + 1 => IsBehind(k)
      <4>1. k \in Int /\ section \in Int
        BY <1>1 DEF Sections
      <4> QED
        BY <1>1, <2>2, <4>1 DEF IsBehind
    <3> HIDE DEF z
    <3>5. PICK d : d = bytes'
      OBVIOUS
    <3>6. Partial(z.offset, EndOf(z), unpatched, d)
      BY <3>1, <3>2, <3>3, <3>5, PartialSame
    <3>7. Whole(z.offset, EndOf(z), d) = Whole(z.offset, EndOf(z), bytes)
      <4>1. PICK c : c = bytes
        OBVIOUS
      <4>2. PICK o \in Nat : o = z.offset
        BY <3>1
      <4>3. PICK e \in Nat : e = EndOf(z)
        BY <3>1
      <4>4. \A p \in o + 1 .. e : d[p] = c[p]
        BY <3>2, <3>5, <4>1, <4>2, <4>3
      <4>5. Whole(o, e, d) = Whole(o, e, c)
        BY ONLY <4>4, o \in Nat, e \in Nat, WholeSame
      <4> QED
        BY <4>1, <4>2, <4>3, <4>5
    <3> QED
      BY <3>3, <3>4, <3>5, <3>6, <3>7 DEF z
  <2> QED
    BY <2>1, <2>2
<1>14. \A k \in Sections : IsBehind(k)' => k < section + 1
  BY <1>1 DEF IsBehind
<1>15. SectionsInv'
  <2>1. Sections' = Sections
    BY <1>1 DEF Sections
  <2> SUFFICES ASSUME NEW k \in Sections, elf.table[k].rodata
               PROVE  /\ Partial(elf.table[k].offset, EndOf(elf.table[k]), unpatched, bytes')
                      /\ IsBehind(k)' =>
                           Whole(elf.table[k].offset, EndOf(elf.table[k]), bytes') = {}
    BY <1>1, <2>1 DEF SectionsInv
  <2> QED
    BY <1>13, <1>14
<1>16. ArrayInv'
  BY <1>1 DEF ArrayInv
<1> QED
  BY <1>1, <1>2, <1>15, <1>16 DEF PatchInv

(* Words are only replaced, none is left behind the program, and what is   *)
(* in its array is the section with some of its words replaced.            *)
THEOREM PatchInvariance == PatcherSpec => []PatchInv
<1>1. PatchInv /\ [PatcherNext]_patcher => PatchInv'
  <2> SUFFICES ASSUME PatchInv, [PatcherNext]_patcher PROVE PatchInv'
    OBVIOUS
  <2>1. CASE UNCHANGED patcher
    <3>1. /\ bytes' = bytes /\ elf' = elf /\ unpatched' = unpatched /\ buff' = buff
          /\ section' = section /\ pass' = pass /\ step' = step
      BY <2>1 DEF patcher
    <3>2. PatcherInv'
      BY <3>1 DEF PatchInv, HeadersInv, PatcherInv, PatcherTypeOK, Accepted, Complete,
           this, Sections
    <3>3. HeadersInv' /\ (step' = "done" /\ elf'.isElf => Accepted')
      BY <3>1, <3>2 DEF PatchInv, HeadersInv, Accepted, Complete
    <3>4. SectionsInv'
      BY <3>1 DEF PatchInv, SectionsInv, Sections, IsBehind
    <3>5. ArrayInv'
      BY <3>1 DEF PatchInv, ArrayInv, this
    <3> QED
      BY <3>3, <3>4, <3>5 DEF PatchInv
  <2>2. CASE PatcherNext
    BY <2>2, ReadPatchInv, LoopPatchInv, WritePatchInv, OtherPatchInv DEF PatcherNext
  <2> QED
    BY <2>1, <2>2
<1> QED
  BY <1>1, PatchInitInv, PTL DEF PatcherSpec

(* Every word in a .rodata section is replaced, and the only other bytes   *)
(* that may change are at the end of a section, in a beginning of the      *)
(* word, for all files and words, whatever lies behind the array, and      *)
(* however often the program is run on its own output.                     *)
THEOREM PatchesSections == PatcherSpec => []SectionsPatched
<1>1. PatchInv => SectionsPatched
  <2> SUFFICES ASSUME PatchInv, NEW k \in Sections, elf.table[k].rodata, IsBehind(k),
                      NEW p \in 1 .. Len(bytes), In(p, elf.table[k])
               PROVE  bytes[p] \in Allowed(elf.table[k], p)
    BY DEF SectionsPatched
  <2> DEFINE n == Len(WORD)
             s == elf.table[k]
             end == s.offset + s.size
             words == {q \in s.offset + 1 .. end - n + 1 :
                         p \in q .. q + n - 1 /\ WordAt(unpatched, q)}
             isRest(q) == /\ q > end - n + 1
                          /\ SubSeq(unpatched, q, end) = SubSeq(WORD, 1, end - q + 1)
  <2>1. Allowed(s, p) =
          IF words # {} THEN {resString[p - q + 1] : q \in words}
          ELSE IF \E q \in s.offset + 1 .. p : isRest(q)
                 THEN {unpatched[p]} \cup Chars(resString)
          ELSE {unpatched[p]}
    BY DEF Allowed
  <2>2. /\ s.offset \in Nat /\ s.size \in Nat /\ end \in Nat /\ EndOf(s) = end
        /\ Accepted => end <= Len(bytes)
    BY RodataFacts DEF PatchInv, EndOf
  <2>3. Accepted
    BY DEF PatchInv, HeadersInv, PatcherInv, IsBehind
  <2>4. unpatched \in Seq(Nat) /\ Len(unpatched) = Len(bytes) /\ Len(bytes) \in Nat
    BY DEF PatchInv, HeadersInv, PatcherInv, PatcherTypeOK
  <2>5. Partial(s.offset, end, unpatched, bytes) /\ Whole(s.offset, end, bytes) = {}
    BY <2>2 DEF PatchInv, SectionsInv
  <2>6. p \in s.offset + 1 .. end
    BY DEF In
  <2>7. n \in Nat /\ n >= 1
    BY WordFacts
  <2> HIDE DEF s
  <2>8. CASE words # {}
    <3>1. PICK q \in words : TRUE
      BY <2>8
    <3>2. q \in s.offset + 1 .. end - n + 1 /\ p \in q .. q + n - 1 /\ WordAt(unpatched, q)
      OBVIOUS
    <3> HIDE DEF n
    <3>3. q \in Nat /\ q >= 1
      BY <2>2, <3>2
    <3>4. At(unpatched, q, WORD, n)
      BY <2>4, <3>2, <3>3, WordAtFacts DEF n
    <3>5. q \in Whole(s.offset, end, unpatched)
      BY <3>2, <3>4 DEF Whole, n
    <3>6. ~At(bytes, q, WORD, n)
      BY <2>5, <3>2 DEF Whole, n
    <3>7. At(bytes, q, resString, n)
      BY <2>5, <3>5, <3>6 DEF Partial, n
    <3>8. p - q + 1 \in 1 .. n /\ q + (p - q + 1) - 1 = p
      BY <2>7, <3>2, <3>3
    <3>9. bytes[p] = resString[p - q + 1]
      BY <3>7, <3>8 DEF At
    <3> QED
      BY <2>1, <2>8, <3>1, <3>9 DEF s
  <2>9. CASE words = {}
    <3>1. PICK t \in s.offset + 1 .. end + 1 : CutAt(s.offset, end, unpatched, bytes, t)
      BY <2>5 DEF Partial
    <3>2. ~Inside(s.offset, end, unpatched, p)
      <4> SUFFICES ASSUME NEW q \in Whole(s.offset, end, unpatched), p \in q .. q + n - 1
                   PROVE  FALSE
        BY DEF Inside
      <4>1. q \in s.offset + 1 .. end - n + 1 /\ At(unpatched, q, WORD, n)
        BY DEF Whole
      <4> HIDE DEF n
      <4>2. q \in Nat /\ q >= 1 /\ q + n - 1 <= Len(unpatched)
        BY <2>2, <2>3, <2>4, <2>7, <4>1
      <4>3. WordAt(unpatched, q)
        BY <2>4, <4>1, <4>2, WordAtFacts DEF n
      <4>4. q \in words
        BY <4>1, <4>3 DEF n
      <4> QED
        BY <2>9, <4>4
    <3>3. CASE p < t
      <4>1. bytes[p] = unpatched[p]
        BY <2>6, <3>1, <3>2, <3>3 DEF CutAt
      <4> QED
        BY <2>1, <2>9, <4>1 DEF s
    <3>4. CASE ~(p < t)
      <4>1. t <= end /\ t \in s.offset + 1 .. p /\ p \in t .. end
        BY <2>2, <2>6, <3>4
      <4>2. Rest(s.offset, end, unpatched, t)
        BY <3>1, <4>1 DEF CutAt
      <4>3. isRest(t)
        <5>1. t > end - n + 1 /\ At(unpatched, t, WORD, end - t + 1)
          BY <4>2 DEF Rest
        <5>2. t \in Nat /\ t >= 1 /\ end <= Len(unpatched)
          BY <2>2, <2>3, <2>4, <4>1
        <5> QED
          BY <2>2, <2>4, <4>1, <5>1, <5>2, RestFacts
      <4>4. bytes[p] = unpatched[p] \/ bytes[p] \in Chars(resString)
        BY <3>1, <4>1 DEF CutAt
      <4>5. \E q \in s.offset + 1 .. p : isRest(q)
        BY <4>1, <4>3
      <4> HIDE DEF isRest
      <4> QED
        BY <2>1, <2>9, <4>4, <4>5 DEF s
    <3> QED
      BY <3>3, <3>4
  <2> QED
    BY <2>8, <2>9
<1> QED
  BY <1>1, PatchInvariance, PTL
=============================================================================
