---------------------------- MODULE MyStdio_proofs ----------------------------
(***************************************************************************)
(* What holds of the buffered streams for every size of the buffer, every  *)
(* file and every size that fread and fwrite are asked for.                *)
(***************************************************************************)
EXTENDS MyStdio, SequenceTheorems, TLAPS

(* A stream in order: the type of its fields, and the cursor in the buffer. *)
Sound(g) ==
    /\ g \in FileType
    /\ Len(g.buffer) = IF g.allocated THEN BUFSIZE ELSE 0
    /\ g.cursor <= g.buffer_end /\ g.buffer_end <= Len(g.buffer)

(* Two states of one stream: the mode and the buffer stay.                 *)
SameStream(g, h) == h.mode = g.mode /\ h.allocated = g.allocated

---------------------------------------------------------------------------
(* The greater and the smaller of two numbers.                             *)
LEMMA MaxMinFacts ==
  ASSUME NEW a \in Int, NEW b \in Int
  PROVE  /\ Max({a, b}) = IF a >= b THEN a ELSE b
         /\ Min({a, b}) = IF a <= b THEN a ELSE b
<1>1. Max({a, b}) = IF a >= b THEN a ELSE b
  BY DEF Max
<1>2. Min({a, b}) = IF a <= b THEN a ELSE b
  BY DEF Min
<1> QED BY <1>1, <1>2

(* The bytes of the model.                                                 *)
LEMMA ByteFacts ==
    /\ ZERO \in Byte /\ WRITTEN \in Byte /\ JUNK \in Byte
    /\ <<>> \in Seq(Byte) /\ Len(<<>>) = 0
    /\ BUFSIZE \in Nat /\ BUFSIZE > 0
    /\ \A n \in Nat : /\ Zeros(n) \in Seq(Byte) /\ Len(Zeros(n)) = n
                      /\ Junk(n) \in Seq(Byte) /\ Len(Junk(n)) = n
                      /\ Bytes(n) \in Seq(Byte) /\ Len(Bytes(n)) = n
<1>1. ZERO \in Byte /\ WRITTEN \in Byte /\ JUNK \in Byte
  <2> DEFINE U == UNION {{d[i] : i \in 1 .. Len(d)} : d \in Files}
  <2>1. Byte = U \cup {ZERO, WRITTEN, JUNK}
    BY DEF Byte
  <2> HIDE DEF U
  <2> QED BY <2>1
<1>2. BUFSIZE \in Nat /\ BUFSIZE > 0
  BY SizeAssumption
<1>3. ASSUME NEW n \in Nat, NEW x \in Byte
      PROVE  [i \in 1 .. n |-> x] \in Seq(Byte) /\ Len([i \in 1 .. n |-> x]) = n
  OBVIOUS
<1> QED BY <1>1, <1>2, <1>3 DEF Zeros, Junk, Bytes

(* A part of a sequence of bytes.                                          *)
LEMMA PartFacts ==
  ASSUME NEW q \in Seq(Byte), NEW m \in Nat, NEW n \in Nat, n <= Len(q)
  PROVE  /\ SubSeq(q, m + 1, n) \in Seq(Byte)
         /\ Len(SubSeq(q, m + 1, n)) = IF m < n THEN n - m ELSE 0
<1>1. \A k \in m + 1 .. n : q[k] \in Byte
  OBVIOUS
<1>2. SubSeq(q, m + 1, n) \in Seq(Byte)
  BY <1>1
<1>3. Len(SubSeq(q, m + 1, n)) = IF m + 1 <= n THEN n - (m + 1) + 1 ELSE 0
  BY SubSeqProperties
<1> QED BY <1>2, <1>3

(* Some bytes of the buffer are set.                                       *)
LEMMA FillFacts ==
  ASSUME NEW b \in Seq(Byte), NEW s \in Seq(Byte)
  PROVE  Fill(b, s) \in Seq(Byte) /\ Len(Fill(b, s)) = Len(b)
<1>1. DOMAIN b = 1 .. Len(b) /\ Len(b) \in Nat
  OBVIOUS
<1>2. \A i \in 1 .. Len(b) : (IF i <= Len(s) THEN s[i] ELSE b[i]) \in Byte
  OBVIOUS
<1> QED BY <1>1, <1>2 DEF Fill

(* The system calls.                                                       *)
LEMMA OverwriteType ==
  ASSUME NEW d \in Seq(Byte), NEW p \in Nat, NEW s \in Seq(Byte)
  PROVE  Overwrite(d, p, s) \in Seq(Byte)
<1>1. CASE s = <<>>
  BY <1>1 DEF Overwrite
<1>2. CASE s # <<>>
  <2> DEFINE m == Max({Len(d), p + Len(s)})
  <2>1. m \in Nat
    BY MaxMinFacts
  <2>2. \A i \in 1 .. m :
          (IF i \in p + 1 .. p + Len(s) THEN s[i - p]
           ELSE IF i <= Len(d) THEN d[i] ELSE ZERO) \in Byte
    BY ByteFacts
  <2> HIDE DEF m
  <2>3. [i \in 1 .. m |-> IF i \in p + 1 .. p + Len(s) THEN s[i - p]
                          ELSE IF i <= Len(d) THEN d[i] ELSE ZERO] \in Seq(Byte)
    BY <2>1, <2>2
  <2> QED BY <1>2, <2>3 DEF Overwrite, m
<1> QED BY <1>1, <1>2

(* read returns at most the bytes it is asked for.                         *)
LEMMA ReadType ==
  ASSUME NEW g \in FileType, NEW n \in Nat
  PROVE  BytesRead(g, n) \in Seq(Byte) /\ Len(BytesRead(g, n)) <= n
<1>1. g.offset \in Nat /\ g.data \in Seq(Byte) /\ Len(g.data) \in Nat
  BY DEF FileType
<1> DEFINE a == g.offset + n
           b == Len(g.data)
           m == Min({a, b})
<1>2. a \in Nat /\ b \in Nat
  BY <1>1
<1> HIDE DEF a, b
<1>3. m \in Nat /\ m <= a /\ m <= b
  <2>1. a \in Int /\ b \in Int
    BY <1>2
  <2>2. m = IF a <= b THEN a ELSE b
    BY <2>1, MaxMinFacts, Zenon
  <2> QED BY <1>2, <2>2
<1> HIDE DEF m
<1>4. /\ SubSeq(g.data, g.offset + 1, m) \in Seq(Byte)
      /\ Len(SubSeq(g.data, g.offset + 1, m)) =
            IF g.offset < m THEN m - g.offset ELSE 0
  BY <1>1, <1>3, PartFacts DEF b
<1>5. BytesRead(g, n) = SubSeq(g.data, g.offset + 1, m)
  BY Zenon DEF BytesRead, m, a, b
<1>6. m - g.offset <= n
  BY <1>1, <1>3 DEF a
<1> QED BY <1>1, <1>3, <1>4, <1>5, <1>6

(* write changes the file and its offset, not the buffer.                  *)
LEMMA WriteSound ==
  ASSUME NEW g, Sound(g), NEW s \in Seq(Byte)
  PROVE  Sound(Write(g, s)) /\ Write(g, s).mode = g.mode
         /\ Write(g, s).allocated = g.allocated /\ Write(g, s).buffer = g.buffer
         /\ Write(g, s).buffer_end = g.buffer_end /\ Write(g, s).cursor = g.cursor
<1> DEFINE p == IF Appends(g.mode) /\ s # <<>> THEN Len(g.data) ELSE g.offset
           d == Overwrite(g.data, p, s)
<1>1. g \in FileType /\ p \in Nat /\ p + Len(s) \in Nat
  BY DEF Sound, FileType
<1>2. d \in Seq(Byte)
  BY <1>1, OverwriteType DEF FileType
<1>3. Write(g, s) = [g EXCEPT !.data = d, !.offset = p + Len(s)]
  BY DEF Write
<1> HIDE DEF p, d
<1> QED BY <1>1, <1>2, <1>3 DEF Sound, FileType

(* lseek changes the offset, not the buffer.                               *)
LEMMA SeekSound ==
  ASSUME NEW g, Sound(g), NEW d \in Int
  PROVE  Sound(Seek(g, d)) /\ Seek(g, d).mode = g.mode
         /\ Seek(g, d).allocated = g.allocated /\ Seek(g, d).buffer = g.buffer
         /\ Seek(g, d).buffer_end = g.buffer_end /\ Seek(g, d).cursor = g.cursor
<1> DEFINE o == IF g.offset + d >= 0 THEN g.offset + d ELSE g.offset
<1>1. o \in Nat /\ g \in FileType
  BY DEF Sound, FileType
<1>2. Seek(g, d) = [g EXCEPT !.offset = o]
  BY <1>1 DEF Seek, FileType
<1> HIDE DEF o
<1> QED BY <1>1, <1>2 DEF Sound, FileType
---------------------------------------------------------------------------
(* A stream some of whose fields are set.                                  *)
Flush3(x, y) == [x EXCEPT !.buffer = y, !.cursor = 0, !.buffer_end = 0]
Clear2(x, y) == [x EXCEPT !.buffer = y, !.cursor = 0]
Refill4(x, y, s) ==
    [x EXCEPT !.buffer = y, !.buffer_end = Len(s), !.cursor = 0,
              !.eof_seen = @ \/ Len(s) # BUFSIZE]

(* The fields after a buffer was written or cleared,                       *)
LEMMA SetFields ==
  ASSUME NEW x \in FileType, NEW y \in Seq(Byte)
  PROVE  /\ LET z == Flush3(x, y)
            IN  /\ z \in FileType /\ z.buffer = y /\ z.cursor = 0 /\ z.buffer_end = 0
                /\ z.mode = x.mode /\ z.allocated = x.allocated
         /\ LET z == Clear2(x, y)
            IN  /\ z \in FileType /\ z.buffer = y /\ z.cursor = 0 /\ z.mode = x.mode
                /\ z.buffer_end = x.buffer_end /\ z.allocated = x.allocated
  BY DEF FileType, Flush3, Clear2

(* ... and after it was filled.                                            *)
LEMMA RefillFields ==
  ASSUME NEW x \in FileType, NEW y \in Seq(Byte), NEW s \in Seq(Byte)
  PROVE  LET z == Refill4(x, y, s)
         IN  /\ z \in FileType /\ z.buffer = y /\ z.buffer_end = Len(s) /\ z.cursor = 0
             /\ Len(s) # BUFSIZE => z.eof_seen
             /\ z.mode = x.mode /\ z.allocated = x.allocated
<1>1. PICK n \in Nat : n = Len(s)
  OBVIOUS
<1>2. PICK z : z = Refill4(x, y, s)
  OBVIOUS
<1>3. /\ z \in FileType /\ z.buffer = y /\ z.buffer_end = n /\ z.cursor = 0
      /\ n # BUFSIZE => z.eof_seen
      /\ z.mode = x.mode /\ z.allocated = x.allocated
  <2>1. CASE n = BUFSIZE
    <3>1. z = [x EXCEPT !.buffer = y, !.buffer_end = n, !.cursor = 0,
                        !.eof_seen = x.eof_seen]
      BY <1>1, <1>2, <2>1 DEF Refill4, FileType
    <3> QED BY <2>1, <3>1 DEF FileType
  <2>2. CASE n # BUFSIZE
    <3>1. z = [x EXCEPT !.buffer = y, !.buffer_end = n, !.cursor = 0, !.eof_seen = TRUE]
      BY <1>1, <1>2, <2>2 DEF Refill4
    <3> QED BY <2>2, <3>1 DEF FileType
  <2> QED BY <2>1, <2>2
<1> QED BY <1>1, <1>2, <1>3

---------------------------------------------------------------------------
(* The helpers keep a stream in order.                                     *)
LEMMA CheckSound ==
  ASSUME NEW g, Sound(g), NEW want \in Int, NEW have \in Int
  PROVE  LET h == check_eof(g, want, have)
         IN  /\ Sound(h) /\ SameStream(g, h)
             /\ h.cursor = g.cursor /\ h.buffer_end = g.buffer_end
             /\ h.eof <=> g.eof_seen /\ want > have
<1> DEFINE e == g.eof_seen /\ want > have
<1>1. check_eof(g, want, have) = [g EXCEPT !.eof = e]
  BY DEF check_eof
<1>2. e \in BOOLEAN /\ g \in FileType
  BY DEF Sound
<1> HIDE DEF e
<1>3. LET h == check_eof(g, want, have)
      IN  /\ Sound(h) /\ SameStream(g, h)
          /\ h.cursor = g.cursor /\ h.buffer_end = g.buffer_end /\ h.eof = e
  BY <1>1, <1>2 DEF Sound, FileType, SameStream
<1> QED BY <1>3 DEF e

(* buffer_to_file_write leaves an empty buffer.                            *)
LEMMA FlushSound ==
  ASSUME NEW g, Sound(g), NEW size \in Nat, size <= Len(g.buffer)
  PROVE  LET h == buffer_to_file_write(g, size)
         IN  Sound(h) /\ SameStream(g, h) /\ h.cursor = 0 /\ h.buffer_end = 0
<1> DEFINE s == SubSeq(g.buffer, 1, size)
           w == Write(g, s)
           u == Seek(w, -size)
           v == Seek(u, g.cursor)
<1>1. g \in FileType /\ g.cursor \in Int /\ -size \in Int /\ g.buffer \in Seq(Byte)
  BY DEF Sound, FileType
<1>2. s \in Seq(Byte)
  <2>1. 0 \in Nat /\ SubSeq(g.buffer, 0 + 1, size) \in Seq(Byte)
    BY <1>1, PartFacts
  <2> QED BY <2>1
<1> HIDE DEF s
<1>3. Sound(w) /\ w.mode = g.mode /\ w.allocated = g.allocated
  BY <1>2, WriteSound
<1> HIDE DEF w
<1>4. Sound(u) /\ u.mode = w.mode /\ u.allocated = w.allocated
  BY <1>1, <1>3, SeekSound
<1> HIDE DEF u
<1>5. Sound(v) /\ v.mode = u.mode /\ v.allocated = u.allocated
  BY <1>1, <1>4, SeekSound
<1>6. buffer_to_file_write(g, size) =
        [v EXCEPT !.buffer = Fill(v.buffer, Zeros(size)), !.cursor = 0, !.buffer_end = 0]
  BY DEF buffer_to_file_write, v, u, w, s
<1> HIDE DEF v
<1>7. v.buffer \in Seq(Byte) /\ Zeros(size) \in Seq(Byte)
  BY <1>5, ByteFacts DEF Sound, FileType
<1> DEFINE b == Fill(v.buffer, Zeros(size))
<1>8. b \in Seq(Byte) /\ Len(b) = Len(v.buffer)
  BY <1>7, FillFacts
<1>9. buffer_to_file_write(g, size) =
        [v EXCEPT !.buffer = b, !.cursor = 0, !.buffer_end = 0]
  BY <1>6
<1> HIDE DEF b
<1>10. v \in FileType /\ Len(v.buffer) \in Nat
       /\ Len(v.buffer) = IF v.allocated THEN BUFSIZE ELSE 0
  BY <1>5, <1>7 DEF Sound
<1>h. PICK h : h = buffer_to_file_write(g, size)
  OBVIOUS
<1>11. /\ h \in FileType /\ h.buffer = b /\ h.cursor = 0 /\ h.buffer_end = 0
       /\ h.mode = v.mode /\ h.allocated = v.allocated
  <2>1. h = Flush3(v, b)
    BY <1>9, <1>h DEF Flush3
  <2> QED BY <1>8, <1>10, <2>1, SetFields
<1>12. Sound(h)
  BY <1>8, <1>10, <1>11 DEF Sound
<1>13. SameStream(g, h)
  BY <1>3, <1>4, <1>5, <1>11 DEF SameStream
<1> QED BY <1>h, <1>11, <1>12, <1>13

(* This one leaves buffer_end where it was.                                *)
LEMMA ClearSound ==
  ASSUME NEW g, Sound(g), NEW size \in Nat
  PROVE  LET h == buffer_clear_and_sync(g, size)
         IN  /\ Sound(h) /\ SameStream(g, h)
             /\ h.cursor = 0 /\ h.buffer_end = g.buffer_end
<1> DEFINE v == Seek(g, g.cursor)
           b == Fill(v.buffer, Zeros(size))
<1>1. g \in FileType /\ g.cursor \in Int
  BY DEF Sound, FileType
<1>2. Sound(v) /\ SameStream(g, v) /\ v.buffer_end = g.buffer_end
  BY <1>1, SeekSound DEF SameStream
<1>3. buffer_clear_and_sync(g, size) = [v EXCEPT !.buffer = b, !.cursor = 0]
  BY DEF buffer_clear_and_sync
<1> HIDE DEF v
<1>4. b \in Seq(Byte) /\ Len(b) = Len(v.buffer)
  BY <1>2, FillFacts, ByteFacts DEF Sound, FileType
<1> HIDE DEF b
<1>5. v \in FileType /\ Len(v.buffer) = (IF v.allocated THEN BUFSIZE ELSE 0)
      /\ v.buffer_end <= Len(v.buffer) /\ 0 <= v.buffer_end
  BY <1>2 DEF Sound, FileType
<1>h. PICK h : h = buffer_clear_and_sync(g, size)
  OBVIOUS
<1>6. /\ h \in FileType /\ h.buffer = b /\ h.cursor = 0 /\ h.mode = v.mode
      /\ h.buffer_end = v.buffer_end /\ h.allocated = v.allocated
  <2>1. h = Clear2(v, b)
    BY <1>3, <1>h DEF Clear2
  <2> QED BY <1>4, <1>5, <2>1, SetFields
<1>7. Sound(h)
  BY <1>4, <1>5, <1>6 DEF Sound
<1>8. SameStream(g, h)
  BY <1>2, <1>6 DEF SameStream
<1> QED BY <1>h, <1>2, <1>6, <1>7, <1>8

(* file_to_buffer_read leaves a full one, or has seen the end of the file. *)
LEMMA RefillSound ==
  ASSUME NEW g, Sound(g), g.allocated
  PROVE  LET h == file_to_buffer_read(g)
         IN  /\ Sound(h) /\ SameStream(g, h)
             /\ h.cursor = 0 /\ h.buffer_end <= BUFSIZE
             /\ h.buffer_end < BUFSIZE => h.eof_seen
<1> DEFINE s == BytesRead(g, BUFSIZE)
           b == Fill(g.buffer, s)
<1>1. g \in FileType /\ g.buffer \in Seq(Byte) /\ Len(g.buffer) = BUFSIZE
      /\ BUFSIZE \in Nat
  BY ByteFacts DEF Sound, FileType
<1>2. s \in Seq(Byte) /\ Len(s) <= BUFSIZE
  BY <1>1, ReadType
<1>3. file_to_buffer_read(g) = Refill4(g, b, s)
  BY DEF file_to_buffer_read, Refill4
<1> HIDE DEF s
<1>4. b \in Seq(Byte) /\ Len(b) = BUFSIZE
  BY <1>1, <1>2, FillFacts
<1> HIDE DEF b
<1>5. PICK h : h = file_to_buffer_read(g)
  OBVIOUS
<1>6. /\ h \in FileType /\ h.buffer = b /\ h.buffer_end = Len(s) /\ h.cursor = 0
      /\ Len(s) # BUFSIZE => h.eof_seen
      /\ h.mode = g.mode /\ h.allocated = g.allocated
  <2>1. h = Refill4(g, b, s)
    BY <1>3, <1>5
  <2>2. g \in FileType /\ b \in Seq(Byte) /\ s \in Seq(Byte)
    BY <1>1, <1>2, <1>4
  <2> QED BY ONLY <2>1, <2>2, RefillFields
<1>7. Sound(h) /\ SameStream(g, h) /\ Len(s) \in Nat
  BY <1>1, <1>2, <1>4, <1>6 DEF Sound, SameStream
<1> QED BY <1>1, <1>2, <1>5, <1>6, <1>7

(* do_allocate_buffer leaves a buffer.                                     *)
LEMMA AllocateSound ==
  ASSUME NEW g, Sound(g)
  PROVE  LET h == do_allocate_buffer(g)
         IN  Sound(h) /\ h.mode = g.mode /\ h.allocated
<1>1. CASE g.allocated
  BY <1>1 DEF do_allocate_buffer
<1>2. CASE ~g.allocated
  <2>1. g \in FileType /\ g.cursor \in Nat /\ g.buffer_end \in Nat
        /\ Len(g.buffer) = 0 /\ BUFSIZE \in Nat
    BY <1>2, ByteFacts DEF Sound, FileType
  <2>2. g.cursor = 0 /\ g.buffer_end = 0
    BY <2>1 DEF Sound
  <2>3. Junk(BUFSIZE) \in Seq(Byte) /\ Len(Junk(BUFSIZE)) = BUFSIZE
    BY ByteFacts
  <2>4. do_allocate_buffer(g) = [g EXCEPT !.allocated = TRUE, !.buffer = Junk(BUFSIZE)]
    BY <1>2 DEF do_allocate_buffer
  <2> DEFINE h == do_allocate_buffer(g)
  <2>5. /\ h \in FileType /\ h.allocated = TRUE /\ h.buffer = Junk(BUFSIZE)
        /\ h.mode = g.mode /\ h.cursor = g.cursor /\ h.buffer_end = g.buffer_end
    BY <2>1, <2>3, <2>4 DEF FileType
  <2> HIDE DEF h
  <2>6. Sound(h)
    BY <2>1, <2>2, <2>3, <2>5 DEF Sound
  <2> QED BY <2>5, <2>6 DEF h
<1> QED BY <1>1, <1>2
---------------------------------------------------------------------------
(* The loop of fread: its record in order.                                 *)
Loop(r) ==
    /\ r \in [f : FileType, want : Nat, bytes : Seq(Byte), over : BOOLEAN, count : Int]
    /\ Sound(r.f) /\ r.f.allocated

(* A loop record after some of its fields were set.                        *)
SetLoop(r, g, b, w) == [r EXCEPT !.f = g, !.bytes = b, !.want = w]
SetStream(r, g) == [r EXCEPT !.f = g]

(* The fields of a loop record with another stream, bytes and remaining    *)
(* size,                                                                   *)
LEMMA LoopFields ==
  ASSUME NEW r, Loop(r), NEW g, Sound(g), g.allocated,
         NEW b \in Seq(Byte), NEW w \in Nat
  PROVE  LET t == SetLoop(r, g, b, w)
         IN  /\ Loop(t) /\ t.f = g /\ t.bytes = b /\ t.want = w
             /\ t.over = r.over /\ t.count = r.count
<1>1. g \in FileType
  BY DEF Sound
<1> QED BY <1>1 DEF Loop, SetLoop

(* ... and with another stream only.                                       *)
LEMMA StreamField ==
  ASSUME NEW r, Loop(r), NEW g, Sound(g), g.allocated
  PROVE  LET t == SetStream(r, g)
         IN  /\ Loop(t) /\ t.f = g /\ t.bytes = r.bytes /\ t.want = r.want
             /\ t.over = r.over /\ t.count = r.count
<1>1. g \in FileType
  BY DEF Sound
<1> QED BY <1>1 DEF Loop, SetStream

(* The cursor moves within the buffer.                                     *)
LEMMA MoveCursor ==
  ASSUME NEW g, Sound(g), NEW c \in Nat, c <= g.buffer_end
  PROVE  LET h == [g EXCEPT !.cursor = c]
         IN  /\ Sound(h) /\ SameStream(g, h) /\ h.cursor = c
             /\ h.buffer_end = g.buffer_end /\ h.eof = g.eof
  BY DEF Sound, FileType, SameStream

(* n bytes taken from the buffer.                                          *)
LEMMA TakeFacts ==
  ASSUME NEW r, Loop(r), NEW n \in Nat, n <= r.want,
         n <= r.f.buffer_end - r.f.cursor
  PROVE  LET t == Take(r, n)
         IN  /\ Loop(t) /\ t.want = r.want - n /\ t.over = r.over
             /\ t.count = r.count /\ t.f.eof = r.f.eof /\ SameStream(r.f, t.f)
             /\ t.f.cursor = r.f.cursor + n /\ t.f.buffer_end = r.f.buffer_end
<1> DEFINE c == r.f.cursor + n
           g == [r.f EXCEPT !.cursor = c]
           b == r.bytes \o InBuffer(r.f, n)
<1>1. /\ Sound(r.f) /\ r.f.allocated /\ r.f.cursor \in Nat /\ r.f.buffer_end \in Nat
      /\ r.want \in Nat /\ r.bytes \in Seq(Byte)
  BY DEF Loop, FileType
<1>2. c \in Nat /\ c <= r.f.buffer_end
  BY <1>1
<1>3. InBuffer(r.f, n) \in Seq(Byte)
  <2>1. r.f.buffer \in Seq(Byte) /\ c <= Len(r.f.buffer)
    BY <1>1, <1>2 DEF Sound, FileType
  <2> QED BY <1>1, <1>2, <2>1, PartFacts DEF InBuffer
<1>4. b \in Seq(Byte)
  BY <1>1, <1>3
<1>5. Take(r, n) = SetLoop(r, g, b, r.want - n)
  BY DEF Take, SetLoop
<1> HIDE DEF c
<1>6. /\ Sound(g) /\ SameStream(r.f, g) /\ g.cursor = c
      /\ g.buffer_end = r.f.buffer_end /\ g.eof = r.f.eof
  BY <1>1, <1>2, MoveCursor
<1> HIDE DEF g, b
<1>7. r.want - n \in Nat /\ g.allocated
  BY <1>1, <1>6 DEF SameStream
<1> QED BY <1>4, <1>5, <1>6, <1>7, LoopFields DEF c

(* Draining the buffer leaves the cursor at its beginning.                 *)
LEMMA DrainFacts ==
  ASSUME NEW r, Loop(r), r.f.buffer_end - r.f.cursor < r.want
  PROVE  LET d == Drain(r)
         IN  /\ Loop(d) /\ d.over = r.over /\ d.count = r.count
             /\ d.want = r.want - (r.f.buffer_end - r.f.cursor)
             /\ SameStream(r.f, d.f) /\ d.f.cursor = 0
<1> DEFINE n == r.f.buffer_end - r.f.cursor
           t == Take(r, n)
           g == IF Writable(t.f.mode) THEN buffer_to_file_write(t.f, t.f.cursor)
                                      ELSE buffer_clear_and_sync(t.f, BUFSIZE)
<1>1. n \in Nat /\ n <= r.want
  BY DEF Loop, Sound, FileType
<1> HIDE DEF n
<1>2. /\ Loop(t) /\ t.want = r.want - n /\ t.over = r.over /\ t.count = r.count
      /\ SameStream(r.f, t.f)
  <2>1. n <= r.f.buffer_end - r.f.cursor
    BY <1>1 DEF n
  <2> QED BY <1>1, <2>1, TakeFacts
<1>3. Drain(r) = SetStream(t, g)
  BY DEF Drain, SetStream, n
<1> HIDE DEF t
<1>4. Sound(t.f) /\ t.f.allocated /\ t.f.cursor \in Nat /\ t.f.cursor <= Len(t.f.buffer)
  <2>1. /\ Sound(t.f) /\ t.f.allocated /\ t.f.cursor \in Nat /\ t.f.buffer_end \in Nat
        /\ Len(t.f.buffer) \in Nat
    BY <1>2 DEF Loop, FileType
  <2> QED BY <2>1 DEF Sound
<1>5. Sound(g) /\ SameStream(t.f, g) /\ g.cursor = 0
  BY <1>4, FlushSound, ClearSound, ByteFacts
<1> HIDE DEF g
<1>6. g.allocated /\ t.want \in Nat
  BY <1>2, <1>4, <1>5 DEF SameStream, Loop
<1>7. LET d == Drain(r)
      IN  /\ Loop(d) /\ d.f = g /\ d.want = t.want
          /\ d.over = t.over /\ d.count = t.count
  BY <1>2, <1>3, <1>5, <1>6, StreamField
<1> QED BY <1>2, <1>5, <1>7 DEF SameStream, n

(* The loop has ended: everything was read, or the end of the file is met. *)
Finished(r) ==
    /\ Loop(r)
    /\ r.over \/ r.want = 0
    /\ r.f.eof \/ (r.want = 0 /\ r.count = EOF)

(* It goes on.                                                             *)
GoesOn(r) == Loop(r) /\ ~r.over /\ r.count = EOF

(* Less than a buffer wanted: the next buffer, or the end of the file,     *)
(* ends the loop.                                                          *)
LEMMA TakeFromNextFacts ==
  ASSUME NEW r, GoesOn(r), r.want < BUFSIZE
  PROVE  Finished(TakeFromNext(r)) /\ SameStream(r.f, TakeFromNext(r).f)
<1> DEFINE g == file_to_buffer_read(r.f)
           n == g.buffer_end
<1>1. Loop(r) /\ Sound(r.f) /\ r.f.allocated /\ r.want \in Nat /\ r.count = EOF /\ ~r.over
  BY DEF GoesOn, Loop
<1>2. /\ Sound(g) /\ SameStream(r.f, g) /\ g.cursor = 0
      /\ g.buffer_end <= BUFSIZE
      /\ g.buffer_end < BUFSIZE => g.eof_seen
  BY <1>1, RefillSound
<1>3. n \in Nat /\ g.allocated /\ BUFSIZE \in Nat
  BY <1>1, <1>2, ByteFacts DEF Sound, FileType, SameStream
<1>4. CASE n < BUFSIZE /\ r.want >= n
  <2> DEFINE h == check_eof(g, r.want, n)
             x == SetStream(r, h)
             t == Take(x, n)
  <2>1. TakeFromNext(r) = [t EXCEPT !.over = TRUE]
    BY <1>4 DEF TakeFromNext, SetStream
  <2>2. /\ Sound(h) /\ SameStream(g, h) /\ h.cursor = 0 /\ h.buffer_end = n
        /\ h.eof <=> g.eof_seen /\ r.want > n
    BY <1>1, <1>2, <1>3, CheckSound
  <2> HIDE DEF h, n, g
  <2>3. /\ Loop(x) /\ x.f = h /\ x.want = r.want /\ x.count = EOF
    BY <1>1, <1>3, <2>2, StreamField DEF SameStream
  <2>4. n <= x.want /\ n <= x.f.buffer_end - x.f.cursor
    BY <1>3, <1>4, <2>2, <2>3
  <2> HIDE DEF x
  <2>5. /\ Loop(t) /\ t.want = r.want - n /\ t.count = EOF /\ t.f.eof = h.eof
        /\ SameStream(h, t.f)
    BY <1>3, <2>3, <2>4, TakeFacts
  <2>6. t.f.eof \/ t.want = 0
    BY <1>1, <1>2, <1>3, <1>4, <2>2, <2>5 DEF n
  <2> HIDE DEF t
  <2>7. PICK u : u = [t EXCEPT !.over = TRUE]
    OBVIOUS
  <2>8. Loop(u) /\ u.over /\ u.want = t.want /\ u.count = t.count /\ u.f = t.f
    BY <2>5, <2>7 DEF Loop
  <2> QED BY <1>2, <2>1, <2>2, <2>5, <2>6, <2>7, <2>8 DEF Finished, SameStream
<1>5. CASE ~(n < BUFSIZE /\ r.want >= n)
  <2> DEFINE x == SetStream(r, g)
             t == Take(x, r.want)
  <2>1. TakeFromNext(r) = t
    BY <1>5 DEF TakeFromNext, SetStream
  <2>2. r.want <= n
    BY <1>1, <1>2, <1>3, <1>5
  <2> HIDE DEF n, g
  <2>3. Loop(x) /\ x.f = g /\ x.want = r.want /\ x.count = EOF
    BY <1>1, <1>2, <1>3, StreamField
  <2>4. r.want <= x.want /\ r.want <= x.f.buffer_end - x.f.cursor
    BY <1>1, <1>2, <1>3, <2>2, <2>3 DEF n
  <2> HIDE DEF x
  <2>5. Loop(t) /\ t.want = r.want - r.want /\ t.count = EOF /\ SameStream(g, t.f)
    BY <1>1, <2>3, <2>4, TakeFacts
  <2>6. t.want = 0
    BY <1>1, <2>5
  <2> QED BY <1>2, <2>1, <2>5, <2>6 DEF Finished, SameStream
<1> QED BY <1>4, <1>5

(* A buffer or more wanted: less than one is left, or the file has ended.  *)
LEMMA ReadDirectlyFacts ==
  ASSUME NEW r, GoesOn(r), r.f.cursor = 0
  PROVE  LET t == ReadDirectly(r)
         IN  /\ SameStream(r.f, t.f)
             /\ Finished(t) \/ (GoesOn(t) /\ t.want < BUFSIZE)
<1> DEFINE m == r.want % BUFSIZE
           count == r.want - m
           s == BytesRead(r.f, count)
           o == r.f.offset + Len(s)
           b == r.bytes \o s
           g == [r.f EXCEPT !.offset = o]
           t == [r EXCEPT !.f = g, !.bytes = b]
<1>1. /\ Loop(r) /\ Sound(r.f) /\ r.f \in FileType /\ r.f.allocated /\ r.want \in Nat
      /\ r.bytes \in Seq(Byte) /\ r.f.offset \in Nat /\ r.count = EOF /\ ~r.over
  BY DEF GoesOn, Loop, FileType
<1>2. m \in Nat /\ m < BUFSIZE /\ count \in Nat
  <2>1. \A x, y \in Nat : y > 0 => x % y \in Nat /\ x % y < y /\ x % y <= x
    OBVIOUS
  <2>2. m \in Nat /\ m < BUFSIZE /\ m <= r.want
    BY <1>1, <2>1, ByteFacts
  <2> QED BY <1>1, <2>2
<1> HIDE DEF m
<1>3. s \in Seq(Byte) /\ Len(s) \in Nat
  BY <1>1, <1>2, ReadType
<1>4. ReadDirectly(r) =
        IF Len(s) < count
          THEN [t EXCEPT !.f.buffer_end = 0, !.f.eof = TRUE, !.over = TRUE,
                         !.count = Len(s)]
          ELSE [t EXCEPT !.want = @ - count]
  BY DEF ReadDirectly, m
<1> HIDE DEF count, s
<1>5. o \in Nat /\ b \in Seq(Byte)
  BY <1>1, <1>3
<1> HIDE DEF o, b
<1>6. /\ Sound(g) /\ SameStream(r.f, g) /\ g.cursor = 0 /\ g.allocated
  BY <1>1, <1>5 DEF Sound, FileType, SameStream
<1> HIDE DEF g
<1>7. /\ Loop(t) /\ t.f = g /\ t.want = r.want /\ t.count = EOF /\ ~t.over
  BY <1>1, <1>5, <1>6 DEF Loop, Sound
<1> HIDE DEF t
<1>8. CASE Len(s) < count
  <2>1. PICK h : h = [g EXCEPT !.buffer_end = 0, !.eof = TRUE]
    OBVIOUS
  <2>2. Sound(h) /\ SameStream(g, h) /\ h.eof /\ h.allocated /\ h \in FileType
    <3>1. g \in FileType /\ Len(g.buffer) = (IF g.allocated THEN BUFSIZE ELSE 0)
          /\ g.cursor = 0 /\ Len(g.buffer) \in Nat
      BY <1>6 DEF Sound, FileType
    <3>2. /\ h \in FileType /\ h.buffer_end = 0 /\ h.eof = TRUE
          /\ h.cursor = g.cursor /\ h.buffer = g.buffer
          /\ h.mode = g.mode /\ h.allocated = g.allocated
      BY <2>1, <3>1 DEF FileType
    <3>3. Sound(h)
      BY <3>1, <3>2 DEF Sound
    <3>4. SameStream(g, h) /\ h.eof /\ h.allocated
      BY <1>6, <3>2 DEF SameStream
    <3> QED BY <3>2, <3>3, <3>4
  <2>k. PICK k \in Int : k = Len(s)
    BY <1>3
  <2>3. PICK u : u = [t EXCEPT !.f = h, !.over = TRUE, !.count = k]
    OBVIOUS
  <2>4. Loop(u) /\ u.f = h /\ u.over
    BY <1>7, <2>2, <2>3 DEF Loop
  <2>5. ReadDirectly(r) = u
    BY <1>4, <1>7, <1>8, <2>1, <2>k, <2>3
  <2> QED BY <1>6, <2>2, <2>4, <2>5 DEF Finished, SameStream
<1>9. CASE ~(Len(s) < count)
  <2>1. PICK u : u = [t EXCEPT !.want = m]
    OBVIOUS
  <2>2. Loop(u) /\ u.f = g /\ u.want = m /\ u.count = EOF /\ ~u.over
    BY <1>2, <1>7, <2>1 DEF Loop
  <2>3. t.want - count = m
    BY <1>1, <1>2, <1>7 DEF count
  <2>4. ReadDirectly(r) = u
    BY <1>4, <1>9, <2>1, <2>3
  <2> QED BY <1>2, <1>6, <2>2, <2>4 DEF GoesOn
<1> QED BY <1>8, <1>9

(* One pass leaves less than a buffer wanted, and the next one ends it.    *)
LEMMA ReadLoopFacts ==
  ASSUME NEW r, GoesOn(r) \/ Finished(r)
  PROVE  LET t == ReadLoop(r)
         IN  /\ SameStream(r.f, t.f)
             /\ Finished(t) \/ (GoesOn(t) /\ t.want < BUFSIZE)
             /\ Finished(r) \/ r.want < BUFSIZE => Finished(t)
<1>1. CASE r.over \/ r.want = 0
  <2>1. ReadLoop(r) = r
    BY <1>1 DEF ReadLoop
  <2>2. Finished(r)
    BY <1>1 DEF GoesOn, Finished
  <2> QED BY <2>1, <2>2 DEF SameStream
<1>2. CASE ~(r.over \/ r.want = 0)
  <2> DEFINE have == r.f.buffer_end - r.f.cursor
             h == check_eof(r.f, r.want, have)
             c == SetStream(r, h)
             d == Drain(c)
  <2>1. /\ GoesOn(r) /\ ~Finished(r) /\ Loop(r) /\ Sound(r.f) /\ r.f.allocated
        /\ r.want \in Nat
    BY <1>2 DEF Finished, GoesOn, Loop
  <2>2. have \in Nat
    BY <2>1 DEF Sound, FileType
  <2>3. /\ Sound(h) /\ SameStream(r.f, h) /\ h.allocated
        /\ h.cursor = r.f.cursor /\ h.buffer_end = r.f.buffer_end
    <3> HIDE DEF have
    <3>1. r.want \in Int /\ have \in Int
      BY <2>1, <2>2
    <3>2. Sound(h) /\ SameStream(r.f, h)
          /\ h.cursor = r.f.cursor /\ h.buffer_end = r.f.buffer_end
      BY <2>1, <3>1, CheckSound
    <3> QED BY <2>1, <3>2 DEF SameStream
  <2>4. ReadLoop(r) =
          IF r.want <= have THEN Take(c, r.want)
          ELSE IF d.want < BUFSIZE THEN TakeFromNext(d) ELSE ReadDirectly(d)
    BY <1>2 DEF ReadLoop, SetStream
  <2> HIDE DEF h
  <2>5. Loop(c) /\ c.f = h /\ c.want = r.want /\ c.count = EOF /\ ~c.over
    BY <2>1, <2>3, StreamField DEF GoesOn
  <2>6. have = c.f.buffer_end - c.f.cursor
    BY <2>3, <2>5
  <2> HIDE DEF have, c
  <2>7. CASE r.want <= have
    <3>1. /\ Loop(Take(c, r.want)) /\ Take(c, r.want).want = c.want - r.want
          /\ Take(c, r.want).count = EOF /\ SameStream(c.f, Take(c, r.want).f)
      <4>1. r.want <= c.want /\ r.want <= c.f.buffer_end - c.f.cursor
        BY <2>1, <2>5, <2>6, <2>7
      <4> QED BY <2>1, <2>5, <4>1, TakeFacts
    <3>2. Finished(Take(c, r.want))
      BY <2>1, <2>5, <3>1 DEF Finished
    <3> QED BY <2>3, <2>4, <2>5, <2>7, <3>1, <3>2 DEF SameStream
  <2>8. CASE ~(r.want <= have)
    <3>1. /\ Loop(d) /\ ~d.over /\ d.count = EOF /\ d.want = c.want - have
          /\ SameStream(c.f, d.f) /\ d.f.cursor = 0
      <4>1. c.f.buffer_end - c.f.cursor < c.want
        BY <2>1, <2>2, <2>5, <2>6, <2>8
      <4> QED BY <2>5, <2>6, <4>1, DrainFacts
    <3> HIDE DEF d
    <3>2. GoesOn(d) /\ SameStream(r.f, d.f) /\ d.want \in Nat /\ d.want <= r.want
      BY <2>1, <2>2, <2>3, <2>5, <3>1 DEF GoesOn, SameStream, Loop
    <3>3. CASE d.want < BUFSIZE
      <4>1. ReadLoop(r) = TakeFromNext(d)
        BY <2>4, <2>8, <3>3
      <4>2. Finished(TakeFromNext(d)) /\ SameStream(d.f, TakeFromNext(d).f)
        BY <3>2, <3>3, TakeFromNextFacts
      <4> QED BY <3>2, <4>1, <4>2 DEF SameStream
    <3>4. CASE ~(d.want < BUFSIZE)
      <4>1. ReadLoop(r) = ReadDirectly(d)
        BY <2>4, <2>8, <3>4
      <4>2. /\ SameStream(d.f, ReadDirectly(d).f)
            /\ \/ Finished(ReadDirectly(d))
               \/ GoesOn(ReadDirectly(d)) /\ ReadDirectly(d).want < BUFSIZE
        BY <3>1, <3>2, ReadDirectlyFacts
      <4>3. ~(r.want < BUFSIZE)
        <5>1. d.want \in Nat /\ r.want \in Nat /\ BUFSIZE \in Nat /\ d.want <= r.want
          BY <2>1, <3>2, ByteFacts
        <5> QED BY <3>4, <5>1
      <4> QED BY <2>1, <3>2, <4>1, <4>2, <4>3 DEF SameStream
    <3> QED BY <3>3, <3>4
  <2> QED BY <2>7, <2>8
<1> QED BY <1>1, <1>2

(* fread keeps the stream in order, and what it does not read is behind    *)
(* the end of the file.                                                    *)
LEMMA ReadSound ==
  ASSUME NEW g, Sound(g), NEW n \in Nat
  PROVE  LET r == fread_sub_program1(g, n)
         IN  /\ Sound(r.f) /\ r.f.mode = g.mode
             /\ r.bytes \in Seq(Byte) /\ r.count \in Int
             /\ r.f.eof \/ r.count = n
<1> DEFINE x == IF g.allocated THEN g ELSE file_to_buffer_read(do_allocate_buffer(g))
<1>1. Sound(x) /\ x.allocated /\ x.mode = g.mode
  <2>1. CASE g.allocated
    BY <2>1
  <2>2. CASE ~g.allocated
    <3>1. PICK h : h = do_allocate_buffer(g)
      OBVIOUS
    <3>2. Sound(h) /\ h.mode = g.mode /\ h.allocated
      BY <3>1, AllocateSound
    <3>3. Sound(file_to_buffer_read(h)) /\ SameStream(h, file_to_buffer_read(h))
      BY <3>2, RefillSound
    <3> QED BY <2>2, <3>1, <3>2, <3>3 DEF SameStream
  <2> QED BY <2>1, <2>2
<1>2. PICK r0 : r0 = [f |-> x, want |-> n, bytes |-> <<>>, over |-> FALSE, count |-> EOF]
  OBVIOUS
<1>3. PICK r2 : r2 = ReadLoop(ReadLoop(r0))
  OBVIOUS
<1>4. fread_sub_program1(g, n) =
        [r2 EXCEPT !.count = IF @ = EOF THEN n - r2.want ELSE @]
  BY <1>2, <1>3 DEF fread_sub_program1
<1> HIDE DEF x
<1>5. GoesOn(r0) /\ r0.f = x
  <2>1. x \in FileType /\ EOF \in Int
    BY <1>1 DEF Sound, EOF
  <2> QED BY <1>1, <1>2, <2>1 DEF GoesOn, Loop
<1>6. Finished(r2) /\ SameStream(x, r2.f)
  <2>1. PICK r1 : r1 = ReadLoop(r0)
    OBVIOUS
  <2>2. /\ SameStream(r0.f, r1.f)
        /\ Finished(r1) \/ (GoesOn(r1) /\ r1.want < BUFSIZE)
    BY <1>5, <2>1, ReadLoopFacts
  <2>3. SameStream(r1.f, r2.f) /\ Finished(r2)
    BY <1>3, <2>1, <2>2, ReadLoopFacts
  <2> QED BY <1>5, <2>2, <2>3 DEF SameStream
<1>7. Loop(r2) /\ r2.want \in Nat /\ r2.count \in Int /\ r2.bytes \in Seq(Byte)
      /\ Sound(r2.f)
  BY <1>6 DEF Finished, Loop
<1>8. PICK k : k = IF r2.count = EOF THEN n - r2.want ELSE r2.count
  OBVIOUS
<1>9. k \in Int /\ (r2.f.eof \/ k = n)
  BY <1>6, <1>7, <1>8 DEF Finished
<1>10. PICK r : r = [r2 EXCEPT !.count = k]
  OBVIOUS
<1>11. r.f = r2.f /\ r.bytes = r2.bytes /\ r.count = k
  BY <1>7, <1>10 DEF Loop
<1>12. fread_sub_program1(g, n) = r
  BY <1>4, <1>8, <1>10
<1> QED BY <1>1, <1>6, <1>7, <1>9, <1>11, <1>12 DEF SameStream

---------------------------------------------------------------------------
(* The loop of fwrite: its record in order.                                *)
Puts(r) ==
    /\ r \in [f : FileType, todo : Seq(Byte)]
    /\ Sound(r.f) /\ r.f.allocated

(* The buffer b with the first n bytes of s behind the first c.            *)
Placed(b, c, n, s) ==
    [i \in DOMAIN b |-> IF i \in c + 1 .. c + n THEN s[i - c] ELSE b[i]]

(* What Put does to a stream.                                              *)
Put3(x, b, c, e) == [x EXCEPT !.buffer = b, !.cursor = c, !.buffer_end = e]

(* Bytes placed into a buffer do not change its length.                    *)
LEMMA PlacedFacts ==
  ASSUME NEW b \in Seq(Byte), NEW s \in Seq(Byte), NEW c \in Nat,
         NEW n \in Nat, n <= Len(s)
  PROVE  Placed(b, c, n, s) \in Seq(Byte) /\ Len(Placed(b, c, n, s)) = Len(b)
<1>1. DOMAIN b = 1 .. Len(b) /\ Len(b) \in Nat
  OBVIOUS
<1>2. \A i \in 1 .. Len(b) : (IF i \in c + 1 .. c + n THEN s[i - c] ELSE b[i]) \in Byte
  OBVIOUS
<1> QED BY <1>1, <1>2 DEF Placed

(* The fields after bytes were put into the buffer.                        *)
LEMMA PutFields ==
  ASSUME NEW x \in FileType, NEW b \in Seq(Byte), NEW c \in Nat, NEW e \in Nat
  PROVE  LET z == Put3(x, b, c, e)
         IN  /\ z \in FileType /\ z.buffer = b /\ z.cursor = c /\ z.buffer_end = e
             /\ z.mode = x.mode /\ z.allocated = x.allocated
  BY DEF FileType, Put3

(* n bytes put into the buffer.                                            *)
LEMMA PutFacts ==
  ASSUME NEW r, Puts(r), NEW n \in Nat, n <= Len(r.todo),
         r.f.cursor + n <= BUFSIZE
  PROVE  LET t == Put(r, n)
         IN  /\ Puts(t) /\ SameStream(r.f, t.f)
             /\ t.f.cursor = r.f.cursor + n
             /\ Len(t.todo) = Len(r.todo) - n
<1> DEFINE g == r.f
           c == g.cursor
           b == Placed(g.buffer, c, n, r.todo)
           e == Max({g.buffer_end, c + n})
           s == SubSeq(r.todo, n + 1, Len(r.todo))
           h == Put3(g, b, c + n, e)
<1>1. /\ g \in FileType /\ Sound(g) /\ g.allocated /\ r.todo \in Seq(Byte)
      /\ c \in Nat /\ g.buffer_end \in Nat /\ g.buffer \in Seq(Byte)
      /\ BUFSIZE \in Nat /\ Len(r.todo) \in Nat
  <2>1. g \in FileType /\ Sound(g) /\ g.allocated /\ r.todo \in Seq(Byte)
    BY DEF Puts
  <2>2. g.cursor \in Nat /\ g.buffer_end \in Nat /\ g.buffer \in Seq(Byte)
    BY <2>1 DEF FileType
  <2> QED BY <2>1, <2>2, ByteFacts
<1>2. Len(g.buffer) = BUFSIZE /\ g.buffer_end <= BUFSIZE
  BY <1>1 DEF Sound
<1>3. b \in Seq(Byte) /\ Len(b) = BUFSIZE
  BY <1>1, <1>2, PlacedFacts
<1>4. c + n \in Nat /\ c + n <= BUFSIZE
  BY <1>1
<1>5. e \in Nat /\ c + n <= e /\ e <= BUFSIZE
  <2>1. g.buffer_end \in Int /\ c + n \in Int
    BY <1>1
  <2> DEFINE y == c + n
             z == g.buffer_end
  <2> HIDE DEF y, z
  <2>2. Max({z, y}) = IF z >= y THEN z ELSE y
    <3>1. z \in Int /\ y \in Int
      BY <2>1 DEF y, z
    <3> QED BY <3>1, MaxMinFacts, Zenon
  <2>3. e = Max({z, y})
    BY DEF y, z
  <2> QED BY <1>1, <1>2, <1>4, <2>2, <2>3 DEF y, z
<1>6. s \in Seq(Byte) /\ Len(s) = Len(r.todo) - n
  BY <1>1, PartFacts
<1>7. Put(r, n) = [r EXCEPT !.f = h, !.todo = s]
  BY <1>1 DEF Put, Placed, Put3, Puts
<1> HIDE DEF b, e, s
<1>8. /\ h \in FileType /\ h.buffer = b /\ h.cursor = c + n /\ h.buffer_end = e
      /\ h.mode = g.mode /\ h.allocated = g.allocated
  BY <1>1, <1>3, <1>4, <1>5, PutFields
<1> HIDE DEF h
<1>9. Sound(h)
  BY <1>1, <1>3, <1>4, <1>5, <1>8 DEF Sound
<1>10. PICK t : t = Put(r, n)
  OBVIOUS
<1>11. t \in [f : FileType, todo : Seq(Byte)] /\ t.f = h /\ t.todo = s
  BY <1>6, <1>7, <1>8, <1>10 DEF Puts
<1> QED BY <1>1, <1>6, <1>8, <1>9, <1>10, <1>11 DEF Puts, SameStream

(* One pass leaves less than a buffer to do, and the next one ends it.     *)
LEMMA WriteLoopFacts ==
  ASSUME NEW r, Puts(r)
  PROVE  LET t == WriteLoop(r)
         IN  /\ Puts(t) /\ SameStream(r.f, t.f)
             /\ Len(t.todo) = 0 \/ (Len(t.todo) < BUFSIZE /\ t.f.cursor = 0)
             /\ Len(r.todo) = 0 \/ (Len(r.todo) < BUFSIZE /\ r.f.cursor = 0)
                  => Len(t.todo) = 0
<1>1. /\ Sound(r.f) /\ r.f.allocated /\ r.todo \in Seq(Byte) /\ Len(r.todo) \in Nat
      /\ r.f.cursor \in Nat /\ BUFSIZE \in Nat /\ BUFSIZE > 0
      /\ r \in [f : FileType, todo : Seq(Byte)]
  <2>1. r.f \in FileType /\ r.todo \in Seq(Byte) /\ Puts(r)
    BY DEF Puts
  <2>2. r.f.cursor \in Nat
    BY <2>1 DEF FileType
  <2> QED BY <2>1, <2>2, ByteFacts DEF Puts
<1>2. CASE r.todo = <<>>
  <2>1. WriteLoop(r) = r /\ Len(r.todo) = 0
    BY <1>2 DEF WriteLoop
  <2> QED BY <2>1 DEF SameStream
<1>3. CASE r.todo # <<>>
  <2> DEFINE have == BUFSIZE - r.f.cursor
             full == Put(r, have)
             g    == buffer_to_file_write(full.f, BUFSIZE)
             d    == [full EXCEPT !.f = g]
             h    == IF Readable(g.mode) THEN file_to_buffer_read(g) ELSE g
             next == [d EXCEPT !.f = h]
             m    == Len(d.todo) % BUFSIZE
             n    == Len(d.todo) - m
             w    == Write(g, SubSeq(d.todo, 1, n))
             s    == SubSeq(d.todo, n + 1, Len(d.todo))
  <2>1. have \in Nat
    <3>1. r.f.cursor <= r.f.buffer_end /\ r.f.buffer_end <= BUFSIZE /\ r.f.buffer_end \in Nat
      BY <1>1 DEF Sound, FileType
    <3> QED BY <1>1, <3>1
  <2>2. CASE Len(r.todo) < have
    <3>1. WriteLoop(r) = Put(r, Len(r.todo))
      BY <1>3, <2>2 DEF WriteLoop
    <3>2. Len(r.todo) <= Len(r.todo) /\ r.f.cursor + Len(r.todo) <= BUFSIZE
      BY <1>1, <2>2
    <3>3. PICK t : t = Put(r, Len(r.todo))
      OBVIOUS
    <3>4. Puts(t) /\ SameStream(r.f, t.f) /\ Len(t.todo) = Len(r.todo) - Len(r.todo)
      BY <1>1, <3>2, <3>3, PutFacts
    <3> QED BY <1>1, <3>1, <3>3, <3>4
  <2>3. CASE ~(Len(r.todo) < have)
    <3>1. ~(Len(r.todo) < BUFSIZE /\ r.f.cursor = 0) /\ Len(r.todo) # 0
      BY <1>1, <1>3, <2>3
    <3>2. /\ Puts(full) /\ SameStream(r.f, full.f)
      <4>1. have <= Len(r.todo) /\ r.f.cursor + have <= BUFSIZE
        BY <1>1, <2>1, <2>3
      <4> HIDE DEF have
      <4> QED BY <2>1, <4>1, PutFacts
    <3>3. WriteLoop(r) =
            IF Len(d.todo) < BUFSIZE THEN Put(next, Len(d.todo))
            ELSE [d EXCEPT !.f = w, !.todo = s]
      <4>1. full \in [f : FileType, todo : Seq(Byte)]
        BY <3>2 DEF Puts
      <4>2. d = [full EXCEPT !.f = buffer_to_file_write(@, BUFSIZE)] /\ d.f = g
        BY <4>1
      <4>3. next = [d EXCEPT !.f = IF Readable(@.mode) THEN file_to_buffer_read(@) ELSE @]
        BY <4>1, <4>2
      <4> QED BY <1>3, <2>3, <4>1, <4>2, <4>3 DEF WriteLoop
    <3> HIDE DEF full
    <3>4. Sound(g) /\ SameStream(full.f, g) /\ g.cursor = 0
      <4>1. Sound(full.f) /\ BUFSIZE <= Len(full.f.buffer)
        BY <1>1, <3>2 DEF Puts, Sound
      <4> QED BY <1>1, <4>1, FlushSound
    <3> HIDE DEF g
    <3>5. g \in FileType /\ g.allocated /\ SameStream(r.f, g)
      BY <1>1, <3>2, <3>4 DEF Sound, SameStream
    <3>6. Puts(d) /\ d.f = g /\ Len(d.todo) \in Nat /\ d.todo \in Seq(Byte)
      <4>1. d \in [f : FileType, todo : Seq(Byte)] /\ d.f = g
        BY <3>2, <3>5 DEF Puts
      <4> QED BY <3>4, <3>5, <4>1 DEF Puts
    <3> HIDE DEF d
    <3>7. Sound(h) /\ SameStream(g, h) /\ h.cursor = 0
      <4>1. CASE Readable(g.mode)
        BY <3>4, <3>5, <4>1, RefillSound
      <4>2. CASE ~Readable(g.mode)
        BY <3>4, <4>2 DEF SameStream
      <4> QED BY <4>1, <4>2
    <3> HIDE DEF h
    <3>8. CASE Len(d.todo) < BUFSIZE
      <4>1. h \in FileType /\ h.allocated
        BY <3>5, <3>7 DEF Sound, SameStream
      <4>2. next \in [f : FileType, todo : Seq(Byte)] /\ next.f = h /\ next.todo = d.todo
        BY <3>6, <4>1 DEF Puts
      <4> HIDE DEF next
      <4>3. Puts(next) /\ Len(d.todo) <= Len(next.todo)
            /\ next.f.cursor + Len(d.todo) <= BUFSIZE
        <5>1. Puts(next)
          BY <3>7, <4>1, <4>2 DEF Puts
        <5> QED BY <1>1, <3>6, <3>7, <3>8, <4>2, <5>1
      <4>4. PICK t : t = Put(next, Len(d.todo))
        OBVIOUS
      <4>5. Puts(t) /\ SameStream(next.f, t.f) /\ Len(t.todo) = Len(next.todo) - Len(d.todo)
        BY <3>6, <4>3, <4>4, PutFacts
      <4>6. Len(t.todo) = 0
        BY <3>6, <4>2, <4>5
      <4>7. WriteLoop(r) = t
        BY <3>3, <3>8, <4>4
      <4>8. SameStream(r.f, t.f)
        BY <3>5, <3>7, <4>2, <4>5 DEF SameStream
      <4> QED BY <4>5, <4>6, <4>7, <4>8
    <3>9. CASE ~(Len(d.todo) < BUFSIZE)
      <4>1. m \in Nat /\ m < BUFSIZE /\ n \in Nat /\ n <= Len(d.todo)
        <5>1. \A x, y \in Nat : y > 0 => x % y \in Nat /\ x % y < y /\ x % y <= x
          OBVIOUS
        <5>2. m \in Nat /\ m < BUFSIZE /\ m <= Len(d.todo)
          BY <1>1, <3>6, <5>1
        <5> HIDE DEF m
        <5> QED BY <3>6, <5>2
      <4>2. Len(d.todo) - n = m
        <5> HIDE DEF m
        <5> QED BY <3>6, <4>1
      <4> HIDE DEF m, n
      <4>3. SubSeq(d.todo, 1, n) \in Seq(Byte)
        <5>1. 0 \in Nat /\ SubSeq(d.todo, 0 + 1, n) \in Seq(Byte)
          BY <3>6, <4>1, PartFacts
        <5> QED BY <5>1
      <4>4. s \in Seq(Byte) /\ Len(s) = Len(d.todo) - n
        BY <3>6, <4>1, PartFacts
      <4>5. Sound(w) /\ SameStream(g, w) /\ w.cursor = 0
        BY <3>4, <4>3, WriteSound DEF SameStream
      <4> HIDE DEF w, s
      <4>6. PICK t : t = [d EXCEPT !.f = w, !.todo = s]
        OBVIOUS
      <4>7. w \in FileType /\ w.allocated
        BY <3>5, <4>5 DEF Sound, SameStream
      <4>8. t \in [f : FileType, todo : Seq(Byte)] /\ t.f = w /\ t.todo = s
        BY <3>6, <4>4, <4>6, <4>7 DEF Puts
      <4>9. Puts(t) /\ SameStream(r.f, t.f)
        BY <3>5, <4>5, <4>7, <4>8 DEF Puts, SameStream
      <4>10. Len(t.todo) < BUFSIZE /\ t.f.cursor = 0
        BY <4>1, <4>2, <4>4, <4>5, <4>8
      <4>11. WriteLoop(r) = t
        BY <3>3, <3>9, <4>6
      <4> QED BY <3>1, <4>9, <4>10, <4>11
    <3> QED BY <3>8, <3>9
  <2> QED BY <2>2, <2>3
<1> QED BY <1>2, <1>3

(* fwrite keeps the stream in order.                                       *)
LEMMA FirstWriteSound ==
  ASSUME NEW g, Sound(g), Writable(g.mode), g.mode # "closed"
  PROVE  Puts([f |-> FirstWrite(g), todo |-> <<>>]) /\ FirstWrite(g).mode = g.mode
         /\ FirstWrite(g) \in FileType
<1>1. CASE g.allocated
  <2>1. FirstWrite(g) = g /\ g \in FileType
    BY <1>1 DEF FirstWrite, Sound
  <2> QED BY <1>1, <2>1, ByteFacts DEF Puts
<1>2. CASE ~g.allocated
  <2>1. PICK h : h = do_allocate_buffer(g)
    OBVIOUS
  <2>2. Sound(h) /\ h.mode = g.mode /\ h.allocated /\ h \in FileType
    BY <2>1, AllocateSound DEF Sound
  <2>3. PICK x : x = FirstWrite(g)
    OBVIOUS
  <2>4. Sound(x) /\ x.mode = g.mode /\ x.allocated /\ x \in FileType
    <3>1. g.mode \in {"a", "a+"} \/ g.mode \in {"w", "w+"} \/ g.mode = "r+"
      <4>1. g.mode \in Modes \cup {"closed"}
        BY DEF Sound, FileType
      <4> QED BY <4>1, ModeAssumption DEF Writable
    <3>2. Len(h.buffer) \in Nat
      BY <2>2 DEF FileType
    <3>3. CASE g.mode \in {"a", "a+"}
      <4>1. x = [h EXCEPT !.buffer_end = 0, !.cursor = 0, !.write_start = TRUE]
        BY <1>2, <2>1, <2>3, <3>3 DEF FirstWrite
      <4>2. /\ x \in FileType /\ x.buffer_end = 0 /\ x.cursor = 0 /\ x.buffer = h.buffer
            /\ x.mode = h.mode /\ x.allocated = h.allocated
        BY <2>2, <4>1 DEF FileType
      <4> QED BY <2>2, <3>2, <4>2 DEF Sound
    <3>4. CASE g.mode \in {"w", "w+"}
      <4>1. x = [h EXCEPT !.buffer_end = 0, !.cursor = 0]
        BY <1>2, <2>1, <2>3, <3>4 DEF FirstWrite
      <4>2. /\ x \in FileType /\ x.buffer_end = 0 /\ x.cursor = 0 /\ x.buffer = h.buffer
            /\ x.mode = h.mode /\ x.allocated = h.allocated
        BY <2>2, <4>1 DEF FileType
      <4> QED BY <2>2, <3>2, <4>2 DEF Sound
    <3>5. CASE g.mode = "r+"
      <4>1. x = file_to_buffer_read(h)
        BY <1>2, <2>1, <2>3, <3>5 DEF FirstWrite
      <4>2. Sound(x) /\ SameStream(h, x)
        BY <2>2, <4>1, RefillSound
      <4> QED BY <2>2, <4>2 DEF SameStream, Sound
    <3> QED BY <3>1, <3>3, <3>4, <3>5
  <2> QED BY <2>3, <2>4, ByteFacts DEF Puts
<1> QED BY <1>1, <1>2

(* fwrite_sub_program1 keeps a stream in order,                            *)
LEMMA FwriteSound ==
  ASSUME NEW g, Sound(g), Writable(g.mode), g.mode # "closed", NEW s \in Seq(Byte)
  PROVE  Sound(fwrite_sub_program1(g, s))
<1>1. PICK x : x = FirstWrite(g)
  OBVIOUS
<1>2. x \in FileType /\ Puts([f |-> x, todo |-> <<>>])
  BY <1>1, FirstWriteSound
<1>3. PICK r : r = [f |-> x, todo |-> s]
  OBVIOUS
<1>4. Puts(r)
  BY <1>2, <1>3 DEF Puts
<1>5. PICK u : u = WriteLoop(r)
  OBVIOUS
<1>6. PICK v : v = WriteLoop(u)
  OBVIOUS
<1>7. Puts(u)
  BY <1>4, <1>5, WriteLoopFacts
<1>8. Puts(v)
  BY <1>6, <1>7, WriteLoopFacts
<1>9. fwrite_sub_program1(g, s) = v.f
  BY <1>1, <1>3, <1>5, <1>6 DEF fwrite_sub_program1
<1> QED BY <1>8, <1>9 DEF Puts

(* The bytes that one call of fwrite is given are all in the buffer or in  *)
(* the file after two passes: fwrite_sub_program1 leaves none out.         *)
LEMMA TwoPassesWriteAll ==
  ASSUME NEW r, Puts(r)
  PROVE  WriteLoop(WriteLoop(r)).todo = <<>>
<1>1. PICK u : u = WriteLoop(r)
  OBVIOUS
<1>2. PICK v : v = WriteLoop(u)
  OBVIOUS
<1>3. Puts(u) /\ (Len(u.todo) = 0 \/ (Len(u.todo) < BUFSIZE /\ u.f.cursor = 0))
  BY <1>1, WriteLoopFacts
<1>4. Puts(v) /\ Len(v.todo) = 0
  BY <1>2, <1>3, WriteLoopFacts
<1>5. v.todo \in Seq(Byte)
  BY <1>4 DEF Puts
<1>6. v.todo = <<>>
  BY <1>4, <1>5
<1> QED BY <1>1, <1>2, <1>6

---------------------------------------------------------------------------
(* The other calls.                                                        *)
LEMMA FlushedSound ==
  ASSUME NEW g, Sound(g)
  PROVE  Sound(Flushed(g)) /\ Flushed(g).mode = g.mode
<1>1. /\ g \in FileType /\ g.buffer_end \in Nat /\ g.buffer_end <= Len(g.buffer)
  BY DEF Sound, FileType
<1>2. CASE ~g.allocated
  BY <1>2 DEF Flushed
<1>3. CASE g.allocated /\ Flushes(g)
  <2>1. Flushed(g) = buffer_to_file_write(g, g.buffer_end)
    BY <1>3 DEF Flushed
  <2>2. PICK n \in Nat : n = g.buffer_end
    BY <1>1
  <2>3. Sound(buffer_to_file_write(g, n)) /\ SameStream(g, buffer_to_file_write(g, n))
    BY <1>1, <2>2, FlushSound
  <2> QED BY <2>1, <2>2, <2>3 DEF SameStream
<1>4. CASE g.allocated /\ ~Flushes(g)
  <2>1. Flushed(g) = buffer_clear_and_sync(g, g.buffer_end)
    BY <1>4 DEF Flushed
  <2>2. PICK n \in Nat : n = g.buffer_end
    BY <1>1
  <2>3. Sound(buffer_clear_and_sync(g, n)) /\ SameStream(g, buffer_clear_and_sync(g, n))
    BY <1>1, <2>2, ClearSound
  <2> QED BY <2>1, <2>2, <2>3 DEF SameStream
<1> QED BY <1>2, <1>3, <1>4

(* ... so does freeing its buffer,                                         *)
LEMMA FreedSound ==
  ASSUME NEW g, Sound(g)
  PROVE  Sound(Freed(g)) /\ Freed(g).mode = g.mode
<1>1. PICK h : h = Freed(g)
  OBVIOUS
<1>2. g \in FileType
  BY DEF Sound
<1>3. /\ h \in FileType /\ h.allocated = FALSE /\ h.buffer = <<>>
      /\ h.buffer_end = 0 /\ h.cursor = 0 /\ h.mode = g.mode
  BY <1>1, <1>2, ByteFacts DEF Freed, FileType
<1>4. Len(h.buffer) = 0
  BY <1>3, ByteFacts
<1>5. Sound(h)
  BY <1>3, <1>4 DEF Sound
<1> QED BY <1>1, <1>3, <1>5

(* ... and a closed stream is in order.                                    *)
LEMMA ClosedSound ==
  ASSUME NEW d \in Seq(Byte), NEW e, e = TRUE \/ e = FALSE
  PROVE  Sound(Closed(d, e))
<1>1. PICK h : h = Closed(d, e)
  OBVIOUS
<1>2. /\ h \in FileType /\ h.allocated = FALSE /\ h.buffer = <<>>
      /\ h.buffer_end = 0 /\ h.cursor = 0
  BY <1>1, ByteFacts DEF Closed, FileType
<1>3. Len(h.buffer) = 0
  BY <1>2, ByteFacts
<1> QED BY <1>1, <1>2, <1>3 DEF Sound

(* What ReadBytes returns.                                                 *)
LEMMA ReadBytesFacts ==
  ASSUME Sound(f), NEW n \in Nat
  PROVE  LET r == ReadBytes(n)
         IN  /\ Sound(r.f) /\ r.bytes \in Seq(Byte) /\ r.count \in Int
             /\ Readable(f.mode) => r.f.eof \/ r.count = n
<1>1. CASE n > 0 /\ Readable(f.mode)
  <2>1. ReadBytes(n) = fread_sub_program1(f, n)
    BY <1>1 DEF ReadBytes
  <2> QED BY <2>1, ReadSound
<1>2. CASE ~(n > 0 /\ Readable(f.mode))
  <2>1. ReadBytes(n) = [f |-> f, bytes |-> <<>>, count |-> 0]
    BY <1>2 DEF ReadBytes
  <2> QED BY <1>2, <2>1, ByteFacts
<1> QED BY <1>1, <1>2

(* The arithmetic of sizes: only the whole reads all its elements.         *)
LEMMA ElementsFacts ==
  ASSUME NEW c \in Int, NEW size \in Nat \ {0}, NEW nmemb \in Nat
  PROVE  /\ Elements(c, size, nmemb) \in Int
         /\ size * nmemb \in Nat
         /\ Elements(c, size, nmemb) < nmemb => c # size * nmemb
<1>1. c \div size \in Int /\ size * nmemb \in Nat
  OBVIOUS
<1> QED BY <1>1 DEF Elements

---------------------------------------------------------------------------
(* The invariant: the stream is in order, and so is what a call returned.  *)
ResultOK == result.bytes \in Seq(Byte) /\ result.count \in Int
StdioInv == Sound(f) /\ ResultOK /\ due \in Nat

(* Results without bytes.                                                  *)
LEMMA NothingFacts ==
    /\ Nothing.bytes \in Seq(Byte) /\ Nothing.count \in Int
    /\ \A c \in Int : /\ [Nothing EXCEPT !.count = c].bytes \in Seq(Byte)
                      /\ [Nothing EXCEPT !.count = c].count = c
    /\ EOF \in Int
  BY ByteFacts DEF Nothing, EOF

(* The invariant holds at the start,                                       *)
LEMMA InitInv == Init => StdioInv
<1> SUFFICES ASSUME Init PROVE StdioInv
  OBVIOUS
<1>1. ResultOK /\ due \in Nat
  BY NothingFacts DEF Init, ResultOK
<1>2. CASE f = Closed(<<>>, FALSE)
  BY <1>1, <1>2, ClosedSound, ByteFacts DEF StdioInv
<1>3. CASE f # Closed(<<>>, FALSE)
  <2>1. PICK d \in Files : f = Closed(d, TRUE)
    BY <1>3 DEF Init
  <2>2. d \in Seq(Byte)
    BY FileAssumption
  <2> QED BY <1>1, <2>1, <2>2, ClosedSound DEF StdioInv
<1> QED BY <1>2, <1>3

(* ... after fopen,                                                        *)
LEMMA OpenInv ==
  ASSUME StdioInv, NEW m \in Modes, fopen(m)
  PROVE  StdioInv'
<1>1. Sound(f) /\ f \in FileType /\ ~IsOpen
  BY DEF StdioInv, fopen, Sound
<1>2. CASE ~f.exists /\ m \in {"r", "r+"}
  <2>1. f' = f /\ due' = due /\ result' = [Nothing EXCEPT !.count = EOF]
    BY <1>2 DEF fopen
  <2>2. ResultOK'
    BY <2>1, NothingFacts DEF ResultOK
  <2> QED BY <2>1, <2>2 DEF StdioInv
<1>3. CASE ~(~f.exists /\ m \in {"r", "r+"})
  <2>1. PICK d : d = IF m \in {"w", "w+"} THEN <<>> ELSE f.data
    OBVIOUS
  <2>2. d \in Seq(Byte) /\ Len(f.data) \in Nat
    BY <1>1, <2>1, ByteFacts DEF FileType
  <2>3. f' = [f EXCEPT !.mode = m, !.exists = TRUE, !.data = d]
        /\ result' = Nothing /\ due' = IF Appends(m) THEN Len(f.data) ELSE 0
    BY <1>3, <2>1 DEF fopen
  <2>4. PICK h : h = [f EXCEPT !.mode = m, !.exists = TRUE, !.data = d]
    OBVIOUS
  <2>5. /\ h \in FileType /\ h.buffer = f.buffer /\ h.buffer_end = f.buffer_end
        /\ h.cursor = f.cursor /\ h.allocated = f.allocated
    BY <1>1, <2>2, <2>4 DEF FileType
  <2>6. Sound(h)
    BY <1>1, <2>5 DEF Sound
  <2>7. Sound(f')
    BY <2>3, <2>4, <2>6
  <2>8. ResultOK' /\ due' \in Nat
    BY <2>2, <2>3, NothingFacts DEF ResultOK
  <2> QED BY <2>7, <2>8 DEF StdioInv
<1> QED BY <1>2, <1>3

(* Both ways of reading return from ReadBytes.                             *)
LEMMA ReturnInv ==
  ASSUME StdioInv, NEW n \in Nat, NEW c \in Int, ReturnsFrom(ReadBytes(n), c)
  PROVE  StdioInv'
<1>1. Sound(ReadBytes(n).f) /\ ReadBytes(n).bytes \in Seq(Byte)
  BY ReadBytesFacts DEF StdioInv
<1>2. f' = ReadBytes(n).f /\ due' = due /\ result' = [bytes |-> ReadBytes(n).bytes, count |-> c]
  BY DEF ReturnsFrom
<1>3. Sound(f')
  BY <1>1, <1>2
<1>4. ResultOK' /\ due' \in Nat
  BY <1>1, <1>2 DEF ResultOK, StdioInv
<1> QED BY <1>3, <1>4 DEF StdioInv

(* ... after fread, which says feof if it returns less than it was asked   *)
(* for,                                                                    *)
LEMMA FreadInv ==
  ASSUME StdioInv, NEW r \in ReadSizes, fread(r[1], r[2])
  PROVE  /\ StdioInv'
         /\ Readable(f.mode) /\ result'.count < r[2] => f'.eof
<1>1. r[1] \in Nat \ {0} /\ r[2] \in Nat
  BY SizeAssumption
<1>2. PICK a \in Nat \ {0} : a = r[1]
  BY <1>1
<1>3. PICK k \in Nat : k = r[2]
  BY <1>1
<1>4. PICK n : n = a * k
  OBVIOUS
<1>5. n \in Nat
  BY <1>4
<1>6. PICK b : b = ReadBytes(n)
  OBVIOUS
<1>7. /\ Sound(b.f) /\ b.bytes \in Seq(Byte) /\ b.count \in Int
      /\ Readable(f.mode) => b.f.eof \/ b.count = n
  BY <1>5, <1>6, ReadBytesFacts DEF StdioInv
<1>8. PICK c : c = Elements(b.count, a, k)
  OBVIOUS
<1>9. c \in Int /\ (c < k => b.count # n)
  BY <1>4, <1>7, <1>8, ElementsFacts
<1>10. ReturnsFrom(b, c)
  BY <1>2, <1>3, <1>4, <1>6, <1>8 DEF fread
<1>11. StdioInv'
  BY <1>5, <1>6, <1>9, <1>10, ReturnInv
<1>12. f' = b.f /\ result'.count = c
  BY <1>10 DEF ReturnsFrom
<1> QED BY <1>3, <1>7, <1>9, <1>11, <1>12

(* ... after fgetc,                                                        *)
LEMMA FgetcInv ==
  ASSUME StdioInv, fgetc
  PROVE  StdioInv'
<1>1. PICK c : c = IF ReadBytes(1).count = 1 THEN 1 ELSE EOF
  OBVIOUS
<1>2. c \in Int
  BY <1>1, NothingFacts
<1>3. ReturnsFrom(ReadBytes(1), c)
  BY <1>1 DEF fgetc
<1> QED BY <1>2, <1>3, ReturnInv

(* ... after fwrite and fputc,                                             *)
LEMMA FwriteInv ==
  ASSUME StdioInv, NEW s \in Seq(Byte), NEW done \in Int, NEW failed \in Int,
         Fwrite(s, done, failed)
  PROVE  StdioInv'
<1>1. Sound(f) /\ due \in Nat /\ f.mode # "closed" /\ Len(s) \in Nat
  BY DEF StdioInv, Fwrite, IsOpen
<1>2. CASE Writable(f.mode) /\ s # <<>>
  <2>1. /\ f' = fwrite_sub_program1(f, s)
        /\ result' = [Nothing EXCEPT !.count = done]
        /\ due' = IF Appends(f.mode) THEN due + Len(s) ELSE due
    BY <1>2 DEF Fwrite
  <2>2. Sound(f')
    BY <1>1, <1>2, <2>1, FwriteSound
  <2>3. ResultOK' /\ due' \in Nat
    BY <1>1, <2>1, NothingFacts DEF ResultOK
  <2> QED BY <2>2, <2>3 DEF StdioInv
<1>3. CASE ~(Writable(f.mode) /\ s # <<>>)
  <2>1. f' = f /\ due' = due /\ result' = [Nothing EXCEPT !.count = failed]
    BY <1>3 DEF Fwrite
  <2>2. ResultOK'
    BY <2>1, NothingFacts DEF ResultOK
  <2> QED BY <1>1, <2>1, <2>2 DEF StdioInv
<1> QED BY <1>2, <1>3

(* ... after fflush,                                                       *)
LEMMA FflushInv ==
  ASSUME StdioInv, fflush
  PROVE  StdioInv'
<1>1. f' = Flushed(f) /\ due' = due
      /\ result' = [Nothing EXCEPT !.count = IF Flushes(f) THEN 0 ELSE EOF]
  BY DEF fflush
<1>2. Sound(f')
  BY <1>1, FlushedSound DEF StdioInv
<1>3. PICK c \in Int : c = IF Flushes(f) THEN 0 ELSE EOF
  BY NothingFacts
<1>4. ResultOK' /\ due' \in Nat
  BY <1>1, <1>3, NothingFacts DEF ResultOK, StdioInv
<1> QED BY <1>2, <1>4 DEF StdioInv

(* ... after fseek,                                                        *)
LEMMA FseekInv ==
  ASSUME StdioInv, NEW o \in Offsets, NEW base \in {"SEEK_SET", "SEEK_CUR", "SEEK_END"},
         fseek(o, base)
  PROVE  StdioInv'
<1>1. PICK g : g = Freed(Flushed(f))
  OBVIOUS
<1>2. Sound(g) /\ g \in FileType
  BY <1>1, FlushedSound, FreedSound DEF StdioInv, Sound
<1>3. g.offset \in Nat /\ Len(g.data) \in Nat /\ o \in Int
  BY <1>2, SizeAssumption DEF FileType
<1>4. PICK x : x = CASE base = "SEEK_SET" -> 0
                     [] base = "SEEK_CUR" -> g.offset
                     [] base = "SEEK_END" -> Len(g.data)
  OBVIOUS
<1>5. x \in Nat
  BY <1>3, <1>4
<1>6. PICK y : y = o + x
  OBVIOUS
<1>7. y \in Int
  BY <1>3, <1>5, <1>6
<1>8. /\ f' = [g EXCEPT !.offset = IF y >= 0 THEN y ELSE @,
                        !.eof = FALSE, !.eof_seen = FALSE]
      /\ \E c \in IF y >= 0 THEN {0, y} ELSE {EOF} :
            result' = [Nothing EXCEPT !.count = c]
      /\ due' = due
  BY <1>1, <1>4, <1>6, Zenon DEF fseek
<1>9. PICK z : z = IF y >= 0 THEN y ELSE g.offset
  OBVIOUS
<1>10. z \in Nat
  BY <1>3, <1>7, <1>9
<1>11. PICK h : h = [g EXCEPT !.offset = z, !.eof = FALSE, !.eof_seen = FALSE]
  OBVIOUS
<1>12. /\ h \in FileType /\ h.buffer = g.buffer /\ h.buffer_end = g.buffer_end
       /\ h.cursor = g.cursor /\ h.allocated = g.allocated
  BY <1>2, <1>10, <1>11 DEF FileType
<1>13. Sound(h)
  BY <1>2, <1>12 DEF Sound
<1>14. f' = h
  BY <1>8, <1>9, <1>11
<1>15. Sound(f')
  BY <1>13, <1>14
<1>16. PICK c \in Int : result' = [Nothing EXCEPT !.count = c]
  <2>1. (IF y >= 0 THEN {0, y} ELSE {EOF}) \subseteq Int
    BY <1>7, NothingFacts
  <2> QED BY <1>8, <2>1
<1>17. ResultOK' /\ due' \in Nat
  BY <1>8, <1>16, NothingFacts DEF ResultOK, StdioInv
<1> QED BY <1>15, <1>17 DEF StdioInv

(* ... and after fclose.                                                   *)
LEMMA FcloseInv ==
  ASSUME StdioInv, fclose
  PROVE  StdioInv'
<1>1. PICK d : d = IF Writable(f.mode) THEN Flushed(f).data ELSE f.data
  OBVIOUS
<1>2. d \in Seq(Byte)
  <2>1. Flushed(f) \in FileType /\ f \in FileType
    BY FlushedSound DEF StdioInv, Sound
  <2> QED BY <1>1, <2>1 DEF FileType
<1>3. f' = Closed(d, TRUE) /\ result' = Nothing /\ due' = 0
  BY <1>1 DEF fclose
<1>4. Sound(f')
  BY <1>2, <1>3, ClosedSound
<1>5. ResultOK' /\ due' \in Nat
  BY <1>3, NothingFacts DEF ResultOK
<1> QED BY <1>4, <1>5 DEF StdioInv

(* What each call is given by the caller.                                  *)
LEMMA StepInv ==
  ASSUME StdioInv, [Next]_vars
  PROVE  StdioInv'
<1>1. ASSUME NEW m \in Modes, fopen(m) PROVE StdioInv'
  BY <1>1, OpenInv
<1>2. ASSUME NEW r \in ReadSizes, fread(r[1], r[2]) PROVE StdioInv'
  BY <1>2, FreadInv
<1>3. CASE fgetc
  BY <1>3, FgetcInv
<1>4. ASSUME NEW w \in WriteSizes, fwrite(w[1], w[2], Bytes(w[1] * w[2]))
      PROVE  StdioInv'
  <2>1. w[1] \in Nat /\ w[2] \in Nat
    BY SizeAssumption
  <2>2. PICK n \in Nat : n = w[1] * w[2]
    BY <2>1
  <2>3. PICK s : s = Bytes(n)
    OBVIOUS
  <2>4. s \in Seq(Byte)
    BY <2>3, ByteFacts
  <2>5. Fwrite(s, w[2], 0)
    BY <1>4, <2>2, <2>3 DEF fwrite
  <2>6. w[2] \in Int /\ 0 \in Int
    BY <2>1
  <2> QED BY <2>4, <2>5, <2>6, FwriteInv
<1>5. CASE fputc(WRITTEN)
  <2>1. <<WRITTEN>> \in Seq(Byte) /\ 1 \in Int /\ EOF \in Int
    BY ByteFacts, NothingFacts
  <2>2. Fwrite(<<WRITTEN>>, 1, EOF)
    BY <1>5 DEF fputc
  <2> QED BY <2>1, <2>2, FwriteInv
<1>6. CASE fflush
  BY <1>6, FflushInv
<1>7. ASSUME NEW o \in Offsets, NEW b \in {"SEEK_SET", "SEEK_CUR", "SEEK_END"},
             fseek(o, b)
      PROVE  StdioInv'
  BY <1>7, FseekInv
<1>8. CASE fclose
  BY <1>8, FcloseInv
<1>9. CASE UNCHANGED vars
  <2>1. f' = f /\ result' = result /\ due' = due
    BY <1>9 DEF vars
  <2> QED BY <2>1 DEF StdioInv, ResultOK
<1> QED BY <1>1, <1>2, <1>3, <1>4, <1>5, <1>6, <1>7, <1>8, <1>9 DEF Next

(* The stream stays in order whatever calls are made on it, for every size *)
(* of the buffer, in every mode and with every size read or written.       *)
THEOREM StdioInvariance == Spec => []StdioInv
<1>1. Init => StdioInv
  BY InitInv
<1>2. StdioInv /\ [Next]_vars => StdioInv'
  BY StepInv
<1> QED BY <1>1, <1>2, PTL DEF Spec

(* The FILE keeps the type of its fields, and a buffer that is allocated   *)
(* is BUFSIZE bytes long: no call writes behind it.                        *)
THEOREM StdioTypeCorrect == Spec => []TypeOK
<1>1. StdioInv => TypeOK
  BY DEF StdioInv, ResultOK, Sound, TypeOK
<1> QED BY <1>1, StdioInvariance, PTL

(* The difference buffer_end - cursor, an unsigned number in fread and     *)
(* fwrite, never wraps, and neither is behind the end of the buffer.       *)
THEOREM CursorStays == Spec => []CursorInBuffer
<1>1. StdioInv => CursorInBuffer
  BY DEF StdioInv, Sound, CursorInBuffer
<1> QED BY <1>1, StdioInvariance, PTL

(* The loop of fread ends in three ways, and in all of them a caller that  *)
(* got less than it asked for finds the end-of-file indicator set.         *)
THEOREM FeofEndsTheLoop == Spec => ShortReadIsEOF
<1>1. StdioInv /\ [Next]_vars =>
        [\A r \in ReadSizes :
            fread(r[1], r[2]) /\ Readable(f.mode) /\ result'.count < r[2] => f'.eof]_vars
  BY FreadInv
<1> QED BY <1>1, StdioInvariance, PTL DEF Spec, ShortReadIsEOF

---------------------------------------------------------------------------
(* Bytes written over a file: how long it is then,                         *)
LEMMA OverwriteLen ==
  ASSUME NEW d \in Seq(Byte), NEW p \in Nat, NEW s \in Seq(Byte), s # <<>>
  PROVE  LET e == Overwrite(d, p, s)
         IN  /\ e \in Seq(Byte)
             /\ Len(e) = IF Len(d) >= p + Len(s) THEN Len(d) ELSE p + Len(s)
             /\ \A i \in 1 .. Len(e) :
                  e[i] = IF i \in p + 1 .. p + Len(s) THEN s[i - p]
                         ELSE IF i <= Len(d) THEN d[i] ELSE ZERO
<1> DEFINE m == Max({Len(d), p + Len(s)})
<1>1. Len(d) \in Int /\ p + Len(s) \in Int /\ Len(d) \in Nat /\ p + Len(s) \in Nat
  OBVIOUS
<1>2. m = IF Len(d) >= p + Len(s) THEN Len(d) ELSE p + Len(s)
  BY <1>1, MaxMinFacts
<1>3. m \in Nat
  BY <1>1, <1>2
<1> HIDE DEF m
<1>4. PICK e : e = Overwrite(d, p, s)
  OBVIOUS
<1>5. e = [i \in 1 .. m |-> IF i \in p + 1 .. p + Len(s) THEN s[i - p]
                            ELSE IF i <= Len(d) THEN d[i] ELSE ZERO]
  BY <1>4 DEF Overwrite, m
<1>6. e \in Seq(Byte)
  BY <1>4, OverwriteType
<1>7. Len(e) = m
  BY <1>3, <1>5
<1> QED BY <1>2, <1>4, <1>5, <1>6, <1>7

(* Nothing written.                                                        *)
LEMMA OverwriteNone ==
  ASSUME NEW d, NEW p
  PROVE  Overwrite(d, p, <<>>) = d
  BY DEF Overwrite

(* Two sequences with the same bytes.                                      *)
LEMMA SameBytes ==
  ASSUME NEW a \in Seq(Byte), NEW b \in Seq(Byte), Len(a) = Len(b),
         \A i \in 1 .. Len(a) : a[i] = b[i]
  PROVE  a = b
  OBVIOUS

(* Bytes that are in the file already.                                     *)
LEMMA OverwriteSame ==
  ASSUME NEW d \in Seq(Byte), NEW p \in Nat, NEW s \in Seq(Byte),
         \A i \in 1 .. Len(s) : p + i <= Len(d) /\ s[i] = d[p + i]
  PROVE  Overwrite(d, p, s) = d
<1>1. CASE s = <<>>
  BY <1>1, OverwriteNone
<1>2. CASE s # <<>>
  <2>1. PICK e : e = Overwrite(d, p, s)
    OBVIOUS
  <2>2. PICK n \in Nat : n = Len(s)
    OBVIOUS
  <2>3. n > 0
    BY <1>2, <2>2
  <2>4. p + n <= Len(d)
    BY <2>2, <2>3
  <2>5. PICK k \in Nat : k = Len(d)
    OBVIOUS
  <2>6. /\ e \in Seq(Byte)
        /\ Len(e) = IF Len(d) >= p + Len(s) THEN Len(d) ELSE p + Len(s)
        /\ \A i \in 1 .. Len(e) :
                  e[i] = IF i \in p + 1 .. p + Len(s) THEN s[i - p]
                         ELSE IF i <= Len(d) THEN d[i] ELSE ZERO
    BY <1>2, <2>1, OverwriteLen
  <2>7. Len(e) = Len(d)
    BY <2>2, <2>4, <2>5, <2>6
  <2>8. ASSUME NEW i \in 1 .. Len(e) PROVE e[i] = d[i]
    <3>1. CASE i \in p + 1 .. p + n
      <4>1. i - p \in 1 .. Len(s) /\ p + (i - p) = i
        BY <2>2, <3>1
      <4>2. s[i - p] = d[i]
        BY <4>1
      <4> QED BY <2>2, <2>6, <3>1, <4>2
    <3>2. CASE i \notin p + 1 .. p + n
      BY <2>2, <2>6, <2>7, <3>2
    <3> QED BY <3>1, <3>2
  <2> QED BY <2>1, <2>6, <2>7, <2>8, SameBytes
<1> QED BY <1>1, <1>2

(* v is w with s at c.                                                     *)
Patched(v, w, c, s) ==
    /\ Len(v) = IF Len(w) >= c + Len(s) THEN Len(w) ELSE c + Len(s)
    /\ \A i \in 1 .. Len(v) :
          v[i] = IF i \in c + 1 .. c + Len(s) THEN s[i - c] ELSE w[i]

(* Writing w and then s over a part of it, or behind it, is writing the    *)
(* two together.                                                           *)
LEMMA OverwriteTwice ==
  ASSUME NEW d \in Seq(Byte), NEW p \in Nat, NEW w \in Seq(Byte), NEW c \in Nat,
         c <= Len(w), NEW s \in Seq(Byte), s # <<>>,
         NEW v \in Seq(Byte), Patched(v, w, c, s)
  PROVE  Overwrite(Overwrite(d, p, w), p + c, s) = Overwrite(d, p, v)
<1>1. PICK k \in Nat : k = Len(d)
  OBVIOUS
<1>2. PICK m \in Nat : m = Len(w)
  OBVIOUS
<1>3. PICK n \in Nat : n = Len(s) /\ n > 0
  OBVIOUS
<1>4. PICK q \in Nat : q = p + c
  OBVIOUS
<1>5. PICK l \in Nat : l = Len(v)
  OBVIOUS
<1>6. /\ l = IF m >= c + n THEN m ELSE c + n
      /\ \A i \in 1 .. l : v[i] = IF i \in c + 1 .. c + n THEN s[i - c] ELSE w[i]
  BY <1>2, <1>3, <1>5 DEF Patched
<1>7. v # <<>> /\ l > 0
  <2>1. l > 0
    BY <1>2, <1>3, <1>5, <1>6
  <2> QED BY <1>5, <2>1, ByteFacts
<1>8. PICK x : x = Overwrite(d, p, w)
  OBVIOUS
<1>9. PICK y : y = Overwrite(x, q, s)
  OBVIOUS
<1>10. PICK z : z = Overwrite(d, p, v)
  OBVIOUS
<1>11. x \in Seq(Byte)
  BY <1>8, OverwriteType
<1>12. PICK h \in Nat : h = Len(x)
  BY <1>11
<1>13. /\ y \in Seq(Byte)
       /\ Len(y) = IF h >= q + n THEN h ELSE q + n
       /\ \A i \in 1 .. Len(y) : y[i] = IF i \in q + 1 .. q + n THEN s[i - q]
                                        ELSE IF i <= h THEN x[i] ELSE ZERO
  BY <1>3, <1>9, <1>11, <1>12, OverwriteLen
<1>14. /\ z \in Seq(Byte)
       /\ Len(z) = IF k >= p + l THEN k ELSE p + l
       /\ \A i \in 1 .. Len(z) : z[i] = IF i \in p + 1 .. p + l THEN v[i - p]
                                        ELSE IF i <= k THEN d[i] ELSE ZERO
  BY <1>1, <1>5, <1>7, <1>10, OverwriteLen
<1>15. /\ h = IF m = 0 THEN k ELSE IF k >= p + m THEN k ELSE p + m
       /\ \A i \in 1 .. h : x[i] = IF i \in p + 1 .. p + m THEN w[i - p]
                                   ELSE IF i <= k THEN d[i] ELSE ZERO
  <2>1. CASE w = <<>>
    <3>1. x = d /\ m = 0 /\ h = k
      BY <1>1, <1>2, <1>8, <1>12, <2>1, OverwriteNone
    <3> QED BY <3>1
  <2>2. CASE w # <<>>
    <3>1. m > 0
      BY <1>2, <2>2
    <3>2. /\ Len(x) = IF Len(d) >= p + Len(w) THEN Len(d) ELSE p + Len(w)
          /\ \A i \in 1 .. Len(x) :
               x[i] = IF i \in p + 1 .. p + Len(w) THEN w[i - p]
                      ELSE IF i <= Len(d) THEN d[i] ELSE ZERO
      BY <1>8, <2>2, OverwriteLen
    <3> QED BY <1>1, <1>2, <1>12, <3>1, <3>2
  <2> QED BY <2>1, <2>2
<1>16. Len(y) = Len(z)
  <2>1. Len(y) = IF h >= q + n THEN h ELSE q + n
    BY <1>13
  <2>2. Len(z) = IF k >= p + l THEN k ELSE p + l
    BY <1>14
  <2>3. l = IF m >= c + n THEN m ELSE c + n
    BY <1>6
  <2>4. h = IF m = 0 THEN k ELSE IF k >= p + m THEN k ELSE p + m
    BY <1>15
  <2>5. c <= m
    BY <1>2
  <2> QED BY ONLY <2>1, <2>2, <2>3, <2>4, <2>5, <1>3, <1>4, k \in Nat, m \in Nat,
                  n \in Nat, q \in Nat, l \in Nat, h \in Nat, p \in Nat, c \in Nat
<1>17. ASSUME NEW i \in 1 .. Len(y) PROVE y[i] = z[i]
  <2>1. i \in 1 .. Len(z) /\ i \in Nat
    BY <1>16, <1>13
  <2>2. CASE i \in q + 1 .. q + n
    <3>1. i - p \in 1 .. l /\ i - p \in c + 1 .. c + n /\ i \in p + 1 .. p + l
          /\ (i - p) - c = i - q
      BY <1>3, <1>4, <1>6, <2>1, <2>2
    <3>2. v[i - p] = s[i - q]
      BY <1>6, <3>1
    <3> QED BY <1>13, <1>14, <2>1, <2>2, <3>1, <3>2
  <2>3. CASE i \notin q + 1 .. q + n /\ i \in p + 1 .. p + m
    <3>1. i - p \in 1 .. l /\ i - p \notin c + 1 .. c + n /\ i \in p + 1 .. p + l
          /\ i \in 1 .. h
      <4>1. l = IF m >= c + n THEN m ELSE c + n
        BY <1>6
      <4>2. h = IF m = 0 THEN k ELSE IF k >= p + m THEN k ELSE p + m
        BY <1>15
      <4>3. i \in Nat /\ i \in p + 1 .. p + m /\ i \notin q + 1 .. q + n
        BY <2>1, <2>3
      <4> QED BY ONLY <4>1, <4>2, <4>3, <1>3, <1>4, k \in Nat, m \in Nat, n \in Nat,
                      q \in Nat, l \in Nat, h \in Nat, p \in Nat, c \in Nat
    <3>2. v[i - p] = w[i - p]
      BY <1>6, <3>1
    <3> QED BY <1>13, <1>14, <1>15, <2>1, <2>3, <3>1, <3>2
  <2>4. CASE i \notin q + 1 .. q + n /\ i \notin p + 1 .. p + m
    <3>1. i \notin p + 1 .. p + l
      BY <1>2, <1>4, <1>6, <2>1, <2>4
    <3>2. z[i] = IF i <= k THEN d[i] ELSE ZERO
      BY <1>14, <2>1, <3>1
    <3>3. y[i] = IF i <= h THEN x[i] ELSE ZERO
      BY <1>13, <2>4
    <3>4. CASE i <= h
      BY <1>15, <2>1, <2>4, <3>2, <3>3, <3>4
    <3>5. CASE ~(i <= h)
      <4>1. ~(i <= k)
        BY <1>15, <2>1, <3>5
      <4> QED BY <3>2, <3>3, <3>5, <4>1
    <3> QED BY <3>4, <3>5
  <2> QED BY <2>2, <2>3, <2>4
<1>18. y = z
  BY <1>13, <1>14, <1>16, <1>17, SameBytes
<1> QED BY <1>4, <1>8, <1>9, <1>10, <1>18

---------------------------------------------------------------------------
(* The refinement mapping as functions of the stream: what waits in its    *)
(* buffer, where that goes, the file a caller sees and the position in it. *)
Held(g) == IF Flushes(g) THEN SubSeq(g.buffer, 1, g.buffer_end) ELSE <<>>
Base(g) == IF Appends(g.mode) /\ Held(g) # <<>> THEN Len(g.data) ELSE g.offset
Shown(g) == Overwrite(g.data, Base(g), Held(g))
At(g) == Base(g) + g.cursor

(* The fields that only fopen, the first fwrite and fclose change.         *)
Kept(g, h) ==
    /\ h.exists = g.exists /\ h.mode = g.mode
    /\ h.allocated = g.allocated /\ h.write_start = g.write_start

(* The bytes in the buffer are those of the file from its offset on.       *)
InPlace(g) ==
    \A i \in 1 .. g.buffer_end : /\ g.offset + i <= Len(g.data)
                                 /\ g.buffer[i] = g.data[g.offset + i]

(* Where write puts the bytes s.                                           *)
WriteAt(g, s) == IF Appends(g.mode) /\ s # <<>> THEN Len(g.data) ELSE g.offset

(* What write does to the file and the offset.                             *)
LEMMA WriteEffect ==
  ASSUME NEW g \in FileType, NEW s \in Seq(Byte)
  PROVE  LET w == Write(g, s)
         IN  /\ WriteAt(g, s) \in Nat /\ w \in FileType
             /\ w.data = Overwrite(g.data, WriteAt(g, s), s)
             /\ w.offset = WriteAt(g, s) + Len(s) /\ Kept(g, w)
<1>1. PICK p : p = WriteAt(g, s)
  OBVIOUS
<1>2. p \in Nat /\ Len(s) \in Nat /\ g.data \in Seq(Byte)
  BY <1>1 DEF WriteAt, FileType
<1>3. PICK d : d = Overwrite(g.data, p, s)
  OBVIOUS
<1>4. d \in Seq(Byte)
  BY <1>2, <1>3, OverwriteType
<1>5. PICK o \in Nat : o = p + Len(s)
  BY <1>2
<1>6. PICK w : w = Write(g, s)
  OBVIOUS
<1>7. w = [g EXCEPT !.data = d, !.offset = o]
  BY <1>1, <1>3, <1>5, <1>6 DEF Write, WriteAt
<1>8. w \in FileType /\ w.data = d /\ w.offset = o /\ Kept(g, w)
  BY <1>4, <1>7 DEF FileType, Kept
<1> QED BY <1>1, <1>2, <1>3, <1>5, <1>6, <1>8

(* ... and lseek.                                                          *)
LEMMA SeekEffect ==
  ASSUME NEW g \in FileType, NEW d \in Int
  PROVE  LET h == Seek(g, d)
         IN  /\ h \in FileType
             /\ h.offset = IF g.offset + d >= 0 THEN g.offset + d ELSE g.offset
             /\ h.data = g.data /\ Kept(g, h)
<1>1. PICK o : o = IF g.offset + d >= 0 THEN g.offset + d ELSE g.offset
  OBVIOUS
<1>2. o \in Nat
  BY <1>1 DEF FileType
<1>3. PICK h : h = Seek(g, d)
  OBVIOUS
<1>4. h = [g EXCEPT !.offset = o]
  BY <1>1, <1>3 DEF Seek, FileType
<1>5. h \in FileType /\ h.offset = o /\ h.data = g.data /\ Kept(g, h)
  BY <1>2, <1>4 DEF FileType, Kept
<1> QED BY <1>1, <1>3, <1>5

(* buffer_to_file_write puts the bytes where they belong, and the offset   *)
(* where the cursor was.                                                   *)
LEMMA FlushEffect ==
  ASSUME NEW g, Sound(g), NEW size \in Nat, size <= Len(g.buffer),
         NEW s, s = SubSeq(g.buffer, 1, size)
  PROVE  LET h == buffer_to_file_write(g, size)
         IN  /\ h.data = Overwrite(g.data, WriteAt(g, s), s)
             /\ h.offset = WriteAt(g, s) + g.cursor /\ Kept(g, h)
<1>1. g \in FileType /\ g.cursor \in Nat /\ g.buffer \in Seq(Byte)
  BY DEF Sound, FileType
<1>2. s \in Seq(Byte) /\ Len(s) = size
  <2>1. /\ SubSeq(g.buffer, 0 + 1, size) \in Seq(Byte)
        /\ Len(SubSeq(g.buffer, 0 + 1, size)) = IF 0 < size THEN size - 0 ELSE 0
    BY <1>1, PartFacts
  <2> QED BY <2>1
<1>3. PICK w : w = Write(g, s)
  OBVIOUS
<1>4. /\ WriteAt(g, s) \in Nat /\ w \in FileType
      /\ w.data = Overwrite(g.data, WriteAt(g, s), s)
      /\ w.offset = WriteAt(g, s) + Len(s) /\ Kept(g, w)
  BY <1>1, <1>2, <1>3, WriteEffect
<1>5. PICK p \in Nat : p = WriteAt(g, s)
  BY <1>4
<1>6. PICK u : u = Seek(w, -size)
  OBVIOUS
<1>7. u \in FileType /\ u.offset = p /\ u.data = w.data /\ Kept(w, u)
  <2>1. -size \in Int /\ w.offset + (-size) = p /\ p >= 0
    BY <1>2, <1>4, <1>5
  <2> QED BY <1>4, <1>6, <2>1, SeekEffect
<1>8. PICK v : v = Seek(u, g.cursor)
  OBVIOUS
<1>9. v \in FileType /\ v.offset = p + g.cursor /\ v.data = w.data /\ Kept(u, v)
  <2>1. g.cursor \in Int /\ p + g.cursor >= 0
    BY <1>1
  <2> QED BY <1>7, <1>8, <2>1, SeekEffect
<1>10. PICK b : b = Fill(v.buffer, Zeros(size))
  OBVIOUS
<1>11. PICK h : h = buffer_to_file_write(g, size)
  OBVIOUS
<1>12. h = [v EXCEPT !.buffer = b, !.cursor = 0, !.buffer_end = 0]
  BY <1>3, <1>6, <1>8, <1>10, <1>11 DEF buffer_to_file_write
<1>13. h.data = v.data /\ h.offset = v.offset /\ Kept(v, h)
  BY <1>9, <1>12 DEF FileType, Kept
<1> QED BY <1>4, <1>5, <1>7, <1>9, <1>11, <1>13 DEF Kept

(* buffer_clear_and_sync moves the offset to the cursor.                   *)
LEMMA ClearEffect ==
  ASSUME NEW g, Sound(g), NEW size \in Nat
  PROVE  LET h == buffer_clear_and_sync(g, size)
         IN  h.data = g.data /\ h.offset = g.offset + g.cursor /\ Kept(g, h)
<1>1. g \in FileType /\ g.cursor \in Nat /\ g.offset \in Nat
  BY DEF Sound, FileType
<1>2. PICK v : v = Seek(g, g.cursor)
  OBVIOUS
<1>3. v \in FileType /\ v.offset = g.offset + g.cursor /\ v.data = g.data /\ Kept(g, v)
  <2>1. g.cursor \in Int /\ g.offset + g.cursor >= 0
    BY <1>1
  <2> QED BY <1>1, <1>2, <2>1, SeekEffect
<1>4. PICK b : b = Fill(v.buffer, Zeros(size))
  OBVIOUS
<1>5. PICK h : h = buffer_clear_and_sync(g, size)
  OBVIOUS
<1>6. h = [v EXCEPT !.buffer = b, !.cursor = 0]
  BY <1>2, <1>4, <1>5 DEF buffer_clear_and_sync
<1>7. h.data = v.data /\ h.offset = v.offset /\ Kept(v, h)
  BY <1>3, <1>6 DEF FileType, Kept
<1> QED BY <1>3, <1>5, <1>7 DEF Kept

(* How many bytes of a file of length l there are at p, up to n.           *)
Available(l, p, n) == IF p + n <= l THEN n ELSE IF p <= l THEN l - p ELSE 0

(* What read returns.                                                      *)
LEMMA ReadEffect ==
  ASSUME NEW g \in FileType, NEW n \in Nat
  PROVE  LET s == BytesRead(g, n)
         IN  /\ s \in Seq(Byte) /\ Len(s) = Available(Len(g.data), g.offset, n)
             /\ \A i \in 1 .. Len(s) : g.offset + i <= Len(g.data)
                                       /\ s[i] = g.data[g.offset + i]
<1>1. PICK d \in Seq(Byte) : d = g.data
  BY DEF FileType
<1>2. PICK p \in Nat : p = g.offset
  BY DEF FileType
<1>3. PICK l \in Nat : l = Len(d)
  OBVIOUS
<1>4. PICK m : m = Min({p + n, l})
  OBVIOUS
<1>5. m = (IF p + n <= l THEN p + n ELSE l) /\ m \in Nat
  <2>1. PICK a \in Int : a = p + n
    OBVIOUS
  <2>2. l \in Int
    OBVIOUS
  <2>3. Min({a, l}) = IF a <= l THEN a ELSE l
    BY <2>1, <2>2, MaxMinFacts, Zenon
  <2> QED BY <1>4, <2>1, <2>3
<1>6. PICK s : s = BytesRead(g, n)
  OBVIOUS
<1>7. s = SubSeq(d, p + 1, m)
  BY <1>1, <1>2, <1>3, <1>4, <1>6 DEF BytesRead
<1>8. m <= Len(d)
  BY <1>3, <1>5
<1>9. s \in Seq(Byte) /\ Len(s) = IF p < m THEN m - p ELSE 0
  BY <1>5, <1>7, <1>8, PartFacts
<1>10. Len(s) = Available(l, p, n)
  BY <1>5, <1>9 DEF Available
<1>11. ASSUME NEW i \in 1 .. Len(s) PROVE p + i <= l /\ s[i] = d[p + i]
  <2>1. p + i <= m /\ p + i <= l
    BY <1>5, <1>9
  <2> QED BY <1>7, <1>9, <2>1, <1>3, <1>5
<1> QED BY <1>1, <1>2, <1>3, <1>6, <1>9, <1>10, <1>11

(* file_to_buffer_read makes the buffer a copy of the file.                *)
LEMMA RefillEffect ==
  ASSUME NEW g, Sound(g), g.allocated
  PROVE  LET h == file_to_buffer_read(g)
         IN  /\ h.data = g.data /\ h.offset = g.offset /\ Kept(g, h)
             /\ h.buffer_end = Available(Len(g.data), g.offset, BUFSIZE)
             /\ InPlace(h)
<1>1. /\ g \in FileType /\ g.buffer \in Seq(Byte) /\ Len(g.buffer) = BUFSIZE
      /\ BUFSIZE \in Nat
  BY ByteFacts DEF Sound, FileType
<1>2. PICK s : s = BytesRead(g, BUFSIZE)
  OBVIOUS
<1>3. /\ s \in Seq(Byte) /\ Len(s) = Available(Len(g.data), g.offset, BUFSIZE)
      /\ \A i \in 1 .. Len(s) : g.offset + i <= Len(g.data)
                                /\ s[i] = g.data[g.offset + i]
  BY <1>1, <1>2, ReadEffect
<1>4. Len(s) <= BUFSIZE
  BY <1>1, <1>2, ReadType
<1>5. PICK b : b = Fill(g.buffer, s)
  OBVIOUS
<1>6. \A i \in 1 .. Len(s) : b[i] = s[i]
  <2>1. DOMAIN g.buffer = 1 .. BUFSIZE /\ Len(s) \in Nat
    BY <1>1, <1>3
  <2>2. b = [i \in DOMAIN g.buffer |-> IF i <= Len(s) THEN s[i] ELSE g.buffer[i]]
    BY <1>5 DEF Fill
  <2> QED BY <1>1, <1>4, <2>1, <2>2
<1>7. PICK h : h = file_to_buffer_read(g)
  OBVIOUS
<1>8. h = [g EXCEPT !.buffer = b, !.buffer_end = Len(s), !.cursor = 0,
                    !.eof_seen = @ \/ Len(s) # BUFSIZE]
  BY <1>2, <1>5, <1>7 DEF file_to_buffer_read
<1>9. /\ h.data = g.data /\ h.offset = g.offset /\ Kept(g, h)
      /\ h.buffer = b /\ h.buffer_end = Len(s)
  BY <1>1, <1>8 DEF FileType, Kept
<1>10. InPlace(h)
  BY <1>3, <1>6, <1>9 DEF InPlace
<1> QED BY <1>3, <1>7, <1>9, <1>10

---------------------------------------------------------------------------
(* The mapped values have their types.                                     *)
LEMMA MappedTypes ==
  ASSUME NEW g, Sound(g)
  PROVE  /\ Held(g) \in Seq(Byte) /\ Base(g) \in Nat /\ Shown(g) \in Seq(Byte)
         /\ At(g) \in Nat /\ Len(Held(g)) = IF Flushes(g) THEN g.buffer_end ELSE 0
         /\ \A i \in 1 .. Len(Held(g)) : Held(g)[i] = g.buffer[i]
<1>1. /\ g \in FileType /\ g.buffer \in Seq(Byte) /\ g.buffer_end \in Nat
      /\ g.buffer_end <= Len(g.buffer) /\ g.cursor \in Nat /\ g.offset \in Nat
      /\ g.data \in Seq(Byte)
  BY DEF Sound, FileType
<1>2. /\ Held(g) \in Seq(Byte) /\ Len(Held(g)) = IF Flushes(g) THEN g.buffer_end ELSE 0
      /\ \A i \in 1 .. Len(Held(g)) : Held(g)[i] = g.buffer[i]
  <2>1. CASE Flushes(g)
    <3>1. PICK s : s = SubSeq(g.buffer, 1, g.buffer_end)
      OBVIOUS
    <3>2. s \in Seq(Byte) /\ Len(s) = g.buffer_end
      <4>1. /\ SubSeq(g.buffer, 0 + 1, g.buffer_end) \in Seq(Byte)
            /\ Len(SubSeq(g.buffer, 0 + 1, g.buffer_end)) =
                  IF 0 < g.buffer_end THEN g.buffer_end - 0 ELSE 0
        BY <1>1, PartFacts
      <4> QED BY <1>1, <3>1, <4>1
    <3>3. \A i \in 1 .. Len(s) : s[i] = g.buffer[i]
      BY <1>1, <3>1, <3>2
    <3>4. Held(g) = s
      BY <2>1, <3>1 DEF Held
    <3> QED BY <2>1, <3>2, <3>3, <3>4
  <2>2. CASE ~Flushes(g)
    <3>1. Held(g) = <<>>
      BY <2>2 DEF Held
    <3> QED BY <2>2, <3>1, ByteFacts
  <2> QED BY <2>1, <2>2
<1>3. Base(g) \in Nat
  BY <1>1 DEF Base
<1>4. Shown(g) \in Seq(Byte)
  BY <1>1, <1>2, <1>3, OverwriteType DEF Shown
<1> QED BY <1>1, <1>2, <1>3, <1>4 DEF At

(* With nothing in the buffer the file is what it is.                      *)
LEMMA EmptyShown ==
  ASSUME NEW g, Sound(g), g.buffer_end = 0 \/ ~g.allocated \/ g.mode = "r"
  PROVE  /\ Held(g) = <<>> /\ Shown(g) = g.data /\ At(g) = g.offset + g.cursor
         /\ g.buffer_end = 0 \/ ~g.allocated => g.cursor = 0 /\ g.buffer_end = 0
<1>1. /\ g \in FileType /\ g.buffer_end \in Nat /\ g.cursor \in Nat
      /\ g.cursor <= g.buffer_end /\ g.buffer_end <= Len(g.buffer)
      /\ ~g.allocated => Len(g.buffer) = 0
  BY DEF Sound, FileType
<1>2. g.buffer_end = 0 \/ ~g.allocated => g.cursor = 0 /\ g.buffer_end = 0
  BY <1>1
<1>3. Held(g) = <<>>
  <2>1. CASE ~Flushes(g)
    BY <2>1 DEF Held
  <2>2. CASE Flushes(g)
    <3>1. g.allocated /\ g.mode # "r"
      BY <2>2 DEF Flushes, Writable, Appends
    <3>2. Len(Held(g)) = 0 /\ Held(g) \in Seq(Byte)
      BY <1>2, <2>2, <3>1, MappedTypes
    <3> QED BY <3>2
  <2> QED BY <2>1, <2>2
<1>4. Shown(g) = g.data /\ At(g) = g.offset + g.cursor
  BY <1>3, OverwriteNone DEF Shown, At, Base
<1> QED BY <1>2, <1>3, <1>4

(* ... and so it is while the buffer is a copy of it.                      *)
LEMMA InPlaceShown ==
  ASSUME NEW g, Sound(g), InPlace(g), ~Appends(g.mode)
  PROVE  Shown(g) = g.data /\ At(g) = g.offset + g.cursor
<1>1. Base(g) = g.offset /\ At(g) = g.offset + g.cursor
  BY DEF Base, At
<1>2. PICK s \in Seq(Byte) : s = Held(g)
  BY MappedTypes
<1>3. PICK d \in Seq(Byte) : d = g.data
  BY DEF Sound, FileType
<1>4. PICK p \in Nat : p = g.offset
  BY DEF Sound, FileType
<1>5. \A i \in 1 .. Len(s) : p + i <= Len(d) /\ s[i] = d[p + i]
  <2>1. \A i \in 1 .. Len(s) : s[i] = g.buffer[i] /\ i \in 1 .. g.buffer_end
    <3>1. /\ Len(s) = IF Flushes(g) THEN g.buffer_end ELSE 0
          /\ \A i \in 1 .. Len(s) : s[i] = g.buffer[i]
      BY <1>2, MappedTypes
    <3> QED BY <3>1
  <2> QED BY <1>3, <1>4, <2>1 DEF InPlace
<1>6. Overwrite(d, p, s) = d
  BY <1>5, OverwriteSame
<1> QED BY <1>1, <1>2, <1>3, <1>4, <1>6 DEF Shown

---------------------------------------------------------------------------
(* b is what a plain file d gives when n bytes are read at p.              *)
IsRead(b, d, p, n) ==
    /\ b \in Seq(Byte) /\ Len(b) = Available(Len(d), p, n)
    /\ \A i \in 1 .. Len(b) : p + i <= Len(d) /\ b[i] = d[p + i]

(* There is one answer.                                                    *)
LEMMA OneRead ==
  ASSUME NEW d \in Seq(Byte), NEW p \in Nat, NEW n \in Nat, NEW b, IsRead(b, d, p, n)
  PROVE  b = SubSeq(d, p + 1, Min({p + n, Len(d)}))
<1>1. PICK l \in Nat : l = Len(d)
  OBVIOUS
<1>2. PICK m : m = Min({p + n, l})
  OBVIOUS
<1>3. m = (IF p + n <= l THEN p + n ELSE l) /\ m \in Nat
  <2>1. PICK a \in Int : a = p + n
    OBVIOUS
  <2>2. l \in Int
    OBVIOUS
  <2>3. Min({a, l}) = IF a <= l THEN a ELSE l
    BY <2>1, <2>2, MaxMinFacts, Zenon
  <2> QED BY <1>2, <2>1, <2>3
<1>4. PICK s : s = SubSeq(d, p + 1, m)
  OBVIOUS
<1>5. m <= Len(d)
  BY <1>1, <1>3
<1>6. s \in Seq(Byte) /\ Len(s) = IF p < m THEN m - p ELSE 0
  BY <1>3, <1>4, <1>5, PartFacts
<1>7. b \in Seq(Byte) /\ Len(b) = Len(s)
  BY <1>1, <1>3, <1>6 DEF IsRead, Available
<1>8. ASSUME NEW i \in 1 .. Len(b) PROVE b[i] = s[i]
  <2>1. b[i] = d[p + i]
    BY DEF IsRead
  <2> QED BY <1>1, <1>3, <1>4, <1>6, <1>7, <2>1
<1>9. b = s
  BY <1>6, <1>7, <1>8, SameBytes
<1> QED BY <1>1, <1>2, <1>4, <1>9

(* A sequence behind another.                                              *)
LEMMA ConcatFacts ==
  ASSUME NEW a \in Seq(Byte), NEW b \in Seq(Byte)
  PROVE  /\ a \o b \in Seq(Byte) /\ Len(a \o b) = Len(a) + Len(b)
         /\ \A i \in 1 .. Len(a) + Len(b) :
               (a \o b)[i] = IF i <= Len(a) THEN a[i] ELSE b[i - Len(a)]
  BY ONLY a \in Seq(Byte), b \in Seq(Byte), ConcatProperties, SMT

(* ... and three of them.                                                  *)
LEMMA ConcatThrice ==
  ASSUME NEW a \in Seq(Byte), NEW b \in Seq(Byte), NEW c \in Seq(Byte)
  PROVE  (a \o b) \o c = a \o (b \o c)
  BY ConcatAssociative

(* Reading in two parts.                                                   *)
LEMMA ReadOn ==
  ASSUME NEW d \in Seq(Byte), NEW p \in Nat, NEW n \in Nat, NEW a, NEW b,
         NEW k \in Nat, k <= n, IsRead(a, d, p, k), Len(a) = k,
         IsRead(b, d, p + k, n - k)
  PROVE  IsRead(a \o b, d, p, n)
<1>1. PICK l \in Nat : l = Len(d)
  OBVIOUS
<1>2. a \in Seq(Byte) /\ b \in Seq(Byte)
  BY DEF IsRead
<1>3. PICK c : c = a \o b
  OBVIOUS
<1>4. PICK j \in Nat : j = Len(b)
  BY <1>2
<1>5. /\ c \in Seq(Byte) /\ Len(c) = k + j
      /\ \A i \in 1 .. k + j : c[i] = IF i <= k THEN a[i] ELSE b[i - k]
  BY <1>2, <1>3, <1>4, ConcatFacts
<1>6. k = Available(l, p, k) /\ j = Available(l, p + k, n - k)
  BY <1>1, <1>4 DEF IsRead
<1>7. Len(c) = Available(l, p, n)
  BY <1>5, <1>6 DEF Available
<1>8. ASSUME NEW i \in 1 .. Len(c) PROVE p + i <= l /\ c[i] = d[p + i]
  <2>1. CASE i <= k
    <3>1. i \in 1 .. Len(a) /\ c[i] = a[i]
      BY <1>5, <2>1
    <3> QED BY <1>1, <3>1 DEF IsRead
  <2>2. CASE ~(i <= k)
    <3>1. i - k \in 1 .. Len(b) /\ c[i] = b[i - k]
      BY <1>4, <1>5, <2>2
    <3>2. (p + k) + (i - k) <= l /\ b[i - k] = d[(p + k) + (i - k)]
      BY <1>1, <3>1 DEF IsRead
    <3>3. (p + k) + (i - k) = p + i
      BY <1>5
    <3> QED BY <3>1, <3>2, <3>3
  <2> QED BY <2>1, <2>2
<1> QED BY <1>1, <1>3, <1>5, <1>7, <1>8 DEF IsRead

(* A stream that can be read.                                              *)
Reads(g) ==
    /\ Sound(g) /\ g.mode \in {"r", "r+", "w+"}
    /\ g.mode = "r" => InPlace(g)

(* What fread takes from the buffer is what is in the file that a caller   *)
(* sees.                                                                   *)
LEMMA BufferedBytes ==
  ASSUME NEW g, Reads(g), g.allocated, NEW n \in Nat, n <= g.buffer_end - g.cursor
  PROVE  /\ IsRead(InBuffer(g, n), Shown(g), At(g), n) /\ Len(InBuffer(g, n)) = n
         /\ At(g) = g.offset + g.cursor
<1>1. /\ Sound(g) /\ g.buffer \in Seq(Byte) /\ g.buffer_end \in Nat /\ g.cursor \in Nat
      /\ g.offset \in Nat /\ g.buffer_end <= Len(g.buffer) /\ g.data \in Seq(Byte)
  BY DEF Reads, Sound, FileType
<1>2. PICK c \in Nat : c = g.cursor
  BY <1>1
<1>3. PICK e \in Nat : e = g.buffer_end
  BY <1>1
<1>4. PICK p \in Nat : p = g.offset
  BY <1>1
<1>5. PICK b \in Seq(Byte) : b = g.buffer
  BY <1>1
<1>6. c + n <= e /\ e <= Len(b)
  BY <1>1, <1>2, <1>3, <1>5
<1>7. PICK d \in Seq(Byte) : d = Shown(g)
  BY <1>1, MappedTypes
<1>8. At(g) = p + c
  BY <1>2, <1>4 DEF Reads, At, Base, Appends
<1>9. \A i \in 1 .. e : p + i <= Len(d) /\ b[i] = d[p + i]
  <2>1. CASE g.mode = "r"
    <3>1. Shown(g) = g.data
      BY <1>1, <2>1, EmptyShown
    <3> QED BY <1>3, <1>4, <1>5, <1>7, <2>1, <3>1 DEF Reads, InPlace
  <2>2. CASE g.mode # "r"
    <3>1. Flushes(g) /\ ~Appends(g.mode)
      BY <2>2 DEF Reads, Flushes, Appends, Writable
    <3>2. PICK s : s = Held(g)
      OBVIOUS
    <3>3. s \in Seq(Byte) /\ Len(s) = e /\ \A i \in 1 .. e : s[i] = b[i]
      BY <1>1, <1>3, <1>5, <3>1, <3>2, MappedTypes
    <3>4. d = Overwrite(g.data, p, s)
      BY <1>4, <1>7, <3>1, <3>2 DEF Shown, Base
    <3>5. CASE s = <<>>
      <4>1. e = 0
        BY <3>3, <3>5
      <4> QED BY <4>1
    <3>6. CASE s # <<>>
      <4>1. /\ Len(d) = IF Len(g.data) >= p + Len(s) THEN Len(g.data) ELSE p + Len(s)
            /\ \A i \in 1 .. Len(d) :
                  d[i] = IF i \in p + 1 .. p + Len(s) THEN s[i - p]
                         ELSE IF i <= Len(g.data) THEN g.data[i] ELSE ZERO
        <5>1. PICK x \in Seq(Byte) : x = g.data
          BY <1>1
        <5>2. d = Overwrite(x, p, s)
          BY <3>4, <5>1
        <5>3. s \in Seq(Byte)
          BY <3>3
        <5>4. /\ Len(d) = IF Len(x) >= p + Len(s) THEN Len(x) ELSE p + Len(s)
              /\ \A i \in 1 .. Len(d) :
                    d[i] = IF i \in p + 1 .. p + Len(s) THEN s[i - p]
                           ELSE IF i <= Len(x) THEN x[i] ELSE ZERO
          BY <3>6, <5>2, <5>3, OverwriteLen
        <5> QED BY <5>1, <5>4
      <4>2. PICK l \in Nat : l = Len(g.data)
        BY <1>1
      <4>3. p + e <= Len(d)
        BY <3>3, <4>1, <4>2
      <4>4. ASSUME NEW i \in 1 .. e PROVE p + i <= Len(d) /\ b[i] = d[p + i]
        <5>1. p + i <= Len(d) /\ p + i \in 1 .. Len(d) /\ p + i \in p + 1 .. p + Len(s)
          BY <3>3, <4>3
        <5>2. d[p + i] = s[(p + i) - p] /\ (p + i) - p = i
          BY <4>1, <5>1
        <5> QED BY <3>3, <5>1, <5>2
      <4> QED BY <4>4
    <3> QED BY <3>5, <3>6
  <2> QED BY <2>1, <2>2
<1>10. PICK s : s = InBuffer(g, n)
  OBVIOUS
<1>11. s = SubSeq(b, c + 1, c + n)
  BY <1>2, <1>5, <1>10 DEF InBuffer
<1>12. s \in Seq(Byte) /\ Len(s) = n
  <2>1. c + n \in Nat /\ c + n <= Len(b)
    BY <1>6
  <2>2. s \in Seq(Byte) /\ Len(s) = IF c < c + n THEN (c + n) - c ELSE 0
    BY <1>11, <2>1, PartFacts
  <2> QED BY <2>2
<1>13. \A i \in 1 .. n : s[i] = b[c + i]
  <2>1. c + n <= Len(b)
    BY <1>6
  <2> QED BY <1>11, <2>1
<1>14. ASSUME NEW i \in 1 .. n PROVE (p + c) + i <= Len(d) /\ s[i] = d[(p + c) + i]
  <2>1. c + i \in 1 .. e /\ p + (c + i) = (p + c) + i
    BY <1>6
  <2> QED BY <1>9, <1>13, <2>1
<1>15. n = Available(Len(d), p + c, n)
  <2>1. CASE n = 0
    BY <2>1 DEF Available
  <2>2. CASE n # 0
    <3>1. (p + c) + n <= Len(d)
      BY <1>14, <2>2
    <3> QED BY <3>1 DEF Available
  <2> QED BY <2>1, <2>2
<1> QED BY <1>2, <1>4, <1>7, <1>8, <1>10, <1>12, <1>14, <1>15 DEF IsRead

---------------------------------------------------------------------------
(* Two states of a stream that differ in nothing a file has.               *)
Alike(g, h) ==
    /\ Kept(g, h) /\ h.data = g.data /\ h.offset = g.offset
    /\ h.buffer = g.buffer /\ h.buffer_end = g.buffer_end

(* They show the same file.                                                *)
LEMMA AlikeShown ==
  ASSUME NEW g, NEW h, Alike(g, h)
  PROVE  /\ Held(h) = Held(g) /\ Base(h) = Base(g) /\ Shown(h) = Shown(g)
         /\ Reads(g) /\ Sound(h) => Reads(h)
<1>1. Flushes(h) <=> Flushes(g)
  BY DEF Alike, Kept, Flushes
<1>2. Held(h) = Held(g)
  BY <1>1 DEF Alike, Held
<1>3. Base(h) = Base(g)
  BY <1>2 DEF Alike, Kept, Base
<1>4. Shown(h) = Shown(g)
  BY <1>2, <1>3 DEF Alike, Shown
<1>5. Reads(g) /\ Sound(h) => Reads(h)
  BY DEF Alike, Kept, Reads, InPlace
<1> QED BY <1>2, <1>3, <1>4, <1>5

(* The bytes that fread takes from the buffer.                             *)
LEMMA TakeRefines ==
  ASSUME NEW r, Loop(r), Reads(r.f), NEW n \in Nat, n <= r.want,
         n <= r.f.buffer_end - r.f.cursor
  PROVE  LET t == Take(r, n)
         IN  /\ Reads(t.f) /\ Alike(r.f, t.f) /\ At(t.f) = At(r.f) + n
             /\ t.bytes = r.bytes \o InBuffer(r.f, n)
<1>1. PICK t : t = Take(r, n)
  OBVIOUS
<1>2. PICK b : b = r.bytes \o InBuffer(r.f, n)
  OBVIOUS
<1>3. PICK g \in FileType : g = r.f
  BY DEF Loop
<1>4. PICK c \in Nat : c = g.cursor + n
  BY <1>3 DEF FileType
<1>5. PICK h : h = [g EXCEPT !.cursor = c]
  OBVIOUS
<1>6. t = [r EXCEPT !.f = h, !.bytes = b, !.want = @ - n]
  BY <1>1, <1>2, <1>3, <1>4, <1>5 DEF Take
<1>7. t.f = h /\ t.bytes = b
  BY <1>6 DEF Loop
<1>8. Alike(g, h) /\ h.cursor = c
  BY <1>5 DEF FileType, Alike, Kept
<1>9. Sound(t.f)
  BY <1>1, TakeFacts DEF Loop
<1>10. Reads(h) /\ Base(h) = Base(g)
  BY <1>3, <1>7, <1>8, <1>9, AlikeShown
<1>11. Base(g) \in Nat /\ g.cursor \in Nat
  BY <1>3, MappedTypes DEF Reads, FileType
<1>12. At(h) = At(g) + n
  BY <1>4, <1>8, <1>10, <1>11 DEF At
<1> QED BY <1>1, <1>2, <1>3, <1>7, <1>8, <1>10, <1>12

(* When the buffer is drained, the file is the one the caller saw, and the *)
(* offset is where the caller is.                                          *)
LEMMA DrainRefines ==
  ASSUME NEW r, Loop(r), Reads(r.f), r.f.buffer_end - r.f.cursor < r.want,
         NEW n, n = r.f.buffer_end - r.f.cursor
  PROVE  LET d == Drain(r)
         IN  /\ d.f.data = Shown(r.f) /\ d.f.offset = At(r.f) + n /\ Kept(r.f, d.f)
             /\ d.bytes = r.bytes \o InBuffer(r.f, n)
<1>1. n \in Nat /\ n <= r.want /\ n <= r.f.buffer_end - r.f.cursor
  BY DEF Loop, Sound, FileType
<1>2. PICK t : t = Take(r, n)
  OBVIOUS
<1>3. /\ Reads(t.f) /\ Alike(r.f, t.f) /\ At(t.f) = At(r.f) + n
      /\ t.bytes = r.bytes \o InBuffer(r.f, n)
  BY <1>1, <1>2, TakeRefines
<1>4. Loop(t) /\ t.f.cursor = r.f.cursor + n /\ t.f.buffer_end = r.f.buffer_end
  BY <1>1, <1>2, TakeFacts
<1>5. PICK x : x = t.f
  OBVIOUS
<1>6. /\ Sound(x) /\ x \in FileType /\ x.allocated /\ x.cursor = x.buffer_end
      /\ x.buffer_end \in Nat /\ x.buffer_end <= Len(x.buffer)
  <2>1. r.f.cursor \in Nat /\ r.f.buffer_end \in Nat
    BY DEF Loop, FileType
  <2>2. Sound(x) /\ x \in FileType /\ x.allocated /\ x.cursor = x.buffer_end
    BY <1>4, <1>5, <2>1 DEF Loop
  <2> QED BY <2>2 DEF Sound, FileType
<1>7. PICK g : g = IF Writable(x.mode) THEN buffer_to_file_write(x, x.cursor)
                                       ELSE buffer_clear_and_sync(x, BUFSIZE)
  OBVIOUS
<1>8. PICK d : d = Drain(r)
  OBVIOUS
<1>9. d = [t EXCEPT !.f = g]
  BY <1>2, <1>5, <1>7, <1>8 DEF Drain
<1>10. d.f = g /\ d.bytes = t.bytes
  BY <1>4, <1>9 DEF Loop
<1>11. g.data = Shown(x) /\ g.offset = At(x) /\ Kept(x, g)
  <2>1. CASE x.mode = "r"
    <3>1. g = buffer_clear_and_sync(x, BUFSIZE)
      BY <1>7, <2>1 DEF Writable
    <3>2. g.data = x.data /\ g.offset = x.offset + x.cursor /\ Kept(x, g)
      BY <1>6, <3>1, ClearEffect, ByteFacts
    <3> QED BY <1>6, <2>1, <3>2, EmptyShown
  <2>2. CASE x.mode # "r"
    <3>1. g = buffer_to_file_write(x, x.buffer_end)
      BY <1>6, <1>7, <2>2 DEF Writable
    <3>2. Flushes(x) /\ ~Appends(x.mode)
      BY <1>3, <1>5, <1>6, <2>2 DEF Reads, Flushes, Appends, Writable
    <3>3. PICK s : s = SubSeq(x.buffer, 1, x.buffer_end)
      OBVIOUS
    <3>4. /\ g.data = Overwrite(x.data, WriteAt(x, s), s)
          /\ g.offset = WriteAt(x, s) + x.cursor /\ Kept(x, g)
      BY <1>6, <3>1, <3>3, FlushEffect
    <3>5. Held(x) = s /\ Base(x) = WriteAt(x, s)
      BY <3>2, <3>3 DEF Held, Base, WriteAt
    <3> QED BY <3>4, <3>5 DEF Shown, At
  <2> QED BY <2>1, <2>2
<1>12. Shown(x) = Shown(r.f) /\ Kept(r.f, g)
  BY <1>3, <1>5, <1>11, AlikeShown DEF Alike, Kept
<1> QED BY <1>3, <1>5, <1>8, <1>10, <1>11, <1>12

(* What the read loop has done to a stream that showed the file d at p.    *)
ReadSoFar(t, d, p, x) ==
    /\ Loop(t) /\ Reads(t.f) /\ t.count = EOF
    /\ t.over \/ t.want = 0
    /\ Shown(t.f) = d /\ At(t.f) = p + Len(x)

(* The last bytes come from the next buffer.                               *)
LEMMA TakeFromNextRefines ==
  ASSUME NEW r, GoesOn(r), r.want < BUFSIZE, r.f.mode \in {"r", "r+", "w+"}
  PROVE  LET t == TakeFromNext(r)
         IN  \E x : /\ IsRead(x, r.f.data, r.f.offset, r.want)
                    /\ ReadSoFar(t, r.f.data, r.f.offset, x)
                    /\ t.bytes = r.bytes \o x /\ t.want = r.want - Len(x)
                    /\ Kept(r.f, t.f)
<1>1. /\ Loop(r) /\ Sound(r.f) /\ r.f.allocated /\ r.want \in Nat /\ r.count = EOF
      /\ r \in [f : FileType, want : Nat, bytes : Seq(Byte), over : BOOLEAN, count : Int]
      /\ r.f.data \in Seq(Byte) /\ r.f.offset \in Nat /\ ~r.over
  BY DEF GoesOn, Loop, FileType
<1>2. PICK g : g = file_to_buffer_read(r.f)
  OBVIOUS
<1>3. PICK n : n = g.buffer_end
  OBVIOUS
<1>4. /\ Sound(g) /\ SameStream(r.f, g) /\ g.cursor = 0 /\ n <= BUFSIZE
  BY <1>1, <1>2, <1>3, RefillSound
<1>5. PICK l \in Nat : l = Len(r.f.data)
  BY <1>1
<1>6. PICK o \in Nat : o = r.f.offset
  BY <1>1
<1>7. /\ g.data = r.f.data /\ g.offset = o /\ Kept(r.f, g)
      /\ n = Available(l, o, BUFSIZE) /\ InPlace(g)
  BY <1>1, <1>2, <1>3, <1>5, <1>6, RefillEffect
<1>8. n \in Nat /\ g.allocated /\ g \in FileType /\ g.cursor \in Nat /\ BUFSIZE \in Nat
  BY <1>1, <1>3, <1>4, ByteFacts DEF Sound, FileType, SameStream
<1>9. Reads(g) /\ Shown(g) = r.f.data /\ At(g) = o
  <2>1. g.mode \in {"r", "r+", "w+"} /\ ~Appends(g.mode)
    BY <1>4 DEF SameStream, Appends
  <2>2. Reads(g)
    BY <1>4, <1>7, <2>1 DEF Reads
  <2>3. Shown(g) = g.data /\ At(g) = g.offset + g.cursor
    BY <1>4, <1>7, <2>1, InPlaceShown
  <2> QED BY <1>4, <1>7, <2>2, <2>3
<1>10. PICK h : h = check_eof(g, r.want, n)
  OBVIOUS
<1>11. Reads(h) /\ Alike(g, h) /\ h.cursor = 0 /\ h.buffer_end = n /\ h.allocated
       /\ Shown(h) = r.f.data /\ At(h) = o
  <2>1. PICK e : e = (g.eof_seen /\ r.want > n)
    OBVIOUS
  <2>2. h = [g EXCEPT !.eof = e]
    BY <1>10, <2>1 DEF check_eof
  <2>3. Alike(g, h) /\ h.cursor = g.cursor
    BY <1>8, <2>2 DEF FileType, Alike, Kept
  <2>4. Sound(h)
    BY <1>1, <1>4, <1>8, <1>10, CheckSound
  <2>5. Reads(h) /\ Shown(h) = Shown(g) /\ Base(h) = Base(g)
    BY <1>9, <2>3, <2>4, AlikeShown
  <2>6. At(h) = At(g)
    BY <2>3, <2>5 DEF At
  <2> QED BY <1>3, <1>4, <1>8, <1>9, <2>3, <2>5, <2>6 DEF Alike, Kept
<1> DEFINE Took(t, k) ==
             \E x : /\ IsRead(x, r.f.data, o, r.want) /\ Len(x) = k
                  /\ Loop(t) /\ Reads(t.f) /\ t.count = EOF /\ t.over = r.over
                  /\ Shown(t.f) = r.f.data /\ At(t.f) = o + Len(x)
                  /\ t.bytes = r.bytes \o x /\ t.want = r.want - Len(x)
                  /\ Kept(r.f, t.f)
<1>12. ASSUME NEW k \in Nat, k <= n, k <= r.want, NEW y, y = g \/ y = h,
              k = r.want \/ (k = n /\ n < BUFSIZE), NEW t, t = Take(SetStream(r, y), k)
       PROVE  Took(t, k)
  <2>1. Reads(y) /\ y.allocated /\ y.cursor = 0 /\ y.buffer_end = n /\ Kept(r.f, y)
        /\ Shown(y) = r.f.data /\ At(y) = o /\ Sound(y)
    BY <1>3, <1>4, <1>7, <1>8, <1>9, <1>11, <1>12 DEF Alike, Kept, Reads
  <2>2. PICK q : q = SetStream(r, y)
    OBVIOUS
  <2>3. Loop(q) /\ q.f = y /\ q.bytes = r.bytes /\ q.want = r.want
        /\ q.over = r.over /\ q.count = EOF
    BY <1>1, <2>1, <2>2, StreamField
  <2>4. k <= q.want /\ k <= q.f.buffer_end - q.f.cursor
    BY <1>8, <1>12, <2>1, <2>3
  <2>5. t = Take(q, k)
    BY <1>12, <2>2
  <2>6. Loop(t) /\ t.want = r.want - k /\ t.over = r.over /\ t.count = EOF
    BY <2>3, <2>4, <2>5, TakeFacts
  <2>7. /\ Reads(t.f) /\ Alike(y, t.f) /\ At(t.f) = o + k
        /\ t.bytes = r.bytes \o InBuffer(y, k)
    BY <2>1, <2>3, <2>4, <2>5, TakeRefines
  <2>8. PICK x : x = InBuffer(y, k)
    OBVIOUS
  <2>9. IsRead(x, r.f.data, o, k) /\ Len(x) = k
    <3>1. k <= y.buffer_end - y.cursor
      BY <2>3, <2>4
    <3> QED BY <2>1, <2>8, <3>1, BufferedBytes
  <2>10. k = Available(l, o, r.want)
    <3>1. k = Available(l, o, k)
      BY <1>5, <2>9 DEF IsRead
    <3> QED BY <1>1, <1>7, <1>8, <1>12, <3>1 DEF Available
  <2>11. IsRead(x, r.f.data, o, r.want)
    BY <1>5, <2>9, <2>10 DEF IsRead
  <2>12. Shown(t.f) = r.f.data /\ Kept(r.f, t.f)
    BY <2>1, <2>7, AlikeShown DEF Alike, Kept
  <2> QED BY <2>6, <2>7, <2>8, <2>9, <2>11, <2>12
<1> HIDE DEF Took
<1>13. CASE n < BUFSIZE /\ r.want >= n
  <2>1. PICK t : t = Take(SetStream(r, h), n)
    OBVIOUS
  <2>2. PICK x : /\ IsRead(x, r.f.data, o, r.want) /\ Len(x) = n
                 /\ Loop(t) /\ Reads(t.f) /\ t.count = EOF /\ t.over = r.over
                 /\ Shown(t.f) = r.f.data /\ At(t.f) = o + Len(x)
                 /\ t.bytes = r.bytes \o x /\ t.want = r.want - Len(x)
                 /\ Kept(r.f, t.f)
    <3>1. n \in Nat /\ n <= n /\ n <= r.want /\ (h = g \/ h = h)
          /\ (n = r.want \/ (n = n /\ n < BUFSIZE))
      BY <1>8, <1>13
    <3>2. Took(t, n)
      BY <1>12, <2>1, <3>1
    <3> QED BY <3>2 DEF Took
  <2>3. PICK u : u = [t EXCEPT !.over = TRUE]
    OBVIOUS
  <2>4. TakeFromNext(r) = u
    BY <1>2, <1>3, <1>10, <1>13, <2>1, <2>3 DEF TakeFromNext, SetStream
  <2>5. /\ Loop(u) /\ u.over /\ u.f = t.f /\ u.bytes = t.bytes /\ u.want = t.want
        /\ u.count = EOF
    BY <2>2, <2>3 DEF Loop
  <2>6. ReadSoFar(u, r.f.data, r.f.offset, x)
    BY <1>6, <2>2, <2>5 DEF ReadSoFar
  <2> QED BY <1>6, <2>2, <2>4, <2>5, <2>6
<1>14. CASE ~(n < BUFSIZE /\ r.want >= n)
  <2>1. r.want <= n
    BY <1>1, <1>4, <1>8, <1>14
  <2>2. PICK t : t = Take(SetStream(r, g), r.want)
    OBVIOUS
  <2>3. PICK x : /\ IsRead(x, r.f.data, o, r.want) /\ Len(x) = r.want
                 /\ Loop(t) /\ Reads(t.f) /\ t.count = EOF /\ t.over = r.over
                 /\ Shown(t.f) = r.f.data /\ At(t.f) = o + Len(x)
                 /\ t.bytes = r.bytes \o x /\ t.want = r.want - Len(x)
                 /\ Kept(r.f, t.f)
    <3>1. r.want \in Nat /\ r.want <= n /\ r.want <= r.want /\ (g = g \/ g = h)
          /\ (r.want = r.want \/ (r.want = n /\ n < BUFSIZE))
      BY <1>1, <2>1
    <3>2. PICK k \in Nat : k = r.want
      BY <3>1
    <3>3. t = Take(SetStream(r, g), k)
      BY <2>2, <3>2
    <3>4. k <= n /\ k <= r.want
      BY <3>1, <3>2
    <3>5. k = r.want \/ (k = n /\ n < BUFSIZE)
      BY <3>2
    <3>6. Took(t, k)
      BY <1>12, <3>3, <3>4, <3>5
    <3>7. Took(t, r.want)
      BY <3>2, <3>6
    <3> QED BY <3>7 DEF Took
  <2>4. TakeFromNext(r) = t
    BY <1>2, <1>3, <1>14, <2>2 DEF TakeFromNext, SetStream
  <2>5. t.want = 0
    BY <1>1, <2>3
  <2>6. ReadSoFar(t, r.f.data, r.f.offset, x)
    BY <1>6, <2>3, <2>5 DEF ReadSoFar
  <2> QED BY <1>6, <2>3, <2>4, <2>6
<1> QED BY <1>13, <1>14

(* A call of fread for less than a buffer: one pass of the loop.           *)
LEMMA ReadPass ==
  ASSUME NEW r, GoesOn(r), Reads(r.f), r.want > 0, r.want < BUFSIZE, r.bytes = <<>>
  PROVE  LET t == ReadLoop(r)
         IN  /\ IsRead(t.bytes, Shown(r.f), At(r.f), r.want)
             /\ ReadSoFar(t, Shown(r.f), At(r.f), t.bytes)
             /\ t.want = r.want - Len(t.bytes) /\ Kept(r.f, t.f)
<1>1. /\ Loop(r) /\ Sound(r.f) /\ r.f.allocated /\ r.want \in Nat /\ r.count = EOF /\ ~r.over
      /\ r.f.cursor \in Nat /\ r.f.buffer_end \in Nat /\ r.f.cursor <= r.f.buffer_end
      /\ r.f.mode \in {"r", "r+", "w+"} /\ r.f \in FileType
      /\ r.f.eof_seen \in BOOLEAN
  BY DEF GoesOn, Loop, Reads, Sound, FileType
<1>2. PICK have \in Nat : have = r.f.buffer_end - r.f.cursor
  BY <1>1
<1>3. PICK h : h = check_eof(r.f, r.want, have)
  OBVIOUS
<1>4. PICK c : c = SetStream(r, h)
  OBVIOUS
<1>5. PICK d : d = Drain(c)
  OBVIOUS
<1>6. ReadLoop(r) = IF r.want <= have THEN Take(c, r.want)
                    ELSE IF d.want < BUFSIZE THEN TakeFromNext(d) ELSE ReadDirectly(d)
  BY <1>1, <1>2, <1>3, <1>4, <1>5 DEF ReadLoop, SetStream
<1>7. PICK D \in Seq(Byte) : D = Shown(r.f)
  BY <1>1, MappedTypes
<1>8. PICK p \in Nat : p = At(r.f)
  BY <1>1, MappedTypes
<1>9. Reads(h) /\ Alike(r.f, h) /\ h.cursor = r.f.cursor /\ h.allocated
      /\ Shown(h) = D /\ At(h) = p
  <2>1. PICK e : e = (r.f.eof_seen /\ r.want > have)
    OBVIOUS
  <2>2. h = [r.f EXCEPT !.eof = e]
    BY <1>3, <2>1 DEF check_eof
  <2>3. Alike(r.f, h) /\ h.cursor = r.f.cursor
    BY <1>1, <2>2 DEF FileType, Alike, Kept
  <2>4. Sound(h)
    BY <1>1, <1>3, CheckSound
  <2>5. Reads(h) /\ Shown(h) = Shown(r.f) /\ Base(h) = Base(r.f)
    BY <2>3, <2>4, AlikeShown
  <2>6. At(h) = At(r.f)
    BY <2>3, <2>5 DEF At
  <2> QED BY <1>1, <1>7, <1>8, <2>3, <2>5, <2>6 DEF Alike, Kept
<1>10. Loop(c) /\ c.f = h /\ c.bytes = <<>> /\ c.want = r.want /\ ~c.over /\ c.count = EOF
  BY <1>1, <1>4, <1>9, StreamField DEF Reads
<1>11. c.f.buffer_end - c.f.cursor = have
  BY <1>2, <1>9, <1>10 DEF Alike
<1>12. CASE r.want <= have
  <2>1. PICK t : t = Take(c, r.want)
    OBVIOUS
  <2>2. PICK k \in Nat : k = r.want
    BY <1>1
  <2>3. k <= c.want /\ k <= c.f.buffer_end - c.f.cursor
    BY <1>10, <1>11, <1>12, <2>2
  <2>4. Loop(t) /\ t.want = k - k /\ t.count = EOF
    BY <1>10, <2>1, <2>2, <2>3, TakeFacts
  <2>5. /\ Reads(t.f) /\ Alike(h, t.f) /\ At(t.f) = p + k
        /\ t.bytes = <<>> \o InBuffer(h, k)
    BY <1>9, <1>10, <2>1, <2>2, <2>3, TakeRefines
  <2>6. IsRead(InBuffer(h, k), D, p, k) /\ Len(InBuffer(h, k)) = k
    <3>1. k <= h.buffer_end - h.cursor
      BY <1>10, <2>3
    <3> QED BY <1>9, <3>1, BufferedBytes
  <2>7. t.bytes = InBuffer(h, k)
    <3>1. InBuffer(h, k) \in Seq(Byte)
      BY <2>6 DEF IsRead
    <3> QED BY <2>5, <3>1, ConcatEmptySeq
  <2>8. Shown(t.f) = D /\ Kept(r.f, t.f) /\ t.want = 0
    <3>1. Shown(t.f) = Shown(h) /\ t.want = 0
      BY <2>4, <2>5, AlikeShown
    <3> QED BY <1>9, <2>5, <3>1 DEF Alike, Kept
  <2>9. ReadSoFar(t, D, p, t.bytes)
    BY <2>4, <2>5, <2>6, <2>7, <2>8 DEF ReadSoFar
  <2>10. ReadLoop(r) = t
    BY <1>6, <1>12, <2>1
  <2> QED BY <1>7, <1>8, <2>2, <2>4, <2>6, <2>7, <2>8, <2>9, <2>10
<1>13. CASE ~(r.want <= have)
  <2>1. c.f.buffer_end - c.f.cursor < c.want /\ have = c.f.buffer_end - c.f.cursor
        /\ have <= r.want
    BY <1>1, <1>10, <1>11, <1>13
  <2>2. /\ Loop(d) /\ ~d.over /\ d.count = EOF /\ d.want = r.want - have
        /\ SameStream(h, d.f)
    BY <1>5, <1>10, <1>11, <2>1, DrainFacts
  <2>3. /\ d.f.data = D /\ d.f.offset = p + have /\ Kept(h, d.f)
        /\ d.bytes = <<>> \o InBuffer(h, have)
    BY <1>5, <1>9, <1>10, <2>1, DrainRefines
  <2>4. PICK a : a = InBuffer(h, have)
    OBVIOUS
  <2>5. IsRead(a, D, p, have) /\ Len(a) = have
    <3>1. have <= h.buffer_end - h.cursor
      BY <1>10, <1>11
    <3> QED BY <1>9, <2>4, <3>1, BufferedBytes
  <2>6. d.bytes = a /\ a \in Seq(Byte)
    <3>1. a \in Seq(Byte)
      BY <2>5 DEF IsRead
    <3> QED BY <2>3, <2>4, <3>1, ConcatEmptySeq
  <2>7. GoesOn(d) /\ d.want \in Nat /\ d.want < BUFSIZE /\ d.f.mode \in {"r", "r+", "w+"}
    <3>1. d.want \in Nat /\ d.want < BUFSIZE
      <4>1. r.want \in Nat /\ have <= r.want /\ d.want = r.want - have /\ BUFSIZE \in Nat
        BY <1>1, <2>1, <2>2, ByteFacts
      <4> QED BY <4>1
    <3>2. d.f.mode \in {"r", "r+", "w+"}
      BY <1>9, <2>3 DEF Kept, Reads
    <3> QED BY <2>2, <3>1, <3>2 DEF GoesOn
  <2>8. PICK t : t = TakeFromNext(d)
    OBVIOUS
  <2>9. PICK x : /\ IsRead(x, d.f.data, d.f.offset, d.want)
                 /\ ReadSoFar(t, d.f.data, d.f.offset, x)
                 /\ t.bytes = d.bytes \o x /\ t.want = d.want - Len(x)
                 /\ Kept(d.f, t.f)
    BY <2>7, <2>8, TakeFromNextRefines
  <2>10. PICK b : b = a \o x
    OBVIOUS
  <2>11. IsRead(b, D, p, r.want)
    BY <1>1, <2>1, <2>2, <2>3, <2>5, <2>9, <2>10, ReadOn
  <2>12. x \in Seq(Byte) /\ Len(x) \in Nat /\ Len(b) = have + Len(x)
    <3>1. x \in Seq(Byte)
      BY <2>9 DEF IsRead
    <3> QED BY <2>5, <2>6, <2>10, <3>1, ConcatFacts
  <2>13. t.bytes = b /\ t.want = r.want - Len(b)
    <3>1. t.bytes = b /\ t.want = (r.want - have) - Len(x)
      BY <2>2, <2>6, <2>9, <2>10
    <3> QED BY <1>1, <2>12, <3>1
  <2>14. ReadSoFar(t, D, p, b)
    <3>1. At(t.f) = (p + have) + Len(x) /\ Shown(t.f) = D
      BY <2>3, <2>9 DEF ReadSoFar
    <3>2. At(t.f) = p + Len(b)
      BY <2>12, <3>1
    <3> QED BY <2>9, <3>1, <3>2 DEF ReadSoFar
  <2>15. Kept(r.f, t.f)
    BY <1>9, <2>3, <2>9 DEF Alike, Kept
  <2>16. ReadLoop(r) = t
    BY <1>6, <1>13, <2>7, <2>8
  <2> QED BY <1>7, <1>8, <2>11, <2>13, <2>14, <2>15, <2>16
<1> QED BY <1>12, <1>13

(* A stream without a buffer gets one, and shows the same file.            *)
LEMMA AllocateRefines ==
  ASSUME NEW g, Reads(g), ~g.allocated
  PROVE  LET h == file_to_buffer_read(do_allocate_buffer(g))
         IN  /\ Reads(h) /\ h.allocated /\ h.exists = g.exists /\ h.mode = g.mode
             /\ Shown(h) = Shown(g) /\ At(h) = At(g)
<1>1. PICK x : x = do_allocate_buffer(g)
  OBVIOUS
<1>2. g \in FileType /\ Sound(g) /\ ~Appends(g.mode)
  BY DEF Reads, Sound, Appends
<1>3. Sound(x) /\ x.mode = g.mode /\ x.allocated
  BY <1>1, <1>2, AllocateSound
<1>4. x.data = g.data /\ x.offset = g.offset /\ x.exists = g.exists
  <2>1. x = [g EXCEPT !.allocated = TRUE, !.buffer = Junk(BUFSIZE)]
    BY <1>1 DEF do_allocate_buffer
  <2> QED BY <1>2, <2>1 DEF FileType
<1>5. PICK h : h = file_to_buffer_read(x)
  OBVIOUS
<1>6. Sound(h) /\ SameStream(x, h) /\ h.cursor = 0
  BY <1>3, <1>5, RefillSound
<1>7. h.data = x.data /\ h.offset = x.offset /\ Kept(x, h) /\ InPlace(h)
  BY <1>3, <1>5, RefillEffect
<1>8. Reads(h) /\ h.allocated /\ h.exists = g.exists /\ h.mode = g.mode
  BY <1>3, <1>4, <1>6, <1>7 DEF Reads, Kept
<1>9. Shown(h) = g.data /\ At(h) = g.offset + 0
  BY <1>2, <1>4, <1>6, <1>7, <1>8, InPlaceShown
<1>10. Shown(g) = g.data /\ At(g) = g.offset + 0
  BY <1>2, EmptyShown
<1> QED BY <1>1, <1>5, <1>8, <1>9, <1>10

(* fread for less than a buffer returns what is in the file the caller     *)
(* sees, at the position it is at, and moves it behind.                    *)
LEMMA FreadRefines ==
  ASSUME NEW g, Reads(g), NEW n \in Nat, n > 0, n < BUFSIZE
  PROVE  LET r == fread_sub_program1(g, n)
         IN  /\ IsRead(r.bytes, Shown(g), At(g), n) /\ r.count = Len(r.bytes)
             /\ Reads(r.f) /\ r.f.exists = g.exists /\ r.f.mode = g.mode
             /\ Shown(r.f) = Shown(g) /\ At(r.f) = At(g) + Len(r.bytes)
<1>1. PICK x : x = IF g.allocated THEN g ELSE file_to_buffer_read(do_allocate_buffer(g))
  OBVIOUS
<1>2. /\ Reads(x) /\ x.allocated /\ x.exists = g.exists /\ x.mode = g.mode
      /\ Shown(x) = Shown(g) /\ At(x) = At(g)
  <2>1. CASE g.allocated
    BY <1>1, <2>1
  <2>2. CASE ~g.allocated
    BY <1>1, <2>2, AllocateRefines
  <2> QED BY <2>1, <2>2
<1>3. PICK r0 : r0 = [f |-> x, want |-> n, bytes |-> <<>>, over |-> FALSE, count |-> EOF]
  OBVIOUS
<1>4. GoesOn(r0) /\ r0.f = x /\ r0.want = n /\ r0.bytes = <<>>
  <2>1. x \in FileType /\ EOF \in Int /\ Sound(x) /\ <<>> \in Seq(Byte)
    BY <1>2, ByteFacts DEF Reads, Sound, EOF
  <2> QED BY <1>2, <1>3, <2>1 DEF GoesOn, Loop
<1>5. PICK r1 : r1 = ReadLoop(r0)
  OBVIOUS
<1>6. /\ IsRead(r1.bytes, Shown(x), At(x), n)
      /\ ReadSoFar(r1, Shown(x), At(x), r1.bytes)
      /\ r1.want = n - Len(r1.bytes) /\ Kept(x, r1.f)
  BY <1>2, <1>4, <1>5, ReadPass
<1>7. ReadLoop(r1) = r1
  BY <1>6 DEF ReadSoFar, ReadLoop
<1>8. PICK k : k = n - r1.want
  OBVIOUS
<1>9. k = Len(r1.bytes) /\ k \in Nat
  <2>1. Len(r1.bytes) \in Nat
    BY <1>6 DEF IsRead
  <2> QED BY <1>6, <1>8, <2>1
<1>10. PICK r : r = fread_sub_program1(g, n)
  OBVIOUS
<1>11. r = [r1 EXCEPT !.count = k]
  <2>1. r = [r1 EXCEPT !.count = IF @ = EOF THEN n - r1.want ELSE @]
    BY <1>1, <1>3, <1>5, <1>7, <1>10 DEF fread_sub_program1
  <2>2. r1.count = EOF /\ Loop(r1)
    BY <1>6 DEF ReadSoFar
  <2> QED BY <1>8, <2>1, <2>2
<1>12. r.f = r1.f /\ r.bytes = r1.bytes /\ r.count = k
  BY <1>6, <1>11 DEF ReadSoFar, Loop
<1> QED BY <1>2, <1>6, <1>9, <1>10, <1>12 DEF ReadSoFar, Kept

---------------------------------------------------------------------------
(* A sequence cut in two.                                                  *)
LEMMA SplitFacts ==
  ASSUME NEW s \in Seq(Byte), NEW n \in Nat, n <= Len(s)
  PROVE  /\ SubSeq(s, 1, n) \in Seq(Byte) /\ Len(SubSeq(s, 1, n)) = n
         /\ SubSeq(s, n + 1, Len(s)) \in Seq(Byte)
         /\ SubSeq(s, 1, n) \o SubSeq(s, n + 1, Len(s)) = s
         /\ \A i \in 1 .. n : SubSeq(s, 1, n)[i] = s[i]
<1>1. PICK a : a = SubSeq(s, 1, n)
  OBVIOUS
<1>2. PICK b : b = SubSeq(s, n + 1, Len(s))
  OBVIOUS
<1>3. PICK l \in Nat : l = Len(s)
  OBVIOUS
<1>4. a \in Seq(Byte) /\ Len(a) = n
  <2>1. SubSeq(s, 0 + 1, n) \in Seq(Byte)
        /\ Len(SubSeq(s, 0 + 1, n)) = IF 0 < n THEN n - 0 ELSE 0
    BY PartFacts
  <2> QED BY <1>1, <2>1
<1>5. b \in Seq(Byte) /\ Len(b) = l - n
  <2>1. b \in Seq(Byte) /\ Len(b) = IF n < l THEN l - n ELSE 0
    BY <1>2, <1>3, PartFacts
  <2> QED BY <1>3, <2>1
<1>6. \A i \in 1 .. n : a[i] = s[i]
  BY <1>1, <1>4
<1>7. \A i \in 1 .. l - n : b[i] = s[n + i]
  BY <1>2, <1>3, <1>5
<1>8. PICK c : c = a \o b
  OBVIOUS
<1>9. /\ c \in Seq(Byte) /\ Len(c) = l
      /\ \A i \in 1 .. l : c[i] = IF i <= n THEN a[i] ELSE b[i - n]
  <2>1. /\ c \in Seq(Byte) /\ Len(c) = Len(a) + Len(b)
        /\ \A i \in 1 .. Len(a) + Len(b) :
              c[i] = IF i <= Len(a) THEN a[i] ELSE b[i - Len(a)]
    BY <1>4, <1>5, <1>8, ConcatFacts
  <2> QED BY <1>3, <1>4, <1>5, <2>1
<1>10. ASSUME NEW i \in 1 .. Len(c) PROVE c[i] = s[i]
  <2>1. CASE i <= n
    BY <1>6, <1>9, <2>1
  <2>2. CASE ~(i <= n)
    <3>1. i - n \in 1 .. l - n /\ n + (i - n) = i
      BY <1>9, <2>2
    <3>2. b[i - n] = s[i]
      BY <1>7, <3>1
    <3> QED BY <1>9, <2>2, <3>2
  <2> QED BY <2>1, <2>2
<1>11. c = s
  BY <1>3, <1>9, <1>10, SameBytes
<1> QED BY <1>1, <1>2, <1>4, <1>5, <1>6, <1>8, <1>11

(* What a plain file d becomes, and the position p in it, when s is put    *)
(* into a stream of mode m.                                                *)
IsPut(m, d, p, s, e, q) ==
    IF s = <<>> THEN e = d /\ q = p
    ELSE LET at == IF Appends(m) THEN Len(d) ELSE p
         IN  e = Overwrite(d, at, s) /\ q = at + Len(s)

(* Writing in two parts.                                                   *)
LEMMA PutOn ==
  ASSUME NEW m, NEW d \in Seq(Byte), NEW p \in Nat, NEW s \in Seq(Byte), NEW e, NEW q,
         NEW u \in Seq(Byte), NEW h, NEW o, IsPut(m, d, p, s, e, q), IsPut(m, e, q, u, h, o)
  PROVE  IsPut(m, d, p, s \o u, h, o)
<1>1. CASE s = <<>>
  <2>1. s \o u = u
    BY <1>1, ConcatEmptySeq
  <2> QED BY <1>1, <2>1 DEF IsPut
<1>2. CASE u = <<>>
  <2>1. s \o u = s
    BY <1>2, ConcatEmptySeq
  <2> QED BY <1>2, <2>1 DEF IsPut
<1>3. CASE s # <<>> /\ u # <<>>
  <2>1. PICK at \in Nat : at = IF Appends(m) THEN Len(d) ELSE p
    OBVIOUS
  <2>2. PICK k \in Nat : k = Len(s)
    OBVIOUS
  <2>3. e = Overwrite(d, at, s) /\ q = at + k
    BY <1>3, <2>1, <2>2 DEF IsPut
  <2>4. Appends(m) => Len(e) = at + k
    <3>1. CASE Appends(m)
      <4>1. Len(e) = IF Len(d) >= at + Len(s) THEN Len(d) ELSE at + Len(s)
        BY <1>3, <2>3, OverwriteLen
      <4>2. PICK l \in Nat : l = Len(d)
        OBVIOUS
      <4> QED BY <2>1, <2>2, <3>1, <4>1, <4>2
    <3> QED BY <3>1
  <2>5. h = Overwrite(e, at + k, u) /\ o = (at + k) + Len(u)
    BY <1>3, <2>3, <2>4 DEF IsPut
  <2>6. PICK v : v = s \o u
    OBVIOUS
  <2>7. /\ v \in Seq(Byte) /\ Len(v) = Len(s) + Len(u)
        /\ \A i \in 1 .. Len(s) + Len(u) : v[i] = IF i <= Len(s) THEN s[i] ELSE u[i - Len(s)]
    BY <2>6, ConcatFacts
  <2>8. PICK j \in Nat : j = Len(u)
    OBVIOUS
  <2>9. Patched(v, s, k, u)
    BY <2>2, <2>7, <2>8 DEF Patched
  <2>10. Overwrite(e, at + k, u) = Overwrite(d, at, v)
    <3>1. k <= Len(s)
      BY <2>2
    <3> QED BY <1>3, <2>3, <2>7, <2>9, <3>1, OverwriteTwice
  <2>11. v # <<>> /\ o = at + Len(v)
    <3>1. k # 0
      BY <1>3, <2>2
    <3>2. Len(v) = k + j
      BY <2>2, <2>7, <2>8
    <3>3. Len(v) # 0
      BY <3>1, <3>2
    <3> QED BY <2>5, <2>8, <3>2, <3>3, ByteFacts
  <2> QED BY <2>1, <2>5, <2>6, <2>10, <2>11 DEF IsPut
<1> QED BY <1>1, <1>2, <1>3

(* A stream that is being written.                                         *)
Writes(g) ==
    /\ Sound(g) /\ g.allocated /\ g.mode \in {"r+", "w", "w+", "a"}
    /\ g.mode = "a" => g.cursor = g.buffer_end /\ g.write_start

(* All that its buffer holds will be in the file.                          *)
LEMMA WritesFacts ==
  ASSUME NEW g, Writes(g)
  PROVE  /\ Flushes(g) /\ Sound(g) /\ g.buffer_end \in Nat /\ g.cursor \in Nat
         /\ g.offset \in Nat /\ g.data \in Seq(Byte) /\ g.buffer \in Seq(Byte)
         /\ Len(g.buffer) = BUFSIZE /\ BUFSIZE \in Nat /\ BUFSIZE > 0
         /\ g.cursor <= g.buffer_end /\ g.buffer_end <= BUFSIZE
         /\ (Appends(g.mode) <=> g.mode = "a") /\ g \in FileType
<1>1. Sound(g) /\ g \in FileType /\ BUFSIZE \in Nat /\ BUFSIZE > 0 /\ g.allocated
  BY ByteFacts DEF Writes, Sound
<1>2. g.buffer_end \in Nat /\ g.cursor \in Nat /\ g.offset \in Nat
      /\ g.data \in Seq(Byte) /\ g.buffer \in Seq(Byte)
  BY <1>1 DEF FileType
<1>3. Len(g.buffer) = BUFSIZE /\ g.cursor <= g.buffer_end /\ g.buffer_end <= BUFSIZE
  BY <1>1 DEF Sound
<1>4. Flushes(g) /\ (Appends(g.mode) <=> g.mode = "a")
  BY DEF Writes, Flushes, Appends, Writable
<1> QED BY <1>1, <1>2, <1>3, <1>4

(* Bytes put into the buffer are bytes written to the file a caller sees.  *)
LEMMA PutRefines ==
  ASSUME NEW r, Puts(r), Writes(r.f), NEW n \in Nat, n <= Len(r.todo),
         r.f.cursor + n <= BUFSIZE
  PROVE  LET t == Put(r, n)
         IN  /\ Writes(t.f) /\ Kept(r.f, t.f)
             /\ IsPut(r.f.mode, Shown(r.f), At(r.f), SubSeq(r.todo, 1, n),
                      Shown(t.f), At(t.f))
             /\ t.todo = SubSeq(r.todo, n + 1, Len(r.todo))
<1>1. PICK g : g = r.f
  OBVIOUS
<1>2. /\ Sound(g) /\ Flushes(g) /\ g \in FileType /\ g.allocated
      /\ r.todo \in Seq(Byte) /\ (Appends(g.mode) <=> g.mode = "a")
      /\ Len(g.buffer) = BUFSIZE /\ BUFSIZE \in Nat
      /\ r \in [f : FileType, todo : Seq(Byte)]
  BY <1>1, WritesFacts DEF Puts, Writes
<1>3. PICK c \in Nat : c = g.cursor
  BY <1>1, WritesFacts
<1>4. PICK e \in Nat : e = g.buffer_end
  BY <1>1, WritesFacts
<1>5. c <= e /\ e <= BUFSIZE /\ c + n <= BUFSIZE
  BY <1>1, <1>3, <1>4, WritesFacts
<1>6. PICK b \in Seq(Byte) : b = g.buffer
  BY <1>1, WritesFacts
<1>7. PICK s : s = SubSeq(r.todo, 1, n)
  OBVIOUS
<1>8. s \in Seq(Byte) /\ Len(s) = n /\ \A i \in 1 .. n : s[i] = r.todo[i]
  BY <1>2, <1>7, SplitFacts
<1>9. PICK x : x = Placed(b, c, n, r.todo)
  OBVIOUS
<1>10. /\ x \in Seq(Byte) /\ Len(x) = BUFSIZE
       /\ \A i \in 1 .. BUFSIZE : x[i] = IF i \in c + 1 .. c + n THEN s[i - c] ELSE b[i]
  <2>1. x \in Seq(Byte) /\ Len(x) = Len(b)
    BY <1>2, <1>9, PlacedFacts
  <2>2. DOMAIN b = 1 .. BUFSIZE
    BY <1>2, <1>6
  <2>3. ASSUME NEW i \in 1 .. BUFSIZE
        PROVE  x[i] = IF i \in c + 1 .. c + n THEN s[i - c] ELSE b[i]
    <3>1. x[i] = IF i \in c + 1 .. c + n THEN r.todo[i - c] ELSE b[i]
      BY <1>9, <2>2 DEF Placed
    <3>2. CASE i \in c + 1 .. c + n
      <4>1. i - c \in 1 .. n
        BY <3>2
      <4> QED BY <1>8, <3>1, <3>2, <4>1
    <3> QED BY <3>1, <3>2
  <2> QED BY <1>2, <1>6, <2>1, <2>3
<1>11. PICK k : k = Max({e, c + n})
  OBVIOUS
<1>12. k = (IF e >= c + n THEN e ELSE c + n) /\ k \in Nat /\ k <= BUFSIZE
  <2>1. PICK a \in Int : a = c + n
    OBVIOUS
  <2>2. e \in Int
    OBVIOUS
  <2>3. Max({e, a}) = IF e >= a THEN e ELSE a
    BY <2>1, <2>2, MaxMinFacts, Zenon
  <2> QED BY <1>5, <1>11, <2>1, <2>3
<1>13. PICK h : h = Put3(g, x, c + n, k)
  OBVIOUS
<1>14. PICK t : t = Put(r, n)
  OBVIOUS
<1>15. t = [r EXCEPT !.f = h, !.todo = SubSeq(r.todo, n + 1, Len(r.todo))]
  <2>1. r.f = g /\ g.cursor = c /\ g.buffer = b /\ g.buffer_end = e
    BY <1>1, <1>3, <1>4, <1>6
  <2> QED BY <1>2, <1>9, <1>11, <1>13, <1>14, <2>1 DEF Put, Placed, Put3
<1>16. t.f = h /\ t.todo = SubSeq(r.todo, n + 1, Len(r.todo))
  BY <1>2, <1>15
<1>17. /\ h.data = g.data /\ h.offset = g.offset /\ Kept(g, h)
       /\ h.buffer = x /\ h.buffer_end = k /\ h.cursor = c + n
  BY <1>2, <1>13 DEF Put3, FileType, Kept
<1>18. Sound(h)
  BY <1>1, <1>14, <1>16, PutFacts DEF Puts
<1>19. Writes(h)
  <2>1. g.mode = "a" => c = e /\ g.write_start
    BY <1>1, <1>3, <1>4 DEF Writes
  <2>2. g.mode = "a" => c + n = k
    BY <1>12, <2>1
  <2> QED BY <1>1, <1>17, <1>18, <2>1, <2>2 DEF Writes, Kept
<1>20. PICK W \in Seq(Byte) : W = Held(g)
  BY <1>2, MappedTypes
<1>21. PICK V \in Seq(Byte) : V = Held(h)
  BY <1>18, MappedTypes
<1>22. Len(W) = e /\ \A i \in 1 .. e : W[i] = b[i]
  BY <1>2, <1>4, <1>6, <1>20, MappedTypes
<1>23. Len(V) = k /\ \A i \in 1 .. k : V[i] = x[i]
  BY <1>17, <1>18, <1>19, <1>21, MappedTypes, WritesFacts
<1>24. CASE n = 0
  <2>1. s = <<>>
    BY <1>8, <1>24
  <2>2. Len(V) = Len(W) /\ c + n = c
    BY <1>5, <1>12, <1>22, <1>23, <1>24
  <2>3. \A i \in 1 .. Len(V) : V[i] = W[i]
    <3>1. \A i \in 1 .. k : x[i] = b[i]
      BY <1>10, <1>12, <1>24
    <3> QED BY <1>22, <1>23, <2>2, <3>1
  <2>4. V = W
    BY <2>2, <2>3, SameBytes
  <2>5. Base(h) = Base(g)
    BY <1>17, <1>20, <1>21, <2>4 DEF Base, Kept
  <2>6. Shown(h) = Shown(g) /\ At(h) = At(g)
    BY <1>3, <1>17, <1>20, <1>21, <2>2, <2>4, <2>5 DEF Shown, At
  <2>7. IsPut(g.mode, Shown(g), At(g), s, Shown(h), At(h))
    BY <2>1, <2>6 DEF IsPut
  <2> QED BY <1>1, <1>7, <1>14, <1>16, <1>17, <1>19, <2>7
<1>25. CASE n # 0
  <2>1. s # <<>> /\ V # <<>>
    <3>1. k # 0
      BY <1>12, <1>25
    <3> QED BY <1>8, <1>23, <1>25, <3>1, ByteFacts
  <2>2. PICK at \in Nat : at = IF Appends(g.mode) THEN Len(g.data) ELSE g.offset
    BY <1>2 DEF FileType
  <2>3. PICK D \in Seq(Byte) : D = g.data
    BY <1>2 DEF FileType
  <2>4. Base(h) = at
    BY <1>17, <1>21, <2>1, <2>2 DEF Base, Kept
  <2>5. Shown(h) = Overwrite(D, at, V) /\ At(h) = at + (c + n)
    BY <1>17, <1>21, <2>3, <2>4 DEF Shown, At
  <2>6. Shown(g) = Overwrite(D, at, W)
    <3>1. CASE W = <<>>
      BY <1>20, <2>3, <3>1, OverwriteNone DEF Shown
    <3>2. CASE W # <<>>
      BY <1>20, <2>2, <2>3, <3>2 DEF Shown, Base
    <3> QED BY <3>1, <3>2
  <2>7. Patched(V, W, c, s)
    <3>1. Len(V) = IF Len(W) >= c + Len(s) THEN Len(W) ELSE c + Len(s)
      BY <1>8, <1>12, <1>22, <1>23
    <3>2. ASSUME NEW i \in 1 .. k
          PROVE  V[i] = IF i \in c + 1 .. c + n THEN s[i - c] ELSE W[i]
      <4>1. i \in 1 .. BUFSIZE
        BY <1>2, <1>12
      <4>2. V[i] = IF i \in c + 1 .. c + n THEN s[i - c] ELSE b[i]
        BY <1>10, <1>23, <4>1
      <4>3. i \notin c + 1 .. c + n => i \in 1 .. e
        BY <1>5, <1>12
      <4> QED BY <1>22, <4>2, <4>3
    <3> QED BY <1>8, <1>23, <3>1, <3>2 DEF Patched
  <2>8. Overwrite(Shown(g), at + c, s) = Shown(h)
    <3>1. c <= Len(W)
      BY <1>5, <1>22
    <3> QED BY <1>8, <2>1, <2>5, <2>6, <2>7, <3>1, OverwriteTwice
  <2>9. at + c = IF Appends(g.mode) THEN Len(Shown(g)) ELSE At(g)
    <3>1. CASE Appends(g.mode)
      <4>1. c = e
        BY <1>1, <1>2, <1>3, <1>4, <3>1 DEF Writes
      <4>2. at = Len(D)
        BY <2>2, <2>3, <3>1
      <4>3. CASE W = <<>>
        <5>1. e = 0 /\ Shown(g) = D
          BY <1>22, <2>6, <4>3, OverwriteNone, ByteFacts
        <5> QED BY <3>1, <4>1, <4>2, <5>1
      <4>4. CASE W # <<>>
        <5>1. Len(Shown(g)) = IF Len(D) >= at + Len(W) THEN Len(D) ELSE at + Len(W)
          <6>1. PICK y : y = Overwrite(D, at, W)
            OBVIOUS
          <6>2. Len(y) = IF Len(D) >= at + Len(W) THEN Len(D) ELSE at + Len(W)
            <7>1. D \in Seq(Byte) /\ at \in Nat /\ W \in Seq(Byte)
              OBVIOUS
            <7> QED BY ONLY <4>4, <6>1, <7>1, OverwriteLen, SMT
          <6> QED BY <2>6, <6>1, <6>2
        <5>2. Len(Shown(g)) = at + e
          BY <1>22, <4>2, <5>1
        <5> QED BY <3>1, <4>1, <5>2
      <4> QED BY <4>3, <4>4
    <3>2. CASE ~Appends(g.mode)
      BY <1>3, <2>2, <3>2 DEF At, Base
    <3> QED BY <3>1, <3>2
  <2>10. At(h) = (at + c) + Len(s)
    BY <1>8, <2>5
  <2>11. IsPut(g.mode, Shown(g), At(g), s, Shown(h), At(h))
    BY <2>1, <2>8, <2>9, <2>10 DEF IsPut
  <2> QED BY <1>1, <1>7, <1>14, <1>16, <1>17, <1>19, <2>11
<1> QED BY <1>24, <1>25

(* The buffer that is written out shows the same file.                     *)
LEMMA FlushRefines ==
  ASSUME NEW g, Sound(g), Flushes(g)
  PROVE  LET h == buffer_to_file_write(g, g.buffer_end)
         IN  /\ Sound(h) /\ Kept(g, h) /\ h.cursor = 0 /\ h.buffer_end = 0
             /\ h.data = Shown(g) /\ h.offset = At(g)
             /\ Shown(h) = Shown(g) /\ At(h) = At(g)
<1>1. PICK n \in Nat : n = g.buffer_end
  BY DEF Sound, FileType
<1>2. n <= Len(g.buffer)
  BY <1>1 DEF Sound
<1>3. PICK s : s = SubSeq(g.buffer, 1, n)
  OBVIOUS
<1>4. PICK h : h = buffer_to_file_write(g, n)
  OBVIOUS
<1>5. /\ h.data = Overwrite(g.data, WriteAt(g, s), s)
      /\ h.offset = WriteAt(g, s) + g.cursor /\ Kept(g, h)
  BY <1>2, <1>3, <1>4, FlushEffect
<1>6. Held(g) = s /\ Base(g) = WriteAt(g, s)
  BY <1>1, <1>3 DEF Held, Base, WriteAt
<1>7. h.data = Shown(g) /\ h.offset = At(g)
  BY <1>5, <1>6 DEF Shown, At
<1>8. Sound(h) /\ h.cursor = 0 /\ h.buffer_end = 0
  BY <1>2, <1>4, FlushSound
<1>9. Shown(h) = h.data /\ At(h) = h.offset + 0 /\ h.offset \in Nat
  BY <1>8, EmptyShown DEF Sound, FileType
<1> QED BY <1>1, <1>4, <1>5, <1>7, <1>8, <1>9

(* What the write loop has done between two states of its record: the      *)
(* bytes q left what is still to do and went into the file.                *)
Wrote(r, t, q) ==
    /\ q \in Seq(Byte) /\ r.todo = q \o t.todo /\ Writes(t.f)
    /\ t.f.exists = r.f.exists /\ t.f.mode = r.f.mode
    /\ IsPut(r.f.mode, Shown(r.f), At(r.f), q, Shown(t.f), At(t.f))

(* One step of the loop after another.                                     *)
LEMMA WroteOn ==
  ASSUME NEW r, NEW t, NEW u, NEW q, NEW s, Sound(r.f), u.todo \in Seq(Byte),
         Wrote(r, t, q), Wrote(t, u, s)
  PROVE  Wrote(r, u, q \o s)
<1>1. q \in Seq(Byte) /\ s \in Seq(Byte) /\ q \o s \in Seq(Byte)
  BY ConcatFacts DEF Wrote
<1>2. r.todo = (q \o s) \o u.todo
  <2>1. r.todo = q \o (s \o u.todo)
    BY DEF Wrote
  <2>2. (q \o s) \o u.todo = q \o (s \o u.todo)
    <3>1. q \in Seq(Byte) /\ s \in Seq(Byte) /\ u.todo \in Seq(Byte)
      BY <1>1
    <3>2. PICK z \in Seq(Byte) : z = u.todo
      BY <3>1
    <3>3. (q \o s) \o z = q \o (s \o z)
      BY <3>1, ConcatThrice
    <3> QED BY <3>2, <3>3
  <2> QED BY <2>1, <2>2
<1>3. Shown(r.f) \in Seq(Byte) /\ At(r.f) \in Nat
  BY MappedTypes
<1>4. /\ IsPut(r.f.mode, Shown(r.f), At(r.f), q, Shown(t.f), At(t.f))
      /\ IsPut(r.f.mode, Shown(t.f), At(t.f), s, Shown(u.f), At(u.f))
  BY DEF Wrote
<1>5. IsPut(r.f.mode, Shown(r.f), At(r.f), q \o s, Shown(u.f), At(u.f))
  BY <1>1, <1>3, <1>4, PutOn
<1> QED BY <1>1, <1>2, <1>5 DEF Wrote

(* Put is such a step,                                                     *)
LEMMA PutWrote ==
  ASSUME NEW r, Puts(r), Writes(r.f), NEW n \in Nat, n <= Len(r.todo),
         r.f.cursor + n <= BUFSIZE
  PROVE  Wrote(r, Put(r, n), SubSeq(r.todo, 1, n))
<1>1. PICK t : t = Put(r, n)
  OBVIOUS
<1>2. /\ Writes(t.f) /\ Kept(r.f, t.f)
      /\ IsPut(r.f.mode, Shown(r.f), At(r.f), SubSeq(r.todo, 1, n), Shown(t.f), At(t.f))
      /\ t.todo = SubSeq(r.todo, n + 1, Len(r.todo))
  BY <1>1, PutRefines
<1>3. r.todo \in Seq(Byte)
  BY DEF Puts
<1>4. SubSeq(r.todo, 1, n) \in Seq(Byte) /\ SubSeq(r.todo, 1, n) \o t.todo = r.todo
  BY <1>2, <1>3, SplitFacts
<1> QED BY <1>1, <1>2, <1>4 DEF Wrote, Kept

(* ... and what shows the same file is one with no bytes.                  *)
LEMMA NoneWrote ==
  ASSUME NEW r, NEW t, r.todo \in Seq(Byte), t.todo = r.todo, Writes(t.f),
         t.f.exists = r.f.exists, t.f.mode = r.f.mode,
         Shown(t.f) = Shown(r.f), At(t.f) = At(r.f)
  PROVE  Wrote(r, t, <<>>)
<1>1. <<>> \in Seq(Byte) /\ <<>> \o r.todo = r.todo
  BY ByteFacts, ConcatEmptySeq
<1> QED BY <1>1 DEF Wrote, IsPut

(* The next buffer of a stream that is read and written.                   *)
LEMMA RefillRefines ==
  ASSUME NEW g, Writes(g), g.buffer_end = 0, g.mode # "a"
  PROVE  LET h == file_to_buffer_read(g)
         IN  /\ Writes(h) /\ Kept(g, h) /\ h.cursor = 0
             /\ Shown(h) = Shown(g) /\ At(h) = At(g)
<1>1. Sound(g) /\ g.allocated /\ ~Appends(g.mode)
  BY WritesFacts DEF Writes
<1>2. PICK h : h = file_to_buffer_read(g)
  OBVIOUS
<1>3. Sound(h) /\ h.cursor = 0
  BY <1>1, <1>2, RefillSound
<1>4. h.data = g.data /\ h.offset = g.offset /\ Kept(g, h) /\ InPlace(h)
  BY <1>1, <1>2, RefillEffect
<1>5. Writes(h)
  BY <1>3, <1>4 DEF Writes, Kept
<1>6. Shown(h) = h.data /\ At(h) = h.offset + h.cursor
  BY <1>1, <1>3, <1>4, InPlaceShown DEF Kept
<1>7. Shown(g) = g.data /\ At(g) = g.offset + g.cursor /\ g.cursor = 0
  BY <1>1, EmptyShown
<1> QED BY <1>2, <1>3, <1>4, <1>5, <1>6, <1>7

(* Whole blocks that go to the file at once.                               *)
LEMMA BlocksRefine ==
  ASSUME NEW g, Writes(g), g.buffer_end = 0, NEW s \in Seq(Byte)
  PROVE  LET w == Write(g, s)
         IN  /\ Writes(w) /\ Kept(g, w)
             /\ IsPut(g.mode, Shown(g), At(g), s, Shown(w), At(w))
<1>1. Sound(g) /\ g \in FileType /\ g.allocated
  BY WritesFacts DEF Writes
<1>2. PICK w : w = Write(g, s)
  OBVIOUS
<1>3. Sound(w) /\ w.buffer_end = g.buffer_end /\ w.cursor = g.cursor
  BY <1>1, <1>2, WriteSound
<1>4. /\ WriteAt(g, s) \in Nat /\ w.data = Overwrite(g.data, WriteAt(g, s), s)
      /\ w.offset = WriteAt(g, s) + Len(s) /\ Kept(g, w)
  BY <1>1, <1>2, WriteEffect
<1>5. Writes(w)
  BY <1>3, <1>4 DEF Writes, Kept
<1>6. Shown(w) = w.data /\ At(w) = w.offset + w.cursor /\ w.cursor = 0
  BY <1>3, EmptyShown
<1>7. Shown(g) = g.data /\ At(g) = g.offset + g.cursor /\ g.cursor = 0
  BY <1>1, EmptyShown
<1>8. At(w) = WriteAt(g, s) + Len(s) /\ At(g) = g.offset
  BY <1>1, <1>4, <1>6, <1>7 DEF FileType
<1>9. IsPut(g.mode, Shown(g), At(g), s, Shown(w), At(w))
  <2>1. CASE s = <<>>
    <3>1. w.data = g.data /\ At(w) = g.offset + Len(s) /\ Len(s) = 0 /\ g.offset \in Nat
      BY <1>1, <1>4, <1>8, <2>1, OverwriteNone, ByteFacts DEF WriteAt, FileType
    <3> QED BY <1>6, <1>7, <1>8, <2>1, <3>1 DEF IsPut
  <2>2. CASE s # <<>>
    BY <1>4, <1>6, <1>7, <1>8, <2>2 DEF IsPut, WriteAt
  <2> QED BY <2>1, <2>2
<1> QED BY <1>2, <1>4, <1>5, <1>9

(* One pass of the write loop.                                             *)
LEMMA WritePass ==
  ASSUME NEW r, Puts(r), Writes(r.f)
  PROVE  \E q : Wrote(r, WriteLoop(r), q)
<1>1. /\ Sound(r.f) /\ r.f.allocated /\ r.todo \in Seq(Byte) /\ Len(r.todo) \in Nat
      /\ r \in [f : FileType, todo : Seq(Byte)]
      /\ r.f.cursor \in Nat /\ BUFSIZE \in Nat /\ BUFSIZE > 0 /\ r.f.cursor <= BUFSIZE
  <2>1. Sound(r.f) /\ r.f.allocated /\ r.todo \in Seq(Byte)
        /\ r \in [f : FileType, todo : Seq(Byte)]
    BY DEF Puts
  <2>2. r.f.cursor \in Nat /\ BUFSIZE \in Nat /\ BUFSIZE > 0 /\ r.f.cursor <= BUFSIZE
    BY WritesFacts
  <2> QED BY <2>1, <2>2
<1>2. CASE r.todo = <<>>
  <2>1. WriteLoop(r) = r
    BY <1>2 DEF WriteLoop
  <2>2. Wrote(r, r, <<>>)
    BY <1>1, NoneWrote
  <2> QED BY <2>1, <2>2
<1>3. CASE r.todo # <<>>
  <2>1. PICK have \in Nat : have = BUFSIZE - r.f.cursor
    BY <1>1
  <2>2. CASE Len(r.todo) < have
    <3>1. PICK n \in Nat : n = Len(r.todo)
      BY <1>1
    <3>2. WriteLoop(r) = Put(r, n)
      BY <1>3, <2>1, <2>2, <3>1 DEF WriteLoop
    <3>3. n <= Len(r.todo) /\ r.f.cursor + n <= BUFSIZE
      BY <1>1, <2>1, <2>2, <3>1
    <3> QED BY <3>2, <3>3, PutWrote
  <2>3. CASE ~(Len(r.todo) < have)
    <3>1. PICK u : u = Put(r, have)
      OBVIOUS
    <3>2. have <= Len(r.todo) /\ r.f.cursor + have <= BUFSIZE
      BY <1>1, <2>1, <2>3
    <3>3. PICK q1 : Wrote(r, u, q1)
      BY <3>1, <3>2, PutWrote
    <3>4. Puts(u) /\ u.f.cursor = BUFSIZE
      <4>1. Puts(u) /\ u.f.cursor = r.f.cursor + have
        BY <3>1, <3>2, PutFacts
      <4> QED BY <1>1, <2>1, <4>1
    <3>5. /\ Writes(u.f) /\ u.todo \in Seq(Byte) /\ u \in [f : FileType, todo : Seq(Byte)]
          /\ u.f.buffer_end = BUFSIZE /\ Flushes(u.f) /\ Sound(u.f)
      <4>1. Writes(u.f) /\ u.todo \in Seq(Byte) /\ u \in [f : FileType, todo : Seq(Byte)]
        BY <3>3, <3>4 DEF Wrote, Puts
      <4> QED BY <3>4, <4>1, WritesFacts
    <3>6. PICK g : g = buffer_to_file_write(u.f, BUFSIZE)
      OBVIOUS
    <3>7. /\ Sound(g) /\ Kept(u.f, g) /\ g.cursor = 0 /\ g.buffer_end = 0
          /\ Shown(g) = Shown(u.f) /\ At(g) = At(u.f)
      BY <3>5, <3>6, FlushRefines
    <3>8. Writes(g) /\ g \in FileType
      BY <3>5, <3>7 DEF Writes, Kept, Sound
    <3>9. PICK d : d = [u EXCEPT !.f = g]
      OBVIOUS
    <3>10. d \in [f : FileType, todo : Seq(Byte)] /\ d.f = g /\ d.todo = u.todo
      BY <3>5, <3>8, <3>9
    <3>11. Puts(d)
      BY <3>8, <3>10 DEF Puts, Writes
    <3>12. Wrote(u, d, <<>>)
      BY <3>5, <3>7, <3>8, <3>10, NoneWrote DEF Kept
    <3>13. PICK q2 : Wrote(r, d, q2)
      BY <1>1, <3>3, <3>5, <3>10, <3>12, WroteOn
    <3>14. PICK h : h = IF Readable(g.mode) THEN file_to_buffer_read(g) ELSE g
      OBVIOUS
    <3>15. PICK y : y = [d EXCEPT !.f = h]
      OBVIOUS
    <3>16. PICK l \in Nat : l = Len(d.todo)
      BY <3>10
    <3>17. PICK n : n = l - (l % BUFSIZE)
      OBVIOUS
    <3>18. WriteLoop(r) =
             IF l < BUFSIZE THEN Put(y, l)
             ELSE [d EXCEPT !.f = Write(g, SubSeq(d.todo, 1, n)),
                            !.todo = SubSeq(d.todo, n + 1, l)]
      <4>1. d = [u EXCEPT !.f = buffer_to_file_write(@, BUFSIZE)]
        BY <3>5, <3>6, <3>9
      <4>2. y = [d EXCEPT !.f = IF Readable(@.mode) THEN file_to_buffer_read(@) ELSE @]
        BY <3>10, <3>14, <3>15
      <4>3. WriteLoop(r) =
              IF Len(d.todo) < BUFSIZE THEN Put(y, Len(d.todo))
              ELSE [d EXCEPT !.f = Write(@, SubSeq(d.todo, 1, Len(d.todo) - (Len(d.todo) % BUFSIZE))),
                             !.todo = SubSeq(@, (Len(d.todo) - (Len(d.todo) % BUFSIZE)) + 1, Len(@))]
        BY <1>3, <2>1, <2>3, <3>1, <4>1, <4>2 DEF WriteLoop
      <4> QED BY <3>10, <3>16, <3>17, <4>3
    <3>19. CASE l < BUFSIZE
      <4>1. /\ Writes(h) /\ Kept(g, h) /\ h.cursor = 0
            /\ Shown(h) = Shown(g) /\ At(h) = At(g)
        <5>1. CASE Readable(g.mode)
          <6>1. g.mode # "a"
            BY <5>1 DEF Readable
          <6> QED BY <3>7, <3>8, <3>14, <5>1, <6>1, RefillRefines
        <5>2. CASE ~Readable(g.mode)
          BY <3>7, <3>8, <3>14, <5>2 DEF Kept
        <5> QED BY <5>1, <5>2
      <4>2. h \in FileType
        BY <4>1 DEF Writes, Sound
      <4>3. y \in [f : FileType, todo : Seq(Byte)] /\ y.f = h /\ y.todo = d.todo
        BY <3>10, <3>15, <4>2
      <4>4. Puts(y) /\ Writes(y.f)
        BY <4>1, <4>3 DEF Puts, Writes
      <4>5. Wrote(d, y, <<>>)
        BY <3>10, <4>1, <4>3, NoneWrote DEF Kept
      <4>6. PICK q3 : Wrote(r, y, q3)
        BY <1>1, <3>10, <3>13, <4>3, <4>5, WroteOn
      <4>7. PICK t : t = Put(y, l)
        OBVIOUS
      <4>8. l <= Len(y.todo) /\ y.f.cursor + l <= BUFSIZE
        BY <1>1, <3>16, <3>19, <4>1, <4>3
      <4>9. PICK q4 : Wrote(y, t, q4)
        BY <4>4, <4>7, <4>8, PutWrote
      <4>10. t.todo \in Seq(Byte)
        BY <4>4, <4>7, <4>8, PutFacts DEF Puts
      <4>11. Wrote(r, t, q3 \o q4)
        BY <1>1, <4>6, <4>9, <4>10, WroteOn
      <4> QED BY <3>18, <3>19, <4>7, <4>11
    <3>20. CASE ~(l < BUFSIZE)
      <4>1. n \in Nat /\ n <= l
        <5>1. \A a, b \in Nat : b > 0 => a % b \in Nat /\ a % b < b /\ a % b <= a
          OBVIOUS
        <5>2. PICK m : m = l % BUFSIZE
          OBVIOUS
        <5>3. m \in Nat /\ m <= l
          BY <1>1, <5>1, <5>2
        <5> QED BY <3>17, <5>2, <5>3
      <4>2. PICK s : s = SubSeq(d.todo, 1, n)
        OBVIOUS
      <4>3. PICK z : z = SubSeq(d.todo, n + 1, l)
        OBVIOUS
      <4>4. s \in Seq(Byte) /\ z \in Seq(Byte) /\ s \o z = d.todo
        BY <3>10, <3>16, <4>1, <4>2, <4>3, SplitFacts
      <4>5. PICK w : w = Write(g, s)
        OBVIOUS
      <4>6. /\ Writes(w) /\ Kept(g, w)
            /\ IsPut(g.mode, Shown(g), At(g), s, Shown(w), At(w))
        BY <3>7, <3>8, <4>4, <4>5, BlocksRefine
      <4>7. PICK t : t = [d EXCEPT !.f = w, !.todo = z]
        OBVIOUS
      <4>8. t.f = w /\ t.todo = z
        BY <3>10, <4>7
      <4>9. Wrote(d, t, s)
        BY <3>10, <4>4, <4>6, <4>8 DEF Wrote, Kept
      <4>10. Wrote(r, t, q2 \o s)
        BY <1>1, <3>13, <4>4, <4>8, <4>9, WroteOn
      <4>11. WriteLoop(r) = t
        BY <3>18, <3>20, <4>2, <4>3, <4>5, <4>7
      <4> QED BY <4>10, <4>11
    <3> QED BY <3>19, <3>20
  <2> QED BY <2>2, <2>3
<1> QED BY <1>2, <1>3

(* The first fwrite shows the same file.                                   *)
LEMMA FirstWriteRefines ==
  ASSUME NEW g, Sound(g), g.mode \in {"r+", "w", "w+", "a"},
         g.mode = "a" => g.cursor = g.buffer_end /\ (g.allocated => g.write_start)
  PROVE  LET x == FirstWrite(g)
         IN  /\ Writes(x) /\ x.exists = g.exists /\ x.mode = g.mode
             /\ Shown(x) = Shown(g) /\ At(x) = At(g)
<1>1. CASE g.allocated
  <2>1. FirstWrite(g) = g
    BY <1>1 DEF FirstWrite
  <2> QED BY <1>1, <2>1 DEF Writes
<1>2. CASE ~g.allocated
  <2>1. PICK h : h = do_allocate_buffer(g)
    OBVIOUS
  <2>2. Sound(h) /\ h.mode = g.mode /\ h.allocated /\ h \in FileType /\ g \in FileType
    BY <2>1, AllocateSound DEF Sound
  <2>3. h.data = g.data /\ h.offset = g.offset /\ h.exists = g.exists
        /\ h.cursor = g.cursor /\ h.buffer_end = g.buffer_end
    <3>1. h = [g EXCEPT !.allocated = TRUE, !.buffer = Junk(BUFSIZE)]
      BY <1>2, <2>1 DEF do_allocate_buffer
    <3> QED BY <2>2, <3>1 DEF FileType
  <2>4. Shown(g) = g.data /\ At(g) = g.offset + 0 /\ g.cursor = 0 /\ g.buffer_end = 0
    BY <1>2, EmptyShown
  <2>5. PICK x : x = FirstWrite(g)
    OBVIOUS
  <2>6. CASE g.mode = "r+"
    <3>1. x = file_to_buffer_read(h)
      BY <1>2, <2>1, <2>5, <2>6 DEF FirstWrite
    <3>2. Sound(x) /\ x.cursor = 0
      BY <2>2, <3>1, RefillSound
    <3>3. x.data = g.data /\ x.offset = g.offset /\ Kept(h, x) /\ InPlace(x)
      BY <2>2, <2>3, <3>1, RefillEffect
    <3>4. Writes(x) /\ ~Appends(x.mode)
      BY <2>2, <2>6, <3>2, <3>3 DEF Writes, Kept, Appends
    <3>5. Shown(x) = g.data /\ At(x) = g.offset + 0
      BY <3>2, <3>3, <3>4, InPlaceShown
    <3> QED BY <2>2, <2>3, <2>4, <2>5, <3>3, <3>4, <3>5 DEF Kept
  <2>7. CASE g.mode \in {"w", "w+", "a"}
    <3>1. /\ x.data = g.data /\ x.offset = g.offset /\ x.exists = g.exists /\ x.allocated
          /\ x.cursor = 0 /\ x.buffer_end = 0 /\ x.mode = g.mode
          /\ g.mode = "a" => x.write_start
      <4>1. CASE g.mode = "a"
        <5>1. x = [h EXCEPT !.buffer_end = 0, !.cursor = 0, !.write_start = TRUE]
          BY <1>2, <2>1, <2>5, <4>1 DEF FirstWrite
        <5> QED BY <2>2, <2>3, <5>1 DEF FileType
      <4>2. CASE g.mode # "a"
        <5>1. x = [h EXCEPT !.buffer_end = 0, !.cursor = 0]
          BY <1>2, <2>1, <2>5, <2>7, <4>2 DEF FirstWrite
        <5> QED BY <2>2, <2>3, <4>2, <5>1 DEF FileType
      <4> QED BY <4>1, <4>2
    <3>2. Sound(x)
      <4>1. Writable(g.mode) /\ g.mode # "closed"
        BY <2>7 DEF Writable
      <4> QED BY <2>5, <4>1, FirstWriteSound DEF Puts
    <3>3. Writes(x)
      BY <2>7, <3>1, <3>2 DEF Writes
    <3>4. Shown(x) = x.data /\ At(x) = x.offset + 0
      BY <3>1, <3>2, EmptyShown
    <3> QED BY <2>4, <2>5, <3>1, <3>3, <3>4
  <2> QED BY <2>6, <2>7
<1> QED BY <1>1, <1>2

(* fwrite puts its bytes where they would go in a plain file.              *)
LEMMA FwriteRefines ==
  ASSUME NEW g, Sound(g), g.mode \in {"r+", "w", "w+", "a"},
         g.mode = "a" => g.cursor = g.buffer_end /\ (g.allocated => g.write_start),
         NEW s \in Seq(Byte)
  PROVE  LET h == fwrite_sub_program1(g, s)
         IN  /\ Writes(h) /\ h.exists = g.exists /\ h.mode = g.mode
             /\ IsPut(g.mode, Shown(g), At(g), s, Shown(h), At(h))
<1>1. PICK x : x = FirstWrite(g)
  OBVIOUS
<1>2. /\ Writes(x) /\ x.exists = g.exists /\ x.mode = g.mode
      /\ Shown(x) = Shown(g) /\ At(x) = At(g)
  BY <1>1, FirstWriteRefines
<1>3. PICK r : r = [f |-> x, todo |-> s]
  OBVIOUS
<1>4. Puts(r) /\ Writes(r.f) /\ r.f = x /\ r.todo = s
  BY <1>2, <1>3 DEF Puts, Writes, Sound
<1>5. PICK u : u = WriteLoop(r)
  OBVIOUS
<1>6. PICK v : v = WriteLoop(u)
  OBVIOUS
<1>7. PICK p : Wrote(r, u, p)
  BY <1>4, <1>5, WritePass
<1>8. Puts(u) /\ Writes(u.f)
  BY <1>4, <1>5, <1>7, WriteLoopFacts DEF Wrote
<1>9. PICK q : Wrote(u, v, q)
  BY <1>6, <1>8, WritePass
<1>10. v.todo = <<>>
  BY <1>4, <1>5, <1>6, TwoPassesWriteAll
<1>11. Wrote(r, v, p \o q)
  <2>1. v.todo \in Seq(Byte) /\ Sound(r.f)
    BY <1>4, <1>10, ByteFacts DEF Puts
  <2> QED BY <1>7, <1>9, <2>1, WroteOn
<1>12. p \o q = s
  <2>1. PICK z \in Seq(Byte) : z = p \o q
    BY <1>11 DEF Wrote
  <2>2. s = z \o <<>>
    BY <1>4, <1>10, <1>11, <2>1 DEF Wrote
  <2> QED BY <2>1, <2>2, ConcatEmptySeq
<1>13. fwrite_sub_program1(g, s) = v.f
  BY <1>1, <1>3, <1>5, <1>6 DEF fwrite_sub_program1
<1> QED BY <1>2, <1>4, <1>11, <1>12, <1>13 DEF Wrote

(* fflush, and the flush in fseek and fclose.                              *)
LEMMA FlushedRefines ==
  ASSUME NEW g, Sound(g), g.mode = "a" => (g.allocated => g.write_start),
         g.mode # "a+"
  PROVE  LET h == Flushed(g)
         IN  /\ h.data = Shown(g) /\ h.offset + h.cursor = At(g) /\ Kept(g, h)
             /\ Sound(h)
             /\ Flushes(g) => h.cursor = 0 /\ h.buffer_end = 0
             /\ ~g.allocated => h = g
             /\ ~g.allocated \/ Flushes(g) => Shown(h) = Shown(g) /\ At(h) = At(g)
<1>1. g \in FileType /\ g.buffer_end \in Nat
  BY DEF Sound, FileType
<1>2. PICK h : h = Flushed(g)
  OBVIOUS
<1>3. CASE ~g.allocated
  <2>1. h = g /\ Shown(g) = g.data /\ At(g) = g.offset + g.cursor
    BY <1>2, <1>3, EmptyShown DEF Flushed
  <2>2. ~Flushes(g)
    BY <1>3 DEF Flushes
  <2> QED BY <1>2, <2>1, <2>2 DEF Kept
<1>4. CASE g.allocated /\ Flushes(g)
  <2>1. h = buffer_to_file_write(g, g.buffer_end)
    BY <1>2, <1>4 DEF Flushed
  <2>2. /\ Sound(h) /\ Kept(g, h) /\ h.cursor = 0 /\ h.buffer_end = 0
        /\ h.data = Shown(g) /\ h.offset = At(g)
        /\ Shown(h) = Shown(g) /\ At(h) = At(g)
    BY <1>4, <2>1, FlushRefines
  <2>3. h.offset + h.cursor = At(g)
    BY <2>2, MappedTypes
  <2> QED BY <1>2, <1>4, <2>2, <2>3
<1>5. CASE g.allocated /\ ~Flushes(g)
  <2>1. g.mode = "r"
    BY <1>5 DEF Flushes, Writable, Appends
  <2>2. h = buffer_clear_and_sync(g, g.buffer_end)
    BY <1>2, <1>5 DEF Flushed
  <2>3. PICK n \in Nat : n = g.buffer_end
    BY <1>1
  <2>4. h.data = g.data /\ h.offset = g.offset + g.cursor /\ Kept(g, h)
    BY <2>2, <2>3, ClearEffect
  <2>5. Sound(h) /\ h.cursor = 0
    BY <2>2, <2>3, ClearSound
  <2>6. Shown(g) = g.data /\ At(g) = g.offset + g.cursor /\ At(g) \in Nat
    BY <2>1, EmptyShown, MappedTypes
  <2>7. h.offset + h.cursor = At(g)
    BY <2>4, <2>5, <2>6
  <2> QED BY <1>2, <1>5, <2>4, <2>5, <2>6, <2>7
<1> QED BY <1>3, <1>4, <1>5

---------------------------------------------------------------------------
(* What the run `stdio` supposes of the caller: no stream that appends and *)
(* reads, no fflush on one that only reads, which ISO C does not define,   *)
(* and no read of a buffer or more (fgetc reads 1 byte).  The runs         *)
(* stdio_append and stdio_count show what goes wrong with the others.      *)
PlainCaller ==
    /\ "a+" \notin Modes /\ "r" \notin FlushModes
    /\ BUFSIZE > 1 /\ \A r \in ReadSizes : r[1] * r[2] < BUFSIZE

(* The buffer of a stream in place.                                        *)
InOrder(g) ==
    /\ g.mode = "r" => InPlace(g)
    /\ g.mode = "a" => g.cursor = g.buffer_end /\ (g.allocated => g.write_start)
    /\ IF g.mode = "closed" THEN ~g.allocated /\ g.offset = 0 ELSE g.exists

(* The invariant of the refinement.                                        *)
PlainInv == StdioInv /\ InOrder(f)

(* The mapping before and after a step.                                    *)
LEMMA MapFacts ==
    /\ Overwrite(f.data, Position, Waiting) = Shown(f)
    /\ Position + f.cursor = At(f)
    /\ (Overwrite(f.data, Position, Waiting))' = Shown(f')
    /\ (Position + f.cursor)' = At(f')
<1>1. Waiting = Held(f) /\ Position = Base(f)
  BY DEF Waiting, Position, Held, Base
<1>2. Waiting' = Held(f') /\ Position' = Base(f')
  BY DEF Waiting, Position, Held, Base
<1> QED BY <1>1, <1>2 DEF Shown, At

(* The modes of a stream.                                                  *)
LEMMA ModeFacts ==
  ASSUME PlainCaller, PlainInv
  PROVE  /\ f.mode \in {"r", "r+", "w", "w+", "a", "closed"}
         /\ Sound(f) /\ f \in FileType
         /\ Shown(f) \in Seq(Byte) /\ At(f) \in Nat
<1>1. Sound(f) /\ f \in FileType
  BY DEF PlainInv, StdioInv, Sound
<1>2. f.mode \in {"r", "r+", "w", "w+", "a", "closed"}
  BY <1>1, ModeAssumption DEF FileType, PlainCaller
<1> QED BY <1>1, <1>2, MappedTypes

(* fopen is fopen on the plain file,                                       *)
LEMMA OpenRefines ==
  ASSUME PlainCaller, PlainInv, NEW m \in Modes, fopen(m)
  PROVE  InOrder(f') /\ Plain!fopen(m)
<1>1. /\ Sound(f) /\ f \in FileType /\ f.mode = "closed" /\ ~f.allocated /\ f.offset = 0
  BY ModeFacts DEF fopen, IsOpen, PlainInv, InOrder
<1>2. Shown(f) = f.data /\ At(f) = 0 /\ f.cursor = 0 /\ f.buffer_end = 0
  BY <1>1, EmptyShown
<1>3. CASE ~f.exists /\ m \in {"r", "r+"}
  <2>1. f' = f /\ result' = [Nothing EXCEPT !.count = EOF]
    BY <1>3 DEF fopen
  <2>2. InOrder(f')
    BY <2>1 DEF PlainInv
  <2>3. Plain!fopen(m)
    BY <1>1, <1>3, <2>1, MapFacts DEF Plain!fopen, Plain!Nothing, Plain!EOF, Nothing, EOF
  <2> QED BY <2>2, <2>3
<1>4. CASE ~(~f.exists /\ m \in {"r", "r+"})
  <2>1. PICK d : d = IF m \in {"w", "w+"} THEN <<>> ELSE f.data
    OBVIOUS
  <2>2. PICK h : h = [f EXCEPT !.mode = m, !.exists = TRUE, !.data = d]
    OBVIOUS
  <2>3. f' = h /\ result' = Nothing
    BY <1>4, <2>1, <2>2 DEF fopen
  <2>4. /\ h.mode = m /\ h.exists = TRUE /\ h.data = d /\ h.cursor = 0 /\ h.offset = 0
        /\ h.buffer_end = 0 /\ ~h.allocated
    BY <1>1, <1>2, <2>2 DEF FileType
  <2>5. Sound(h)
    BY <2>3, OpenInv DEF PlainInv, StdioInv
  <2>6. Shown(h) = d /\ At(h) = 0
    BY <2>4, <2>5, EmptyShown
  <2>7. InOrder(h)
    BY <1>1, <2>4, <2>5, ModeFacts DEF InOrder, InPlace
  <2>8. Plain!fopen(m)
    BY <1>1, <1>2, <1>4, <2>1, <2>3, <2>4, <2>6, MapFacts DEF Plain!fopen, Plain!Nothing, Nothing
  <2> QED BY <2>3, <2>7, <2>8
<1> QED BY <1>3, <1>4

(* What fread and fgetc get is what a plain file gives.                    *)
LEMMA ReadBytesRefines ==
  ASSUME PlainCaller, PlainInv, f.mode # "closed", NEW n \in Nat, n < BUFSIZE
  PROVE  LET b == ReadBytes(n)
         IN  /\ InOrder(b.f) /\ b.f.exists = f.exists /\ b.f.mode = f.mode
             /\ b.bytes = IF Readable(f.mode)
                            THEN SubSeq(Shown(f), At(f) + 1, Min({At(f) + n, Len(Shown(f))}))
                            ELSE <<>>
             /\ b.count = Len(b.bytes) /\ Len(b.bytes) \in Nat /\ Len(b.bytes) <= n
             /\ Shown(b.f) = Shown(f) /\ At(b.f) = At(f) + Len(b.bytes)
<1>1. /\ f.mode \in {"r", "r+", "w", "w+", "a"} /\ Sound(f)
      /\ Shown(f) \in Seq(Byte) /\ At(f) \in Nat /\ InOrder(f)
  BY ModeFacts DEF PlainInv
<1>2. PICK D \in Seq(Byte) : D = Shown(f)
  BY <1>1
<1>3. PICK p \in Nat : p = At(f)
  BY <1>1
<1>4. PICK b : b = ReadBytes(n)
  OBVIOUS
<1>5. CASE n > 0 /\ Readable(f.mode)
  <2>1. b = fread_sub_program1(f, n)
    BY <1>4, <1>5 DEF ReadBytes
  <2>2. Reads(f)
    BY <1>1, <1>5 DEF Readable, Reads, InOrder
  <2>3. /\ IsRead(b.bytes, D, p, n) /\ b.count = Len(b.bytes)
        /\ Reads(b.f) /\ b.f.exists = f.exists /\ b.f.mode = f.mode
        /\ Shown(b.f) = D /\ At(b.f) = p + Len(b.bytes)
    BY <1>2, <1>3, <1>5, <2>1, <2>2, FreadRefines
  <2>4. b.bytes = SubSeq(D, p + 1, Min({p + n, Len(D)}))
    BY <2>3, OneRead
  <2>5. Len(b.bytes) \in Nat /\ Len(b.bytes) <= n
    <3>1. PICK l \in Nat : l = Len(D)
      OBVIOUS
    <3>2. Len(b.bytes) = Available(l, p, n)
      BY <2>3, <3>1 DEF IsRead
    <3> QED BY <3>2 DEF Available
  <2>6. InOrder(b.f)
    BY <1>1, <2>3 DEF Reads, InOrder
  <2> QED BY <1>2, <1>3, <1>4, <1>5, <2>3, <2>4, <2>5, <2>6
<1>6. CASE ~(n > 0 /\ Readable(f.mode))
  <2>1. b = [f |-> f, bytes |-> <<>>, count |-> 0]
    BY <1>4, <1>6 DEF ReadBytes
  <2>2. b.f = f /\ b.bytes = <<>> /\ b.count = 0 /\ Len(b.bytes) = 0
    BY <2>1, ByteFacts
  <2>3. p + Len(b.bytes) = p
    BY <2>2
  <2>4. Readable(f.mode) => <<>> = SubSeq(D, p + 1, Min({p + n, Len(D)}))
    <3>1. CASE Readable(f.mode)
      <4>1. n = 0
        BY <1>6, <3>1
      <4>2. IsRead(<<>>, D, p, n)
        <5>1. PICK l \in Nat : l = Len(D)
          OBVIOUS
        <5>2. Available(l, p, n) = 0
          BY <4>1 DEF Available
        <5> QED BY <5>1, <5>2, ByteFacts DEF IsRead
      <4> QED BY <4>2, OneRead
    <3> QED BY <3>1
  <2>5. b.bytes = IF Readable(f.mode)
                    THEN SubSeq(Shown(f), At(f) + 1, Min({At(f) + n, Len(Shown(f))}))
                    ELSE <<>>
    BY <1>2, <1>3, <2>2, <2>4
  <2>6. b.count = Len(b.bytes) /\ Len(b.bytes) \in Nat /\ Len(b.bytes) <= n
    BY <2>2
  <2>7. Shown(b.f) = Shown(f) /\ At(b.f) = At(f) + Len(b.bytes)
    BY <1>3, <2>2, <2>3
  <2> QED BY <1>1, <1>4, <2>2, <2>5, <2>6, <2>7
<1> QED BY <1>5, <1>6

(* A step that returns from ReadBytes is a step of the plain file.         *)
LEMMA ReturnRefines ==
  ASSUME PlainCaller, PlainInv, NEW n \in Nat, n < BUFSIZE, NEW c,
         ReturnsFrom(ReadBytes(n), c)
  PROVE  /\ InOrder(f') /\ f.mode # "closed"
         /\ \E b : /\ b = IF Readable(f.mode) THEN Plain!BytesAt(Shown(f), At(f), n) ELSE <<>>
                   /\ b = ReadBytes(n).bytes /\ ReadBytes(n).count = Len(b)
                   /\ Len(b) \in Nat /\ Len(b) <= n
                   /\ At(f') = At(f) + Len(b) /\ Shown(f') = Shown(f)
                   /\ result' = [bytes |-> b, count |-> c]
                   /\ f'.exists = f.exists /\ f'.mode = f.mode
<1>1. PICK r : r = ReadBytes(n)
  OBVIOUS
<1>2. f.mode # "closed" /\ f' = r.f /\ result' = [bytes |-> r.bytes, count |-> c]
  BY <1>1 DEF ReturnsFrom, IsOpen
<1>3. /\ InOrder(r.f) /\ r.f.exists = f.exists /\ r.f.mode = f.mode
      /\ r.bytes = IF Readable(f.mode)
                     THEN SubSeq(Shown(f), At(f) + 1, Min({At(f) + n, Len(Shown(f))}))
                     ELSE <<>>
      /\ r.count = Len(r.bytes) /\ Len(r.bytes) \in Nat /\ Len(r.bytes) <= n
      /\ Shown(r.f) = Shown(f) /\ At(r.f) = At(f) + Len(r.bytes)
  BY <1>1, <1>2, ReadBytesRefines
<1>4. r.bytes = IF Readable(f.mode) THEN Plain!BytesAt(Shown(f), At(f), n) ELSE <<>>
  <2>1. PICK d : d = Shown(f)
    OBVIOUS
  <2>2. PICK p : p = At(f)
    OBVIOUS
  <2>3. SubSeq(d, p + 1, Min({p + n, Len(d)})) = Plain!BytesAt(d, p, n)
    BY DEF Plain!BytesAt, Plain!Min, Min
  <2> QED BY <1>3, <2>1, <2>2, <2>3
<1> QED BY <1>1, <1>2, <1>3, <1>4

(* The number of whole elements in c bytes.                                *)
LEMMA WholeElements ==
  ASSUME NEW c \in Nat, NEW size \in Nat \ {0}, NEW nmemb \in Nat
  PROVE  Elements(c, size, nmemb) = c \div size
<1>1. (size * nmemb) \div size = nmemb
  OBVIOUS
<1> QED BY <1>1 DEF Elements

(* fread is fread,                                                         *)
LEMMA FreadStepRefines ==
  ASSUME PlainCaller, PlainInv, NEW r \in ReadSizes, fread(r[1], r[2])
  PROVE  InOrder(f') /\ Plain!fread(r[1], r[2])
<1>1. r[1] \in Nat \ {0} /\ r[2] \in Nat /\ r[1] * r[2] < BUFSIZE
  BY SizeAssumption DEF PlainCaller
<1>2. PICK a \in Nat \ {0} : a = r[1]
  BY <1>1
<1>3. PICK k \in Nat : k = r[2]
  BY <1>1
<1>4. PICK n : n = a * k
  OBVIOUS
<1>5. n \in Nat /\ n < BUFSIZE
  BY <1>1, <1>2, <1>3, <1>4
<1>6. PICK c : c = Elements(ReadBytes(n).count, a, k)
  OBVIOUS
<1>7. ReturnsFrom(ReadBytes(n), c)
  BY <1>2, <1>3, <1>4, <1>6 DEF fread
<1>8. InOrder(f') /\ f.mode # "closed"
  BY <1>5, <1>7, ReturnRefines
<1>9. PICK b : /\ b = IF Readable(f.mode) THEN Plain!BytesAt(Shown(f), At(f), n) ELSE <<>>
               /\ b = ReadBytes(n).bytes /\ ReadBytes(n).count = Len(b)
               /\ Len(b) \in Nat /\ Len(b) <= n
               /\ At(f') = At(f) + Len(b) /\ Shown(f') = Shown(f)
               /\ result' = [bytes |-> b, count |-> c]
               /\ f'.exists = f.exists /\ f'.mode = f.mode
  BY <1>5, <1>7, ReturnRefines
<1>10. c = Len(b) \div a
  <2>1. PICK j \in Nat : j = Len(b)
    BY <1>9
  <2>2. c = Elements(j, a, k)
    BY <1>6, <1>9, <2>1
  <2>3. Elements(j, a, k) = j \div a
    BY WholeElements
  <2> QED BY <2>1, <2>2, <2>3
<1>11. Plain!Readable(f.mode) <=> Readable(f.mode)
  BY DEF Plain!Readable, Readable
<1>12. Plain!fread(a, k)
  BY <1>4, <1>8, <1>9, <1>10, <1>11, MapFacts DEF Plain!fread, Plain!Get
<1> QED BY <1>2, <1>3, <1>8, <1>12

(* ... and fgetc is fgetc.                                                 *)
LEMMA FgetcRefines ==
  ASSUME PlainCaller, PlainInv, fgetc
  PROVE  InOrder(f') /\ Plain!fgetc
<1>1. PICK c : c = IF ReadBytes(1).count = 1 THEN 1 ELSE EOF
  OBVIOUS
<1>2. ReturnsFrom(ReadBytes(1), c)
  BY <1>1 DEF fgetc
<1>3. 1 \in Nat /\ 1 < BUFSIZE
  BY ByteFacts DEF PlainCaller
<1>4. InOrder(f') /\ f.mode # "closed"
  BY <1>2, <1>3, ReturnRefines
<1>5. PICK b : /\ b = IF Readable(f.mode) THEN Plain!BytesAt(Shown(f), At(f), 1) ELSE <<>>
               /\ b = ReadBytes(1).bytes /\ ReadBytes(1).count = Len(b)
               /\ Len(b) \in Nat /\ Len(b) <= 1
               /\ At(f') = At(f) + Len(b) /\ Shown(f') = Shown(f)
               /\ result' = [bytes |-> b, count |-> c]
               /\ f'.exists = f.exists /\ f'.mode = f.mode
  BY <1>2, <1>3, ReturnRefines
<1>6. c = IF Len(b) = 0 THEN Plain!EOF ELSE Len(b)
  BY <1>1, <1>5 DEF Plain!EOF, EOF
<1>7. Plain!Readable(f.mode) <=> Readable(f.mode)
  BY DEF Plain!Readable, Readable
<1>8. Plain!fgetc
  BY <1>4, <1>5, <1>6, <1>7, MapFacts DEF Plain!fgetc, Plain!Get
<1> QED BY <1>4, <1>8


(* Writing the bytes s at p is what it is for a plain file.                *)
LEMMA WrittenAtOverwrites ==
  ASSUME NEW d, NEW p, NEW s
  PROVE  Plain!WrittenAt(d, p, s) = Overwrite(d, p, s)
  BY DEF Plain!WrittenAt, Overwrite, Plain!Max, Max

(* What fwrite and fputc write goes where it would go in a plain file.     *)
LEMMA PutStepRefines ==
  ASSUME PlainCaller, PlainInv, NEW s \in Seq(Byte), NEW done, NEW failed,
         Fwrite(s, done, failed)
  PROVE  InOrder(f') /\ Plain!Put(s, done, failed)
<1>1. /\ f.mode \in {"r", "r+", "w", "w+", "a"} /\ Sound(f) /\ InOrder(f) /\ f.mode # "closed"
      /\ Shown(f) \in Seq(Byte) /\ At(f) \in Nat
  BY ModeFacts DEF PlainInv, Fwrite, IsOpen
<1>2. /\ Plain!Writable(f.mode) <=> Writable(f.mode)
      /\ Plain!Appends(f.mode) <=> Appends(f.mode)
  BY DEF Plain!Writable, Writable, Plain!Appends, Appends
<1>3. CASE Writable(f.mode) /\ s # <<>>
  <2>1. /\ f' = fwrite_sub_program1(f, s)
        /\ result' = [Nothing EXCEPT !.count = done]
    BY <1>3 DEF Fwrite
  <2>2. f.mode \in {"r+", "w", "w+", "a"}
    BY <1>1, <1>3 DEF Writable
  <2>3. f.mode = "a" => f.cursor = f.buffer_end /\ (f.allocated => f.write_start)
    BY <1>1 DEF InOrder
  <2>4. PICK h : h = fwrite_sub_program1(f, s)
    OBVIOUS
  <2>5. /\ Writes(h) /\ h.exists = f.exists /\ h.mode = f.mode
        /\ IsPut(f.mode, Shown(f), At(f), s, Shown(h), At(h))
    BY <1>1, <2>2, <2>3, <2>4, FwriteRefines
  <2>6. f' = h
    BY <2>1, <2>4
  <2>7. InOrder(h)
    BY <1>1, <2>2, <2>5 DEF Writes, InOrder
  <2>8. PICK p : p = IF Appends(f.mode) THEN Len(Shown(f)) ELSE At(f)
    OBVIOUS
  <2>9. Shown(h) = Overwrite(Shown(f), p, s) /\ At(h) = p + Len(s)
    BY <1>3, <2>5, <2>8 DEF IsPut
  <2>10. Shown(h) = Plain!WrittenAt(Shown(f), p, s)
    BY <2>9, WrittenAtOverwrites
  <2>11. result' = [bytes |-> <<>>, count |-> done]
    BY <2>1 DEF Nothing
  <2>12. Plain!Put(s, done, failed)
    BY <1>1, <1>2, <1>3, <2>5, <2>6, <2>8, <2>9, <2>10, <2>11, MapFacts DEF Plain!Put
  <2> QED BY <2>6, <2>7, <2>12
<1>4. CASE ~(Writable(f.mode) /\ s # <<>>)
  <2>1. f' = f /\ result' = [Nothing EXCEPT !.count = failed]
    BY <1>4 DEF Fwrite
  <2>2. result' = [bytes |-> <<>>, count |-> failed]
    BY <2>1 DEF Nothing
  <2>3. Plain!Put(s, done, failed)
    BY <1>1, <1>2, <1>4, <2>1, <2>2, MapFacts DEF Plain!Put
  <2> QED BY <1>1, <2>1, <2>3
<1> QED BY <1>3, <1>4

(* fwrite is fwrite,                                                       *)
LEMMA FwriteStepRefines ==
  ASSUME PlainCaller, PlainInv, NEW w \in WriteSizes,
         fwrite(w[1], w[2], Bytes(w[1] * w[2]))
  PROVE  InOrder(f') /\ Plain!fwrite(w[2], Plain!Bytes(w[1] * w[2]))
<1>1. PICK s : s = Bytes(w[1] * w[2])
  OBVIOUS
<1>2. w[1] * w[2] \in Nat
  BY SizeAssumption
<1>3. s \in Seq(Byte)
  BY <1>1, <1>2, ByteFacts DEF Bytes
<1>4. Fwrite(s, w[2], 0)
  BY <1>1 DEF fwrite
<1>5. InOrder(f') /\ Plain!Put(s, w[2], 0)
  BY <1>3, <1>4, PutStepRefines
<1>6. Plain!Bytes(w[1] * w[2]) = s
  BY <1>1 DEF Plain!Bytes, Bytes
<1> QED BY <1>5, <1>6 DEF Plain!fwrite

(* ... and fputc is fputc.                                                 *)
LEMMA FputcRefines ==
  ASSUME PlainCaller, PlainInv, fputc(WRITTEN)
  PROVE  InOrder(f') /\ Plain!fputc(WRITTEN)
<1>1. PICK s : s = <<WRITTEN>>
  OBVIOUS
<1>2. s \in Seq(Byte)
  BY <1>1, ByteFacts
<1>3. Fwrite(s, 1, EOF)
  BY <1>1 DEF fputc
<1>4. InOrder(f') /\ Plain!Put(s, 1, EOF)
  BY <1>2, <1>3, PutStepRefines
<1>5. Plain!EOF = EOF
  BY DEF Plain!EOF, EOF
<1> QED BY <1>1, <1>4, <1>5 DEF Plain!fputc

(* fflush changes nothing that a caller sees,                              *)
LEMMA FflushRefines ==
  ASSUME PlainCaller, PlainInv, fflush
  PROVE  InOrder(f') /\ Plain!fflush
<1>1. /\ f.mode \in {"r+", "w", "w+", "a"} /\ Sound(f) /\ InOrder(f)
      /\ f.mode # "closed" /\ f.mode # "r"
  BY ModeFacts DEF PlainInv, fflush, IsOpen, PlainCaller
<1>2. PICK h : h = Flushed(f)
  OBVIOUS
<1>3. f' = h /\ result' = [Nothing EXCEPT !.count = IF Flushes(f) THEN 0 ELSE EOF]
  BY <1>2 DEF fflush
<1>4. f.mode = "a" => f.cursor = f.buffer_end /\ (f.allocated => f.write_start)
  BY <1>1 DEF InOrder
<1>5. /\ h.data = Shown(f) /\ h.offset + h.cursor = At(f) /\ Kept(f, h) /\ Sound(h)
      /\ Flushes(f) => h.cursor = 0 /\ h.buffer_end = 0
      /\ ~f.allocated => h = f
      /\ ~f.allocated \/ Flushes(f) => Shown(h) = Shown(f) /\ At(h) = At(f)
  BY <1>1, <1>2, <1>4, FlushedRefines
<1>6. f.allocated => Flushes(f)
  BY <1>1, <1>4 DEF Flushes, Appends, Writable
<1>7. Shown(h) = Shown(f) /\ At(h) = At(f)
  BY <1>5, <1>6
<1>8. h.mode = f.mode /\ h.exists = f.exists /\ h.allocated = f.allocated
      /\ h.write_start = f.write_start
  BY <1>5 DEF Kept
<1>9. h.mode = "a" => h.cursor = h.buffer_end
  BY <1>4, <1>5, <1>6, <1>8
<1>10. InOrder(h)
  BY <1>1, <1>4, <1>8, <1>9 DEF InOrder
<1>11. \E c \in {0, EOF} : result' = [Plain!Nothing EXCEPT !.count = c]
  BY <1>3 DEF Nothing, Plain!Nothing
<1>12. \E c \in {0, Plain!EOF} : result' = [Plain!Nothing EXCEPT !.count = c]
  BY <1>11 DEF EOF, Plain!EOF
<1>13. Plain!fflush
  BY <1>1, <1>3, <1>7, <1>8, <1>12, MapFacts DEF Plain!fflush
<1> QED BY <1>3, <1>10, <1>13

(* ... and neither does fclose, which writes the file.                     *)
LEMMA FcloseRefines ==
  ASSUME PlainCaller, PlainInv, fclose
  PROVE  InOrder(f') /\ Plain!fclose
<1>1. /\ f.mode \in {"r", "r+", "w", "w+", "a"} /\ Sound(f) /\ InOrder(f)
      /\ f.mode # "closed" /\ f.exists
  BY ModeFacts DEF PlainInv, fclose, IsOpen, InOrder
<1>2. PICK d : d = IF Writable(f.mode) THEN Flushed(f).data ELSE f.data
  OBVIOUS
<1>3. PICK h : h = Closed(d, TRUE)
  OBVIOUS
<1>4. f' = h /\ result' = Nothing
  BY <1>2, <1>3 DEF fclose
<1>5. d = Shown(f)
  <2>1. CASE f.mode = "r"
    BY <1>1, <1>2, <2>1, EmptyShown DEF Writable
  <2>2. CASE f.mode # "r"
    <3>1. f.mode = "a" => (f.allocated => f.write_start)
      BY <1>1 DEF InOrder
    <3>2. PICK x : x = Flushed(f)
      OBVIOUS
    <3>3. x.data = Shown(f)
      BY <1>1, <3>1, <3>2, FlushedRefines
    <3> QED BY <1>2, <2>2, <3>2, <3>3 DEF Writable
  <2> QED BY <2>1, <2>2
<1>6. /\ h.mode = "closed" /\ ~h.allocated /\ h.offset = 0 /\ h.cursor = 0 /\ h.data = d
      /\ h.exists = TRUE /\ h.buffer_end = 0
  BY <1>3 DEF Closed
<1>7. InOrder(h)
  BY <1>6 DEF InOrder
<1>8. Sound(h)
  BY <1>4, FcloseInv DEF PlainInv, StdioInv
<1>9. Shown(h) = d /\ At(h) = 0
  BY <1>6, <1>8, EmptyShown
<1>10. f.exists = TRUE
  BY <1>1, ModeFacts DEF FileType
<1>11. Plain!fclose
  BY <1>1, <1>4, <1>5, <1>6, <1>9, <1>10, MapFacts DEF Plain!fclose, Plain!Nothing, Nothing
<1> QED BY <1>4, <1>7, <1>11


(* A flushed stream has its descriptor where the caller is.                *)
LEMMA FlushedOffset ==
  ASSUME NEW g, Sound(g), InOrder(g), g.mode \in {"r", "r+", "w", "w+", "a"}
  PROVE  LET h == Freed(Flushed(g))
         IN  /\ h.data = Shown(g) /\ h.offset = At(g) /\ h.exists = g.exists
             /\ h.mode = g.mode /\ ~h.allocated /\ Sound(h)
<1>1. PICK h : h = Flushed(g)
  OBVIOUS
<1>2. g.mode = "a" => (g.allocated => g.write_start)
  BY DEF InOrder
<1>3. /\ h.data = Shown(g) /\ h.offset + h.cursor = At(g) /\ Kept(g, h) /\ Sound(h)
      /\ Flushes(g) => h.cursor = 0
      /\ ~g.allocated => h = g
  BY <1>1, <1>2, FlushedRefines
<1>4. h.cursor = 0
  <2>1. CASE Flushes(g)
    BY <1>3, <2>1
  <2>2. CASE ~g.allocated
    BY <1>3, <2>2, EmptyShown
  <2>3. CASE g.allocated /\ ~Flushes(g)
    <3>1. h = buffer_clear_and_sync(g, g.buffer_end)
      BY <1>1, <2>3 DEF Flushed
    <3>2. PICK x : x = Seek(g, g.cursor)
      OBVIOUS
    <3>3. g \in FileType /\ g.cursor \in Int
      BY DEF Sound, FileType
    <3>4. x \in FileType
      BY <3>2, <3>3, SeekEffect
    <3>5. h = [x EXCEPT !.buffer = Fill(@, Zeros(g.buffer_end)), !.cursor = 0]
      BY <3>1, <3>2 DEF buffer_clear_and_sync
    <3> QED BY <3>4, <3>5 DEF FileType
  <2> QED BY <2>1, <2>2, <2>3
<1>5. h.offset \in Nat /\ h \in FileType
  BY <1>3 DEF Sound, FileType
<1>6. PICK e : e = Freed(h)
  OBVIOUS
<1>7. e.data = h.data /\ e.offset = h.offset /\ e.exists = h.exists /\ e.mode = h.mode
      /\ ~e.allocated
  BY <1>5, <1>6 DEF Freed, FileType
<1>8. Sound(e)
  BY <1>3, <1>6, FreedSound
<1>9. h.offset = At(g)
  BY <1>3, <1>4, <1>5
<1> QED BY <1>1, <1>3, <1>6, <1>7, <1>8, <1>9 DEF Kept

(* fseek goes to where it would in a plain file,                           *)
LEMMA FseekRefines ==
  ASSUME PlainCaller, PlainInv, NEW o \in Offsets,
         NEW base \in {"SEEK_SET", "SEEK_CUR", "SEEK_END"}, fseek(o, base)
  PROVE  InOrder(f') /\ Plain!fseek(o, base)
<1>1. /\ f.mode \in {"r", "r+", "w", "w+", "a"} /\ Sound(f) /\ InOrder(f)
      /\ f.mode # "closed" /\ f.exists /\ Shown(f) \in Seq(Byte) /\ At(f) \in Nat
  BY ModeFacts DEF PlainInv, fseek, IsOpen, InOrder
<1>2. PICK g : g = Freed(Flushed(f))
  OBVIOUS
<1>3. /\ g.data = Shown(f) /\ g.offset = At(f) /\ g.exists = f.exists
      /\ g.mode = f.mode /\ ~g.allocated /\ Sound(g)
  BY <1>1, <1>2, FlushedOffset
<1>4. PICK x : x = CASE base = "SEEK_SET" -> 0
                     [] base = "SEEK_CUR" -> At(f)
                     [] base = "SEEK_END" -> Len(Shown(f))
  OBVIOUS
<1>5. x \in Nat
  BY <1>1, <1>4
<1>6. PICK y : y = o + x
  OBVIOUS
<1>7. o \in Int
  BY SizeAssumption
<1>8. y \in Int
  BY <1>5, <1>6, <1>7
<1>9. y = o + CASE base = "SEEK_SET" -> 0
                [] base = "SEEK_CUR" -> g.offset
                [] base = "SEEK_END" -> Len(g.data)
  BY <1>3, <1>4, <1>6
<1>10. /\ f' = [g EXCEPT !.offset = IF y >= 0 THEN y ELSE @,
                         !.eof = FALSE, !.eof_seen = FALSE]
       /\ \E c \in IF y >= 0 THEN {0, y} ELSE {EOF} :
             result' = [Nothing EXCEPT !.count = c]
  BY <1>2, <1>9, Zenon DEF fseek
<1>11. PICK z : z = IF y >= 0 THEN y ELSE g.offset
  OBVIOUS
<1>12. PICK h : h = [g EXCEPT !.offset = z, !.eof = FALSE, !.eof_seen = FALSE]
  OBVIOUS
<1>13. f' = h
  BY <1>10, <1>11, <1>12
<1>14. g \in FileType /\ z \in Nat
  BY <1>1, <1>3, <1>8, <1>11 DEF Sound
<1>15. /\ h.data = g.data /\ h.offset = z /\ h.exists = g.exists /\ h.mode = g.mode
       /\ h.allocated = g.allocated
  BY <1>12, <1>14 DEF FileType
<1>16. Sound(h)
  BY <1>13, FseekInv DEF PlainInv, StdioInv
<1>17. ~h.allocated
  BY <1>3, <1>15
<1>18. Shown(h) = h.data /\ h.cursor = 0 /\ h.buffer_end = 0 /\ At(h) = h.offset + h.cursor
  BY <1>16, <1>17, EmptyShown
<1>19. Shown(h) = Shown(f) /\ At(h) = z
  BY <1>3, <1>14, <1>15, <1>18
<1>20. h.mode = f.mode /\ h.exists = f.exists
  BY <1>3, <1>15
<1>21. InOrder(h)
  BY <1>1, <1>17, <1>18, <1>20 DEF InOrder, InPlace
<1>22. \E c \in IF y >= 0 THEN 0 .. y ELSE {Plain!EOF} :
          result' = [Plain!Nothing EXCEPT !.count = c]
  <2>1. PICK c \in IF y >= 0 THEN {0, y} ELSE {EOF} : result' = [Nothing EXCEPT !.count = c]
    BY <1>10
  <2>2. Plain!Nothing = Nothing /\ Plain!EOF = EOF
    BY DEF Plain!Nothing, Nothing, Plain!EOF, EOF
  <2>3. c \in IF y >= 0 THEN 0 .. y ELSE {EOF}
    BY <1>8, <2>1
  <2> QED BY <2>1, <2>2, <2>3
<1>23. z = IF y >= 0 THEN y ELSE At(f)
  BY <1>3, <1>11
<1>24. PICK d : d = Shown(f)
  OBVIOUS
<1>25. PICK p : p = At(f)
  OBVIOUS
<1>26. y = o + CASE base = "SEEK_SET" -> 0
                 [] base = "SEEK_CUR" -> Position + f.cursor
                 [] base = "SEEK_END" -> Len(Overwrite(f.data, Position, Waiting))
  BY <1>4, <1>6, MapFacts
<1>27. (Position + f.cursor)' = IF y >= 0 THEN y ELSE Position + f.cursor
  BY <1>13, <1>19, <1>23, MapFacts
<1>28. /\ (Overwrite(f.data, Position, Waiting))' = Overwrite(f.data, Position, Waiting)
       /\ f'.exists = f.exists /\ f'.mode = f.mode
  BY <1>13, <1>19, <1>20, MapFacts
<1>29. Plain!fseek(o, base)
  BY <1>1, <1>22, <1>26, <1>27, <1>28, Zenon DEF Plain!fseek
<1> QED BY <1>13, <1>21, <1>29

(* What a closed stream starts with is what a plain file starts with.      *)
LEMMA InitRefines == Init => InOrder(f) /\ Plain!Init
<1> SUFFICES ASSUME Init PROVE InOrder(f) /\ Plain!Init
  OBVIOUS
<1>1. PICK d, e : /\ f = Closed(d, e) /\ e \in BOOLEAN
                  /\ d \in IF e THEN Files ELSE {<<>>}
  BY DEF Init
<1>2. /\ f.mode = "closed" /\ ~f.allocated /\ f.offset = 0 /\ f.cursor = 0 /\ f.data = d
      /\ f.exists = e /\ f.buffer_end = 0
  BY <1>1 DEF Closed
<1>3. InOrder(f)
  BY <1>2 DEF InOrder
<1>4. Sound(f)
  BY InitInv DEF StdioInv
<1>5. Shown(f) = d /\ At(f) = 0
  BY <1>2, <1>4, EmptyShown
<1>6. result = Plain!Nothing
  BY DEF Init, Nothing, Plain!Nothing
<1>7. Plain!Init
  BY <1>1, <1>2, <1>5, <1>6, MapFacts DEF Plain!Init
<1> QED BY <1>3, <1>7

(* Every step of the stream is a step of the plain file, or none.          *)
LEMMA StepRefines ==
  ASSUME PlainCaller, PlainInv, [Next]_vars
  PROVE  InOrder(f') /\ [Plain!Next]_(Plain!vars)
<1>1. ASSUME NEW m \in Modes, fopen(m) PROVE InOrder(f') /\ Plain!Next
  BY <1>1, OpenRefines DEF Plain!Next
<1>2. ASSUME NEW r \in ReadSizes, fread(r[1], r[2]) PROVE InOrder(f') /\ Plain!Next
  BY <1>2, FreadStepRefines DEF Plain!Next
<1>3. CASE fgetc
  BY <1>3, FgetcRefines DEF Plain!Next
<1>4. ASSUME NEW w \in WriteSizes, fwrite(w[1], w[2], Bytes(w[1] * w[2]))
      PROVE  InOrder(f') /\ Plain!Next
  BY <1>4, FwriteStepRefines DEF Plain!Next
<1>5. CASE fputc(WRITTEN)
  BY <1>5, FputcRefines DEF Plain!Next
<1>6. CASE fflush
  BY <1>6, FflushRefines DEF Plain!Next
<1>7. ASSUME NEW o \in Offsets, NEW b \in {"SEEK_SET", "SEEK_CUR", "SEEK_END"},
             fseek(o, b)
      PROVE  InOrder(f') /\ Plain!Next
  BY <1>7, FseekRefines DEF Plain!Next
<1>8. CASE fclose
  BY <1>8, FcloseRefines DEF Plain!Next
<1>9. CASE UNCHANGED vars
  <2>1. f' = f /\ result' = result
    BY <1>9 DEF vars
  <2>2. InOrder(f')
    BY <2>1 DEF PlainInv
  <2>3. UNCHANGED Plain!vars
    BY <2>1, MapFacts DEF Plain!vars
  <2> QED BY <2>2, <2>3
<1> QED BY <1>1, <1>2, <1>3, <1>4, <1>5, <1>6, <1>7, <1>8, <1>9 DEF Next

(* What is in the buffer belongs where it is: the invariant that the       *)
(* refinement needs.                                                       *)
LEMMA PlainInvariance ==
  ASSUME PlainCaller
  PROVE  Spec => []PlainInv
<1>1. Init => PlainInv
  BY InitInv, InitRefines DEF PlainInv
<1>2. PlainInv /\ [Next]_vars => PlainInv'
  <2> SUFFICES ASSUME PlainInv, [Next]_vars PROVE PlainInv'
    OBVIOUS
  <2>1. StdioInv'
    BY StepInv DEF PlainInv
  <2>2. InOrder(f')
    BY StepRefines
  <2> QED BY <2>1, <2>2 DEF PlainInv, InOrder, InPlace
<1> QED BY <1>1, <1>2, PTL DEF Spec

(* A buffer that was only read holds the file from the descriptor's offset *)
(* on, one that appends ends at the cursor and will be written, and a      *)
(* closed stream holds nothing, however the calls are mixed.               *)
THEOREM BufferStaysInPlace ==
  ASSUME PlainCaller
  PROVE  Spec => []BufferInPlace
<1>1. PlainInv => BufferInPlace
  BY DEF PlainInv, InOrder, InPlace, BufferInPlace, IsOpen
<1> QED BY <1>1, PlainInvariance, PTL

(* The buffer cannot be noticed: for such a caller every call on the       *)
(* stream is that call on a plain file, for every file, every size of the  *)
(* buffer and every sequence of calls.                                     *)
THEOREM PlainFileRefinement ==
  ASSUME PlainCaller
  PROVE  Spec => ImplementsPlainFile
<1>1. Init => Plain!Init
  BY InitRefines
<1>2. PlainInv /\ [Next]_vars => [Plain!Next]_(Plain!vars)
  BY StepRefines
<1> QED BY <1>1, <1>2, PlainInvariance, PTL DEF Spec, ImplementsPlainFile, Plain!Spec

(* What such a caller is told of the elements it read is right.            *)
THEOREM ShortReadsAreCounted ==
  ASSUME PlainCaller
  PROVE  Spec => CountIsBytesRead
<1>1. ASSUME PlainInv, NEW r \in ReadSizes, fread(r[1], r[2])
      PROVE  result'.count = Len(result'.bytes) \div r[1]
  <2>1. Plain!fread(r[1], r[2])
    BY <1>1, FreadStepRefines
  <2>2. \E b : result' = [bytes |-> b, count |-> Len(b) \div r[1]]
    BY <2>1 DEF Plain!fread, Plain!Get
  <2> QED BY <2>2
<1>2. PlainInv /\ [Next]_vars =>
        [\A r \in ReadSizes :
            fread(r[1], r[2]) => result'.count = Len(result'.bytes) \div r[1]]_vars
  BY <1>1
<1> QED BY <1>2, PlainInvariance, PTL DEF Spec, CountIsBytesRead

(* What was accepted on an append stream is what a caller sees.            *)
DueShown == f.mode = "a" => due = Len(Shown(f))

(* ... after every step.                                                   *)
LEMMA DueStays ==
  ASSUME PlainCaller, PlainInv, DueShown, [Next]_vars
  PROVE  DueShown'
<1>1. f \in FileType /\ Sound(f) /\ Shown(f) \in Seq(Byte) /\ At(f) \in Nat
  BY ModeFacts
<1>2. ASSUME NEW m \in Modes, fopen(m) PROVE DueShown'
  <2>1. Plain!fopen(m)
    BY <1>2, OpenRefines
  <2>2. Shown(f) = f.data /\ f.mode = "closed"
    BY <1>1, <1>2, EmptyShown DEF PlainInv, InOrder, fopen, IsOpen
  <2>3. CASE f' = f
    BY <2>2, <2>3 DEF DueShown
  <2>4. CASE ~(~f.exists /\ m \in {"r", "r+"})
    <3>1. f'.mode = m /\ due' = IF Appends(m) THEN Len(f.data) ELSE 0
      BY <1>1, <1>2, <2>4 DEF fopen, FileType
    <3>2. m = "a" => Shown(f') = Shown(f)
      BY <2>1, <2>4, MapFacts DEF Plain!fopen
    <3> QED BY <2>2, <3>1, <3>2 DEF DueShown, Appends
  <2> QED BY <1>2, <2>3, <2>4 DEF fopen
<1>3. ASSUME Shown(f') = Shown(f), f'.mode = f.mode, due' = due PROVE DueShown'
  BY <1>3 DEF DueShown
<1>4. ASSUME NEW r \in ReadSizes, fread(r[1], r[2]) PROVE DueShown'
  <2>1. Plain!fread(r[1], r[2]) /\ due' = due
    BY <1>4, FreadStepRefines DEF fread, ReturnsFrom
  <2> QED BY <1>3, <2>1, MapFacts DEF Plain!fread, Plain!Get
<1>5. CASE fgetc
  <2>1. Plain!fgetc /\ due' = due
    BY <1>5, FgetcRefines DEF fgetc, ReturnsFrom
  <2> QED BY <1>3, <2>1, MapFacts DEF Plain!fgetc, Plain!Get
<1>6. ASSUME NEW s \in Seq(Byte), NEW done, NEW failed, Fwrite(s, done, failed)
      PROVE  DueShown'
  <2>1. Plain!Put(s, done, failed)
    BY <1>6, PutStepRefines
  <2>2. f'.mode = f.mode
    BY <2>1 DEF Plain!Put
  <2>3. CASE f.mode = "a" /\ s # <<>>
    <3>1. due' = due + Len(s)
      BY <1>6, <2>3 DEF Fwrite, Writable, Appends
    <3>2. PICK d \in Seq(Byte) : d = Shown(f)
      BY <1>1
    <3>3. Shown(f') = Plain!WrittenAt(d, Len(d), s)
      BY <2>1, <2>3, <3>2, MapFacts DEF Plain!Put, Plain!Writable, Plain!Appends
    <3>4. PICK e : e = Overwrite(d, Len(d), s)
      OBVIOUS
    <3>5. Len(e) = IF Len(d) >= Len(d) + Len(s) THEN Len(d) ELSE Len(d) + Len(s)
      BY <2>3, <3>4, OverwriteLen
    <3>6. Len(s) > 0
      BY <2>3
    <3>7. Len(e) = Len(d) + Len(s)
      BY <3>5, <3>6
    <3>8. Shown(f') = e
      BY <3>3, <3>4, WrittenAtOverwrites
    <3> QED BY <2>2, <2>3, <3>1, <3>2, <3>7, <3>8 DEF DueShown
  <2>4. CASE f.mode = "a" /\ s = <<>>
    <3>1. due' = due /\ Shown(f') = Shown(f)
      BY <1>6, <2>1, <2>4, MapFacts DEF Fwrite, Plain!Put
    <3> QED BY <1>3, <2>2, <3>1
  <2>5. CASE f.mode # "a"
    BY <2>2, <2>5 DEF DueShown
  <2> QED BY <2>3, <2>4, <2>5
<1>7. ASSUME NEW w \in WriteSizes, fwrite(w[1], w[2], Bytes(w[1] * w[2]))
      PROVE  DueShown'
  <2>1. PICK s : s = Bytes(w[1] * w[2])
    OBVIOUS
  <2>2. w[1] * w[2] \in Nat
    BY SizeAssumption
  <2>3. s \in Seq(Byte)
    BY <2>1, <2>2, ByteFacts DEF Bytes
  <2> QED BY <1>6, <1>7, <2>1, <2>3 DEF fwrite
<1>8. CASE fputc(WRITTEN)
  <2>1. <<WRITTEN>> \in Seq(Byte)
    BY ByteFacts
  <2> QED BY <1>6, <1>8, <2>1 DEF fputc
<1>9. CASE fflush
  <2>1. Plain!fflush /\ due' = due
    BY <1>9, FflushRefines DEF fflush
  <2> QED BY <1>3, <2>1, MapFacts DEF Plain!fflush
<1>10. ASSUME NEW o \in Offsets, NEW b \in {"SEEK_SET", "SEEK_CUR", "SEEK_END"},
              fseek(o, b)
       PROVE  DueShown'
  <2>1. Plain!fseek(o, b) /\ due' = due
    BY <1>10, FseekRefines DEF fseek
  <2> QED BY <1>3, <2>1, MapFacts DEF Plain!fseek
<1>11. CASE fclose
  <2>1. Plain!fclose
    BY <1>11, FcloseRefines
  <2> QED BY <2>1 DEF Plain!fclose, DueShown
<1>12. CASE UNCHANGED vars
  BY <1>3, <1>12 DEF vars
<1> QED BY <1>2, <1>4, <1>5, <1>7, <1>8, <1>9, <1>10, <1>11, <1>12 DEF Next

(* On a stream that only appends, all that fwrite accepted is in the file  *)
(* after fflush: what is lost on an a+ stream is lost to its reading.      *)
THEOREM PlainAppendsReachTheFile ==
  ASSUME PlainCaller
  PROVE  Spec => AppendsReachTheFile
<1>1. Init => DueShown
  BY DEF Init, Closed, DueShown
<1>2. PlainInv /\ DueShown /\ [Next]_vars => DueShown'
  BY DueStays
<1>3. PlainInv /\ DueShown /\ [Next]_vars =>
        [fflush /\ Appends(f.mode) => Len(f'.data) >= due]_vars
  <2> SUFFICES ASSUME PlainInv, DueShown, fflush, Appends(f.mode)
               PROVE  Len(f'.data) >= due
    OBVIOUS
  <2>1. f.mode = "a" /\ Sound(f) /\ due \in Nat
    BY ModeFacts DEF PlainInv, StdioInv, Appends
  <2>2. f.mode = "a" => (f.allocated => f.write_start)
    BY DEF PlainInv, InOrder
  <2>3. PICK h : h = Flushed(f)
    OBVIOUS
  <2>4. h.data = Shown(f) /\ f' = h
    BY <2>1, <2>2, <2>3, FlushedRefines DEF fflush
  <2> QED BY <2>1, <2>4 DEF DueShown
<1> QED BY <1>1, <1>2, <1>3, PlainInvariance, PTL DEF Spec, AppendsReachTheFile

---------------------------------------------------------------------------
(* The two indicators stay.                                                *)
Marks(g, h) == h.eof = g.eof /\ h.eof_seen = g.eof_seen

(* A stream whose buffer is the last one of the file, when eof_seen says   *)
(* so.                                                                     *)
EofAt(g) ==
    g.eof_seen => /\ g.mode \in {"r", "r+", "w+"}
                  /\ Len(g.data) <= g.offset + g.buffer_end

(* Nothing is left of the file behind the descriptor, when eof_seen says   *)
(* that the end was met.                                                   *)
EofBehind(g) ==
    g.eof_seen => g.mode \in {"r", "r+", "w+"} /\ Len(g.data) <= g.offset

(* write and lseek leave the indicators,                                   *)
LEMMA CallMarks ==
  ASSUME NEW g \in FileType
  PROVE  /\ \A s \in Seq(Byte) : Marks(g, Write(g, s))
         /\ \A d \in Int : Marks(g, Seek(g, d))
<1>1. ASSUME NEW s \in Seq(Byte) PROVE Marks(g, Write(g, s))
  <2>1. PICK p : p = WriteAt(g, s)
    OBVIOUS
  <2>2. PICK d : d = Overwrite(g.data, p, s)
    OBVIOUS
  <2>3. PICK o : o = p + Len(s)
    OBVIOUS
  <2>4. PICK w : w = Write(g, s)
    OBVIOUS
  <2>5. w = [g EXCEPT !.data = d, !.offset = o]
    BY <2>1, <2>2, <2>3, <2>4 DEF Write, WriteAt
  <2> QED BY <2>4, <2>5 DEF FileType, Marks
<1>2. ASSUME NEW d \in Int PROVE Marks(g, Seek(g, d))
  <2>1. PICK o : o = IF g.offset + d >= 0 THEN g.offset + d ELSE g.offset
    OBVIOUS
  <2>2. PICK h : h = Seek(g, d)
    OBVIOUS
  <2>3. h = [g EXCEPT !.offset = o]
    BY <2>1, <2>2 DEF Seek, FileType
  <2> QED BY <2>2, <2>3 DEF FileType, Marks
<1> QED BY <1>1, <1>2

(* ... and so do the helpers that write and clear the buffer.              *)
LEMMA FlushMarks ==
  ASSUME NEW g, Sound(g), NEW size \in Nat, size <= Len(g.buffer)
  PROVE  Marks(g, buffer_to_file_write(g, size))
<1>1. g \in FileType /\ g.cursor \in Int /\ g.buffer \in Seq(Byte)
  BY DEF Sound, FileType
<1>2. PICK s : s = SubSeq(g.buffer, 1, size)
  OBVIOUS
<1>3. s \in Seq(Byte)
  BY <1>1, <1>2, SplitFacts
<1>4. PICK w : w = Write(g, s)
  OBVIOUS
<1>5. w \in FileType /\ Marks(g, w)
  BY <1>1, <1>3, <1>4, WriteEffect, CallMarks
<1>6. PICK u : u = Seek(w, -size)
  OBVIOUS
<1>7. u \in FileType /\ Marks(w, u)
  <2>1. -size \in Int
    OBVIOUS
  <2> QED BY <1>5, <1>6, <2>1, SeekEffect, CallMarks
<1>8. PICK v : v = Seek(u, g.cursor)
  OBVIOUS
<1>9. v \in FileType /\ Marks(u, v)
  BY <1>1, <1>7, <1>8, SeekEffect, CallMarks
<1>10. PICK b : b = Fill(v.buffer, Zeros(size))
  OBVIOUS
<1>11. PICK h : h = buffer_to_file_write(g, size)
  OBVIOUS
<1>12. h = [v EXCEPT !.buffer = b, !.cursor = 0, !.buffer_end = 0]
  BY <1>2, <1>4, <1>6, <1>8, <1>10, <1>11 DEF buffer_to_file_write
<1>13. Marks(v, h)
  BY <1>9, <1>12 DEF FileType, Marks
<1> QED BY <1>5, <1>7, <1>9, <1>11, <1>13 DEF Marks

(* The one that clears keeps buffer_end, too.                              *)
LEMMA ClearMarks ==
  ASSUME NEW g, Sound(g), NEW size \in Nat
  PROVE  LET h == buffer_clear_and_sync(g, size)
         IN  Marks(g, h) /\ h.buffer_end = g.buffer_end
<1>1. g \in FileType /\ g.cursor \in Int
  BY DEF Sound, FileType
<1>2. PICK v : v = Seek(g, g.cursor)
  OBVIOUS
<1>3. v \in FileType /\ Marks(g, v) /\ v.buffer_end = g.buffer_end
  BY <1>1, <1>2, SeekEffect, SeekSound, CallMarks
<1>4. PICK b : b = Fill(v.buffer, Zeros(size))
  OBVIOUS
<1>5. PICK h : h = buffer_clear_and_sync(g, size)
  OBVIOUS
<1>6. h = [v EXCEPT !.buffer = b, !.cursor = 0]
  BY <1>2, <1>4, <1>5 DEF buffer_clear_and_sync
<1>7. Marks(v, h) /\ h.buffer_end = v.buffer_end
  BY <1>3, <1>6 DEF FileType, Marks
<1> QED BY <1>3, <1>5, <1>7 DEF Marks

(* The file a caller sees is no longer than the buffer reaches.            *)
LEMMA ShownLen ==
  ASSUME NEW g, Sound(g), g.mode \in {"r", "r+", "w+"},
         Len(g.data) <= g.offset + g.buffer_end
  PROVE  Base(g) = g.offset /\ Len(Shown(g)) <= g.offset + g.buffer_end
<1>1. /\ g.data \in Seq(Byte) /\ g.offset \in Nat /\ g.buffer_end \in Nat
      /\ Len(g.data) \in Nat
  BY DEF Sound, FileType
<1>2. PICK w \in Seq(Byte) : w = Held(g)
  BY MappedTypes
<1>3. Len(w) \in Nat /\ Len(w) <= g.buffer_end
  BY <1>1, <1>2, MappedTypes
<1>4. Base(g) = g.offset
  BY DEF Base, Appends
<1>5. PICK e : e = Overwrite(g.data, g.offset, w)
  OBVIOUS
<1>6. Shown(g) = e
  BY <1>2, <1>4, <1>5 DEF Shown
<1>7. CASE w = <<>>
  BY <1>4, <1>5, <1>6, <1>7, OverwriteNone
<1>8. CASE w # <<>>
  <2>1. Len(e) = IF Len(g.data) >= g.offset + Len(w) THEN Len(g.data) ELSE g.offset + Len(w)
    BY <1>1, <1>5, <1>8, OverwriteLen
  <2> QED BY <1>1, <1>3, <1>4, <1>6, <2>1
<1> QED BY <1>7, <1>8

(* A refill that meets the end of the file tells it.                       *)
LEMMA RefillEof ==
  ASSUME NEW g, Sound(g), g.allocated, g.mode \in {"r", "r+", "w+"}, EofBehind(g)
  PROVE  LET h == file_to_buffer_read(g)
         IN  /\ EofAt(h) /\ h.eof = g.eof
             /\ g.eof_seen => h.buffer_end = 0
<1>1. g \in FileType /\ g.data \in Seq(Byte) /\ g.eof_seen \in BOOLEAN
  BY DEF Sound, FileType
<1>2. PICK l \in Nat : l = Len(g.data)
  BY <1>1
<1>3. PICK o \in Nat : o = g.offset
  BY <1>1 DEF FileType
<1>4. PICK s : s = BytesRead(g, BUFSIZE)
  OBVIOUS
<1>5. PICK b : b = Fill(g.buffer, s)
  OBVIOUS
<1>6. PICK h : h = file_to_buffer_read(g)
  OBVIOUS
<1>7. PICK e : e = (g.eof_seen \/ Len(s) # BUFSIZE)
  OBVIOUS
<1>8. PICK n : n = Len(s)
  OBVIOUS
<1>9. h = [g EXCEPT !.buffer = b, !.buffer_end = n, !.cursor = 0, !.eof_seen = e]
  BY <1>4, <1>5, <1>6, <1>7, <1>8 DEF file_to_buffer_read
<1>10. h.eof = g.eof /\ h.eof_seen = e /\ h.buffer_end = n /\ h.mode = g.mode
  BY <1>1, <1>9 DEF FileType
<1>11. h.data = g.data /\ h.offset = o /\ n = Available(l, o, BUFSIZE)
  BY <1>2, <1>3, <1>6, <1>10, RefillEffect
<1>12. BUFSIZE \in Nat
  BY ByteFacts
<1>13. g.eof_seen => n = 0 /\ l <= o
  <2> SUFFICES ASSUME g.eof_seen PROVE n = 0 /\ l <= o
    OBVIOUS
  <2>1. l <= o
    BY <1>2, <1>3 DEF EofBehind
  <2> QED BY <1>11, <1>12, <2>1 DEF Available
<1>14. n # BUFSIZE => l <= o + n
  BY <1>11, <1>12 DEF Available
<1>15. e => l <= o + n
  <2>1. CASE g.eof_seen
    BY <1>13, <2>1
  <2>2. CASE n # BUFSIZE
    BY <1>14, <2>2
  <2>3. e => g.eof_seen \/ n # BUFSIZE
    BY <1>7, <1>8
  <2> QED BY <2>1, <2>2, <2>3
<1>16. EofAt(h)
  <2>1. h.eof_seen => l <= o + n
    BY <1>10, <1>15
  <2> QED BY <1>2, <1>10, <1>11, <2>1 DEF EofAt
<1> QED BY <1>6, <1>10, <1>13, <1>16

(* The first buffer, too.                                                  *)
LEMMA AllocateEof ==
  ASSUME NEW g, Sound(g), ~g.allocated, g.mode \in {"r", "r+", "w+"}, EofAt(g)
  PROVE  EofAt(file_to_buffer_read(do_allocate_buffer(g)))
<1>1. PICK x : x = do_allocate_buffer(g)
  OBVIOUS
<1>2. Sound(x) /\ x.mode = g.mode /\ x.allocated
  BY <1>1, AllocateSound
<1>3. g \in FileType
  BY DEF Sound
<1>4. x = [g EXCEPT !.allocated = TRUE, !.buffer = Junk(BUFSIZE)]
  BY <1>1 DEF do_allocate_buffer
<1>5. x.data = g.data /\ x.offset = g.offset /\ x.eof_seen = g.eof_seen
  BY <1>3, <1>4 DEF FileType
<1>6. g.buffer_end = 0 /\ g.offset + 0 = g.offset
  BY <1>3, EmptyShown DEF FileType
<1>7. EofBehind(x)
  BY <1>2, <1>5, <1>6 DEF EofAt, EofBehind
<1> QED BY <1>1, <1>2, <1>7, RefillEof

(* What fread takes from the buffer leaves all this alone,                 *)
LEMMA TakeEof ==
  ASSUME NEW r, Loop(r), NEW n \in Nat, n <= r.want,
         n <= r.f.buffer_end - r.f.cursor
  PROVE  LET t == Take(r, n)
         IN  Marks(r.f, t.f) /\ (EofAt(r.f) => EofAt(t.f))
<1>1. PICK g \in FileType : g = r.f
  BY DEF Loop
<1>2. PICK c : c = g.cursor + n
  OBVIOUS
<1>3. PICK h : h = [g EXCEPT !.cursor = c]
  OBVIOUS
<1>4. PICK b : b = r.bytes \o InBuffer(r.f, n)
  OBVIOUS
<1>5. PICK t : t = Take(r, n)
  OBVIOUS
<1>6. t = [r EXCEPT !.f = h, !.bytes = b, !.want = @ - n]
  BY <1>1, <1>2, <1>3, <1>4, <1>5 DEF Take
<1>7. t.f = h
  BY <1>6 DEF Loop
<1>8. Marks(g, h) /\ h.data = g.data /\ h.offset = g.offset /\ h.mode = g.mode
      /\ h.buffer_end = g.buffer_end
  BY <1>3 DEF FileType, Marks
<1>9. EofAt(g) => EofAt(h)
  BY <1>8 DEF EofAt, Marks
<1> QED BY <1>1, <1>5, <1>7, <1>8, <1>9

(* ... and when it has drained the buffer, the end that eof_seen tells of  *)
(* is not behind the descriptor.                                           *)
LEMMA DrainEof ==
  ASSUME NEW r, Loop(r), Reads(r.f), r.f.buffer_end - r.f.cursor < r.want, EofAt(r.f)
  PROVE  LET d == Drain(r)
         IN  Marks(r.f, d.f) /\ EofBehind(d.f)
<1>1. /\ Sound(r.f) /\ r.f.cursor \in Nat /\ r.f.buffer_end \in Nat /\ r.f.offset \in Nat
      /\ r.f.mode \in {"r", "r+", "w+"} /\ r.want \in Nat /\ r.f.cursor <= r.f.buffer_end
  BY DEF Loop, Reads, Sound, FileType
<1>2. PICK n \in Nat : n = r.f.buffer_end - r.f.cursor
  BY <1>1
<1>3. PICK d : d = Drain(r)
  OBVIOUS
<1>4. d.f.data = Shown(r.f) /\ d.f.offset = At(r.f) + n /\ Kept(r.f, d.f)
  BY <1>2, <1>3, DrainRefines
<1>5. PICK t : t = Take(r, n)
  OBVIOUS
<1>6. n <= r.want /\ n <= r.f.buffer_end - r.f.cursor
  BY <1>1, <1>2
<1>7. Loop(t) /\ t.f.cursor = r.f.cursor + n /\ t.f.buffer_end = r.f.buffer_end
  BY <1>5, <1>6, TakeFacts
<1>8. Marks(r.f, t.f)
  BY <1>5, <1>6, TakeEof
<1>9. PICK x : x = t.f
  OBVIOUS
<1>10. Sound(x) /\ x.cursor \in Nat /\ x.cursor <= Len(x.buffer)
  <2>1. Sound(x) /\ x.cursor \in Nat /\ x.buffer_end \in Nat /\ Len(x.buffer) \in Nat
    BY <1>7, <1>9 DEF Loop, FileType
  <2> QED BY <2>1 DEF Sound
<1>11. PICK g : g = IF Writable(x.mode) THEN buffer_to_file_write(x, x.cursor)
                                        ELSE buffer_clear_and_sync(x, BUFSIZE)
  OBVIOUS
<1>12. Marks(x, g)
  BY <1>10, <1>11, FlushMarks, ClearMarks, ByteFacts
<1>13. d = [t EXCEPT !.f = g]
  BY <1>2, <1>3, <1>5, <1>9, <1>11 DEF Drain
<1>14. d.f = g
  BY <1>7, <1>13 DEF Loop
<1>15. Marks(r.f, d.f)
  BY <1>8, <1>9, <1>12, <1>14 DEF Marks
<1>16. d.f.eof_seen => Len(Shown(r.f)) <= At(r.f) + n
  <2> SUFFICES ASSUME d.f.eof_seen PROVE Len(Shown(r.f)) <= At(r.f) + n
    OBVIOUS
  <2>1. Len(r.f.data) <= r.f.offset + r.f.buffer_end
    BY <1>15 DEF Marks, EofAt
  <2>2. Base(r.f) = r.f.offset /\ Len(Shown(r.f)) <= r.f.offset + r.f.buffer_end
    BY <1>1, <2>1, ShownLen
  <2>3. At(r.f) + n = r.f.offset + r.f.buffer_end
    <3>1. At(r.f) = r.f.offset + r.f.cursor
      BY <2>2 DEF At
    <3> QED BY <1>1, <1>2, <3>1
  <2> QED BY <2>2, <2>3
<1>17. EofBehind(d.f)
  BY <1>1, <1>4, <1>16 DEF EofBehind, Kept
<1> QED BY <1>3, <1>15, <1>17

(* check_eof tells the end only if eof_seen does.                          *)
LEMMA CheckEof ==
  ASSUME NEW g, Sound(g), NEW want, NEW have
  PROVE  LET h == check_eof(g, want, have)
         IN  /\ Alike(g, h) /\ h.cursor = g.cursor /\ h.eof_seen = g.eof_seen
             /\ h.eof <=> (g.eof_seen /\ want > have)
             /\ h.eof \in BOOLEAN
<1>1. g \in FileType
  BY DEF Sound
<1>2. PICK e : e = (g.eof_seen /\ want > have)
  OBVIOUS
<1>3. PICK h : h = check_eof(g, want, have)
  OBVIOUS
<1>4. h = [g EXCEPT !.eof = e]
  BY <1>2, <1>3 DEF check_eof
<1>5. h.eof = e /\ h.eof_seen = g.eof_seen /\ Alike(g, h) /\ h.cursor = g.cursor
  BY <1>1, <1>4 DEF FileType, Alike, Kept
<1>6. e \in BOOLEAN
  BY <1>2
<1>7. h.eof <=> (g.eof_seen /\ want > have)
  BY <1>2, <1>5
<1>8. h.eof \in BOOLEAN
  BY <1>5, <1>6
<1> QED BY <1>3, <1>5, <1>7, <1>8

(* With the next buffer a read that gets all it wants is not at the end.   *)
LEMMA TakeFromNextEof ==
  ASSUME NEW r, GoesOn(r), r.want < BUFSIZE, r.f.mode \in {"r", "r+", "w+"},
         EofBehind(r.f), r.f.eof => r.f.eof_seen
  PROVE  LET t == TakeFromNext(r)
         IN  EofAt(t.f) /\ (t.want = 0 => ~t.f.eof)
<1>1. /\ Loop(r) /\ Sound(r.f) /\ r.f.allocated /\ r.want \in Nat
      /\ r \in [f : FileType, want : Nat, bytes : Seq(Byte), over : BOOLEAN, count : Int]
  BY DEF GoesOn, Loop
<1>2. PICK g : g = file_to_buffer_read(r.f)
  OBVIOUS
<1>3. EofAt(g) /\ g.eof = r.f.eof /\ (r.f.eof_seen => g.buffer_end = 0)
  BY <1>1, <1>2, RefillEof
<1>4. /\ Sound(g) /\ SameStream(r.f, g) /\ g.cursor = 0 /\ g.buffer_end <= BUFSIZE
  BY <1>1, <1>2, RefillSound
<1>5. PICK n \in Nat : n = g.buffer_end
  BY <1>4 DEF Sound, FileType
<1>6. g.allocated /\ BUFSIZE \in Nat
  BY <1>1, <1>4, ByteFacts DEF SameStream
<1>7. CASE n < BUFSIZE /\ r.want >= n
  <2>1. PICK h : h = check_eof(g, r.want, n)
    OBVIOUS
  <2>2. Alike(g, h) /\ h.cursor = g.cursor /\ h.eof_seen = g.eof_seen
        /\ (h.eof <=> (g.eof_seen /\ r.want > n))
    BY <1>4, <2>1, CheckEof
  <2>3. Sound(h) /\ h.allocated
    <3>1. Sound(h)
      BY <1>1, <1>4, <1>5, <2>1, CheckSound
    <3> QED BY <1>6, <2>2, <3>1 DEF Alike, Kept
  <2>4. EofAt(h)
    BY <1>3, <2>2 DEF EofAt, Alike, Kept
  <2>5. PICK q : q = SetStream(r, h)
    OBVIOUS
  <2>6. Loop(q) /\ q.f = h /\ q.want = r.want
    BY <1>1, <2>3, <2>5, StreamField
  <2>7. n <= q.want /\ n <= q.f.buffer_end - q.f.cursor
    BY <1>1, <1>4, <1>5, <1>7, <2>2, <2>6 DEF Alike
  <2>8. PICK u : u = Take(q, n)
    OBVIOUS
  <2>9. Loop(u) /\ u.want = r.want - n /\ Marks(h, u.f) /\ EofAt(u.f)
    BY <2>4, <2>6, <2>7, <2>8, TakeFacts, TakeEof
  <2>10. PICK t : t = TakeFromNext(r)
    OBVIOUS
  <2>11. t = [u EXCEPT !.over = TRUE]
    BY <1>2, <1>5, <1>7, <2>1, <2>5, <2>8, <2>10 DEF TakeFromNext, SetStream
  <2>12. t.f = u.f /\ t.want = u.want
    BY <2>9, <2>11 DEF Loop
  <2>13. t.want = 0 => ~(r.want > n)
    BY <1>1, <2>9, <2>12
  <2>14. t.want = 0 => ~t.f.eof
    BY <2>2, <2>9, <2>12, <2>13 DEF Marks
  <2> QED BY <2>9, <2>10, <2>12, <2>14
<1>8. CASE ~(n < BUFSIZE /\ r.want >= n)
  <2>1. r.want <= n
    BY <1>1, <1>4, <1>5, <1>6, <1>8
  <2>2. ~r.f.eof_seen
    <3> SUFFICES ASSUME r.f.eof_seen PROVE FALSE
      OBVIOUS
    <3>1. n = 0
      BY <1>3, <1>5
    <3> QED BY <1>1, <1>6, <1>8, <3>1, ByteFacts
  <2>3. ~g.eof
    BY <1>3, <2>2
  <2>4. PICK q : q = SetStream(r, g)
    OBVIOUS
  <2>5. Loop(q) /\ q.f = g /\ q.want = r.want
    BY <1>1, <1>4, <1>6, <2>4, StreamField
  <2>6. PICK k \in Nat : k = r.want
    BY <1>1
  <2>7. k <= q.want /\ k <= q.f.buffer_end - q.f.cursor
    BY <1>4, <1>5, <2>1, <2>5, <2>6
  <2>8. PICK t : t = Take(q, k)
    OBVIOUS
  <2>9. Marks(g, t.f) /\ EofAt(t.f)
    BY <1>3, <2>5, <2>7, <2>8, TakeEof
  <2>10. TakeFromNext(r) = t
    BY <1>2, <1>5, <1>8, <2>4, <2>6, <2>8 DEF TakeFromNext, SetStream
  <2> QED BY <2>3, <2>9, <2>10 DEF Marks
<1> QED BY <1>7, <1>8

(* So it is with one pass of the loop,                                     *)
LEMMA ReadPassEof ==
  ASSUME NEW r, GoesOn(r), Reads(r.f), r.want > 0, r.want < BUFSIZE, EofAt(r.f)
  PROVE  LET t == ReadLoop(r)
         IN  EofAt(t.f) /\ (t.want = 0 => ~t.f.eof)
<1>1. /\ Loop(r) /\ Sound(r.f) /\ r.f.allocated /\ r.want \in Nat /\ r.count = EOF /\ ~r.over
      /\ r.f.cursor \in Nat /\ r.f.buffer_end \in Nat /\ r.f.cursor <= r.f.buffer_end
      /\ r.f.mode \in {"r", "r+", "w+"}
  BY DEF GoesOn, Loop, Reads, Sound, FileType
<1>2. PICK have \in Nat : have = r.f.buffer_end - r.f.cursor
  BY <1>1
<1>3. PICK h : h = check_eof(r.f, r.want, have)
  OBVIOUS
<1>4. PICK c : c = SetStream(r, h)
  OBVIOUS
<1>5. PICK d : d = Drain(c)
  OBVIOUS
<1>6. ReadLoop(r) = IF r.want <= have THEN Take(c, r.want)
                    ELSE IF d.want < BUFSIZE THEN TakeFromNext(d) ELSE ReadDirectly(d)
  BY <1>1, <1>2, <1>3, <1>4, <1>5 DEF ReadLoop, SetStream
<1>7. /\ Alike(r.f, h) /\ h.cursor = r.f.cursor /\ h.eof_seen = r.f.eof_seen
      /\ h.eof <=> (r.f.eof_seen /\ r.want > have)
  BY <1>1, <1>3, CheckEof
<1>8. Sound(h) /\ h.allocated /\ Reads(h)
  <2>1. Sound(h)
    BY <1>1, <1>3, CheckSound
  <2> QED BY <1>1, <1>7, <2>1, AlikeShown DEF Alike, Kept
<1>9. EofAt(h)
  BY <1>7 DEF EofAt, Alike, Kept
<1>10. Loop(c) /\ c.f = h /\ c.want = r.want /\ ~c.over /\ c.count = EOF
  BY <1>1, <1>4, <1>8, StreamField
<1>11. c.f.buffer_end - c.f.cursor = have
  BY <1>2, <1>7, <1>10 DEF Alike
<1>12. CASE r.want <= have
  <2>1. PICK k \in Nat : k = r.want
    BY <1>1
  <2>2. PICK t : t = Take(c, k)
    OBVIOUS
  <2>3. k <= c.want /\ k <= c.f.buffer_end - c.f.cursor
    BY <1>10, <1>11, <1>12, <2>1
  <2>4. Marks(h, t.f) /\ EofAt(t.f)
    BY <1>9, <1>10, <2>2, <2>3, TakeEof
  <2>5. ~(r.want > have)
    BY <1>1, <1>12
  <2>6. ~t.f.eof
    BY <1>7, <2>4, <2>5 DEF Marks
  <2>7. ReadLoop(r) = t
    BY <1>6, <1>12, <2>1, <2>2
  <2> QED BY <2>4, <2>6, <2>7
<1>13. CASE ~(r.want <= have)
  <2>1. c.f.buffer_end - c.f.cursor < c.want
    BY <1>1, <1>10, <1>11, <1>13
  <2>2. /\ Loop(d) /\ ~d.over /\ d.count = EOF /\ d.want = r.want - have
        /\ SameStream(h, d.f)
    BY <1>5, <1>10, <1>11, <2>1, DrainFacts
  <2>3. Marks(h, d.f) /\ EofBehind(d.f)
    BY <1>5, <1>8, <1>9, <1>10, <2>1, DrainEof
  <2>4. d.f.mode \in {"r", "r+", "w+"}
    BY <1>1, <1>7, <2>2 DEF SameStream, Alike, Kept
  <2>5. d.want < BUFSIZE
    <3>1. d.want = r.want - have /\ BUFSIZE \in Nat
      BY <2>2, ByteFacts
    <3> QED BY <1>1, <3>1
  <2>6. d.f.eof => d.f.eof_seen
    BY <1>7, <2>3 DEF Marks
  <2>7. GoesOn(d)
    BY <2>2 DEF GoesOn
  <2>8. PICK t : t = TakeFromNext(d)
    OBVIOUS
  <2>9. EofAt(t.f) /\ (t.want = 0 => ~t.f.eof)
    BY <2>3, <2>4, <2>5, <2>6, <2>7, <2>8, TakeFromNextEof
  <2>10. ReadLoop(r) = t
    BY <1>6, <1>13, <2>5, <2>8
  <2> QED BY <2>9, <2>10
<1> QED BY <1>12, <1>13

(* ... and with fread.                                                     *)
LEMMA FreadEof ==
  ASSUME NEW g, Reads(g), EofAt(g), NEW n \in Nat, n > 0, n < BUFSIZE
  PROVE  LET r == fread_sub_program1(g, n)
         IN  EofAt(r.f) /\ (r.count = n => ~r.f.eof)
<1>1. PICK x : x = IF g.allocated THEN g ELSE file_to_buffer_read(do_allocate_buffer(g))
  OBVIOUS
<1>2. Reads(x) /\ x.allocated /\ EofAt(x)
  <2>1. CASE g.allocated
    BY <1>1, <2>1
  <2>2. CASE ~g.allocated
    BY <1>1, <2>2, AllocateRefines, AllocateEof DEF Reads
  <2> QED BY <2>1, <2>2
<1>3. PICK r0 : r0 = [f |-> x, want |-> n, bytes |-> <<>>, over |-> FALSE, count |-> EOF]
  OBVIOUS
<1>4. GoesOn(r0) /\ r0.f = x /\ r0.want = n /\ r0.bytes = <<>>
  <2>1. x \in FileType /\ EOF \in Int /\ Sound(x) /\ <<>> \in Seq(Byte)
    BY <1>2, ByteFacts DEF Reads, Sound, EOF
  <2> QED BY <1>2, <1>3, <2>1 DEF GoesOn, Loop
<1>5. PICK r1 : r1 = ReadLoop(r0)
  OBVIOUS
<1>6. ReadSoFar(r1, Shown(x), At(x), r1.bytes)
  BY <1>2, <1>4, <1>5, ReadPass
<1>7. EofAt(r1.f) /\ (r1.want = 0 => ~r1.f.eof)
  BY <1>2, <1>4, <1>5, ReadPassEof
<1>8. ReadLoop(r1) = r1
  BY <1>6 DEF ReadSoFar, ReadLoop
<1>9. PICK k : k = n - r1.want
  OBVIOUS
<1>10. PICK r : r = fread_sub_program1(g, n)
  OBVIOUS
<1>11. r = [r1 EXCEPT !.count = k]
  <2>1. r = [r1 EXCEPT !.count = IF @ = EOF THEN n - r1.want ELSE @]
    BY <1>1, <1>3, <1>5, <1>8, <1>10 DEF fread_sub_program1
  <2>2. r1.count = EOF /\ Loop(r1)
    BY <1>6 DEF ReadSoFar
  <2> QED BY <1>9, <2>1, <2>2
<1>12. r.f = r1.f /\ r.count = k /\ r1.want \in Nat
  BY <1>6, <1>11 DEF ReadSoFar, Loop
<1>13. k = n => r1.want = 0
  BY <1>9, <1>12
<1> QED BY <1>7, <1>10, <1>12, <1>13

---------------------------------------------------------------------------
(* Put leaves the file, the descriptor and the indicators,                 *)
LEMMA PutEof ==
  ASSUME NEW r, Puts(r), Writes(r.f), EofAt(r.f), NEW n \in Nat, n <= Len(r.todo),
         r.f.cursor + n <= BUFSIZE
  PROVE  EofAt(Put(r, n).f)
<1>1. PICK g : g = r.f
  OBVIOUS
<1>2. g \in FileType /\ r \in [f : FileType, todo : Seq(Byte)]
  BY <1>1 DEF Puts
<1>3. PICK c \in Nat : c = g.cursor
  BY <1>2 DEF FileType
<1>4. PICK e \in Nat : e = g.buffer_end
  BY <1>2 DEF FileType
<1>5. PICK a \in Nat : a = c + n
  OBVIOUS
<1>6. PICK k : k = Max({e, a})
  OBVIOUS
<1>7. k \in Nat /\ e <= k
  <2>1. e \in Int /\ a \in Int
    OBVIOUS
  <2>2. Max({e, a}) = IF e >= a THEN e ELSE a
    BY <2>1, MaxMinFacts, Zenon
  <2> QED BY <1>6, <2>2
<1>8. PICK x : x = Placed(g.buffer, c, n, r.todo)
  OBVIOUS
<1>9. PICK h : h = Put3(g, x, a, k)
  OBVIOUS
<1>10. PICK t : t = Put(r, n)
  OBVIOUS
<1>11. t = [r EXCEPT !.f = h, !.todo = SubSeq(r.todo, n + 1, Len(r.todo))]
  BY <1>1, <1>2, <1>3, <1>4, <1>5, <1>6, <1>8, <1>9, <1>10 DEF Put, Placed, Put3
<1>12. t.f = h
  BY <1>2, <1>11
<1>13. /\ h.data = g.data /\ h.offset = g.offset /\ h.mode = g.mode
       /\ h.eof_seen = g.eof_seen /\ h.buffer_end = k
  BY <1>2, <1>9 DEF Put3, FileType
<1>14. Len(g.data) \in Nat /\ g.offset \in Nat
  BY <1>2 DEF FileType
<1>15. EofAt(h)
  <2> SUFFICES ASSUME h.eof_seen
               PROVE  h.mode \in {"r", "r+", "w+"} /\ Len(h.data) <= h.offset + h.buffer_end
    BY DEF EofAt
  <2>1. g.mode \in {"r", "r+", "w+"} /\ Len(g.data) <= g.offset + e
    BY <1>1, <1>4, <1>13 DEF EofAt
  <2>2. Len(g.data) <= g.offset + k
    BY <1>7, <1>14, <2>1
  <2> QED BY <1>13, <2>1, <2>2
<1> QED BY <1>10, <1>12, <1>15

(* ... a full buffer that is written reaches the end of the file,          *)
LEMMA FullBufferEof ==
  ASSUME NEW g, Writes(g), EofAt(g), g.buffer_end = BUFSIZE, g.cursor = BUFSIZE
  PROVE  EofBehind(buffer_to_file_write(g, BUFSIZE))
<1>1. /\ Sound(g) /\ Flushes(g) /\ g \in FileType /\ Len(g.buffer) = BUFSIZE /\ BUFSIZE \in Nat
      /\ g.offset \in Nat
  BY WritesFacts
<1>2. PICK h : h = buffer_to_file_write(g, BUFSIZE)
  OBVIOUS
<1>3. Kept(g, h) /\ h.data = Shown(g) /\ h.offset = At(g)
  BY <1>1, <1>2, FlushRefines
<1>4. Marks(g, h)
  BY <1>1, <1>2, FlushMarks
<1>5. EofBehind(h)
  <2> SUFFICES ASSUME h.eof_seen
               PROVE  h.mode \in {"r", "r+", "w+"} /\ Len(h.data) <= h.offset
    BY DEF EofBehind
  <2>1. g.mode \in {"r", "r+", "w+"} /\ Len(g.data) <= g.offset + g.buffer_end
    BY <1>4 DEF EofAt, Marks
  <2>2. Base(g) = g.offset /\ Len(Shown(g)) <= g.offset + g.buffer_end
    BY <1>1, <2>1, ShownLen
  <2>3. At(g) = g.offset + BUFSIZE
    BY <2>2 DEF At
  <2> QED BY <1>3, <2>1, <2>2, <2>3 DEF Kept
<1> QED BY <1>2, <1>5

(* ... and so do the blocks behind it.                                     *)
LEMMA BlocksEof ==
  ASSUME NEW g, Writes(g), g.buffer_end = 0, EofBehind(g), NEW s \in Seq(Byte)
  PROVE  EofAt(Write(g, s))
<1>1. /\ Sound(g) /\ g \in FileType /\ g.offset \in Nat /\ g.data \in Seq(Byte)
      /\ Len(g.data) \in Nat /\ Len(s) \in Nat
  BY WritesFacts
<1>2. PICK w : w = Write(g, s)
  OBVIOUS
<1>3. w.buffer_end = 0
  BY <1>1, <1>2, WriteSound
<1>4. Marks(g, w)
  BY <1>1, <1>2, CallMarks
<1>5. /\ w.data = Overwrite(g.data, WriteAt(g, s), s)
      /\ w.offset = WriteAt(g, s) + Len(s) /\ Kept(g, w)
  BY <1>1, <1>2, WriteEffect
<1>6. EofAt(w)
  <2> SUFFICES ASSUME w.eof_seen
               PROVE  w.mode \in {"r", "r+", "w+"} /\ Len(w.data) <= w.offset + w.buffer_end
    BY DEF EofAt
  <2>1. g.mode \in {"r", "r+", "w+"} /\ Len(g.data) <= g.offset
    BY <1>4 DEF EofBehind, Marks
  <2>2. WriteAt(g, s) = g.offset
    BY <2>1 DEF WriteAt, Appends
  <2>3. PICK d : d = Overwrite(g.data, g.offset, s)
    OBVIOUS
  <2>4. Len(d) <= g.offset + Len(s)
    <3>1. CASE s = <<>>
      BY <1>1, <2>1, <2>3, <3>1, OverwriteNone
    <3>2. CASE s # <<>>
      <4>1. Len(d) = IF Len(g.data) >= g.offset + Len(s) THEN Len(g.data) ELSE g.offset + Len(s)
        BY <1>1, <2>3, <3>2, OverwriteLen
      <4> QED BY <1>1, <2>1, <4>1
    <3> QED BY <3>1, <3>2
  <2>5. w.data = d /\ w.offset + w.buffer_end = g.offset + Len(s)
    BY <1>1, <1>3, <1>5, <2>2, <2>3
  <2> QED BY <1>5, <2>1, <2>4, <2>5 DEF Kept
<1> QED BY <1>2, <1>6

(* One pass of the write loop.                                             *)
LEMMA WritePassEof ==
  ASSUME NEW r, Puts(r), Writes(r.f), EofAt(r.f)
  PROVE  EofAt(WriteLoop(r).f)
<1>1. /\ Sound(r.f) /\ r.f.allocated /\ r.todo \in Seq(Byte) /\ Len(r.todo) \in Nat
      /\ r.f.cursor \in Nat /\ BUFSIZE \in Nat /\ BUFSIZE > 0 /\ r.f.cursor <= BUFSIZE
  <2>1. Sound(r.f) /\ r.f.allocated /\ r.todo \in Seq(Byte)
    BY DEF Puts
  <2>2. r.f.cursor \in Nat /\ BUFSIZE \in Nat /\ BUFSIZE > 0 /\ r.f.cursor <= BUFSIZE
    BY WritesFacts
  <2> QED BY <2>1, <2>2
<1>2. CASE r.todo = <<>>
  BY <1>2 DEF WriteLoop
<1>3. CASE r.todo # <<>>
  <2>1. PICK have \in Nat : have = BUFSIZE - r.f.cursor
    BY <1>1
  <2>2. CASE Len(r.todo) < have
    <3>1. PICK n \in Nat : n = Len(r.todo)
      BY <1>1
    <3>2. WriteLoop(r) = Put(r, n)
      BY <1>3, <2>1, <2>2, <3>1 DEF WriteLoop
    <3>3. n <= Len(r.todo) /\ r.f.cursor + n <= BUFSIZE
      BY <1>1, <2>1, <2>2, <3>1
    <3> QED BY <3>2, <3>3, PutEof
  <2>3. CASE ~(Len(r.todo) < have)
    <3>1. PICK u : u = Put(r, have)
      OBVIOUS
    <3>2. have <= Len(r.todo) /\ r.f.cursor + have <= BUFSIZE
      BY <1>1, <2>1, <2>3
    <3>3. Writes(u.f) /\ EofAt(u.f)
      BY <3>1, <3>2, PutRefines, PutEof
    <3>4. Puts(u) /\ u.f.cursor = BUFSIZE
      <4>1. Puts(u) /\ u.f.cursor = r.f.cursor + have
        BY <3>1, <3>2, PutFacts
      <4> QED BY <1>1, <2>1, <4>1
    <3>5. /\ u.todo \in Seq(Byte) /\ u \in [f : FileType, todo : Seq(Byte)]
          /\ u.f.buffer_end = BUFSIZE /\ Flushes(u.f) /\ Sound(u.f)
      <4>1. u.todo \in Seq(Byte) /\ u \in [f : FileType, todo : Seq(Byte)]
        BY <3>4 DEF Puts
      <4>2. u.f.buffer_end = BUFSIZE /\ Flushes(u.f) /\ Sound(u.f)
        <5>1. /\ u.f.buffer_end \in Nat /\ u.f.cursor <= u.f.buffer_end
              /\ u.f.buffer_end <= BUFSIZE /\ Flushes(u.f) /\ Sound(u.f)
          BY <3>3, WritesFacts
        <5> QED BY <1>1, <3>4, <5>1
      <4> QED BY <4>1, <4>2
    <3>6. PICK g : g = buffer_to_file_write(u.f, BUFSIZE)
      OBVIOUS
    <3>7. Sound(g) /\ Kept(u.f, g) /\ g.cursor = 0 /\ g.buffer_end = 0
      BY <3>5, <3>6, FlushRefines
    <3>8. Writes(g) /\ g \in FileType /\ EofBehind(g)
      <4>1. EofBehind(g)
        BY <3>3, <3>4, <3>5, <3>6, FullBufferEof
      <4> QED BY <3>3, <3>7, <4>1 DEF Writes, Kept, Sound
    <3>9. PICK d : d = [u EXCEPT !.f = g]
      OBVIOUS
    <3>10. d \in [f : FileType, todo : Seq(Byte)] /\ d.f = g /\ d.todo = u.todo
      BY <3>5, <3>8, <3>9
    <3>11. PICK h : h = IF Readable(g.mode) THEN file_to_buffer_read(g) ELSE g
      OBVIOUS
    <3>12. PICK y : y = [d EXCEPT !.f = h]
      OBVIOUS
    <3>13. PICK l \in Nat : l = Len(d.todo)
      BY <3>10
    <3>14. PICK n : n = l - (l % BUFSIZE)
      OBVIOUS
    <3>15. WriteLoop(r) =
             IF l < BUFSIZE THEN Put(y, l)
             ELSE [d EXCEPT !.f = Write(g, SubSeq(d.todo, 1, n)),
                            !.todo = SubSeq(d.todo, n + 1, l)]
      <4>1. d = [u EXCEPT !.f = buffer_to_file_write(@, BUFSIZE)]
        BY <3>5, <3>6, <3>9
      <4>2. y = [d EXCEPT !.f = IF Readable(@.mode) THEN file_to_buffer_read(@) ELSE @]
        BY <3>10, <3>11, <3>12
      <4>3. WriteLoop(r) =
              IF Len(d.todo) < BUFSIZE THEN Put(y, Len(d.todo))
              ELSE [d EXCEPT !.f = Write(@, SubSeq(d.todo, 1, Len(d.todo) - (Len(d.todo) % BUFSIZE))),
                             !.todo = SubSeq(@, (Len(d.todo) - (Len(d.todo) % BUFSIZE)) + 1, Len(@))]
        BY <1>3, <2>1, <2>3, <3>1, <4>1, <4>2 DEF WriteLoop
      <4> QED BY <3>10, <3>13, <3>14, <4>3
    <3>16. CASE l < BUFSIZE
      <4>1. Writes(h) /\ h.cursor = 0 /\ EofAt(h)
        <5>1. CASE Readable(g.mode)
          <6>1. g.mode # "a" /\ g.mode \in {"r", "r+", "w+"}
            BY <3>8, <5>1 DEF Readable, Writes
          <6>2. Writes(h) /\ h.cursor = 0
            BY <3>7, <3>8, <3>11, <5>1, <6>1, RefillRefines
          <6>3. g.allocated
            BY <3>8 DEF Writes
          <6>4. EofAt(h)
            BY <3>7, <3>8, <3>11, <5>1, <6>1, <6>3, RefillEof
          <6> QED BY <6>2, <6>4
        <5>2. CASE ~Readable(g.mode)
          <6>1. ~g.eof_seen
            BY <3>8, <5>2 DEF Readable, EofBehind
          <6> QED BY <3>7, <3>8, <3>11, <5>2, <6>1 DEF EofAt
        <5> QED BY <5>1, <5>2
      <4>2. h \in FileType
        BY <4>1 DEF Writes, Sound
      <4>3. y \in [f : FileType, todo : Seq(Byte)] /\ y.f = h /\ y.todo = d.todo
        BY <3>10, <3>12, <4>2
      <4>4. Puts(y) /\ Writes(y.f) /\ EofAt(y.f)
        BY <4>1, <4>3 DEF Puts, Writes
      <4>5. l <= Len(y.todo) /\ y.f.cursor + l <= BUFSIZE
        BY <1>1, <3>13, <3>16, <4>1, <4>3
      <4> QED BY <3>15, <3>16, <4>4, <4>5, PutEof
    <3>17. CASE ~(l < BUFSIZE)
      <4>1. n \in Nat /\ n <= l
        <5>1. \A a, b \in Nat : b > 0 => a % b \in Nat /\ a % b < b /\ a % b <= a
          OBVIOUS
        <5>2. PICK m : m = l % BUFSIZE
          OBVIOUS
        <5>3. m \in Nat /\ m <= l
          BY <1>1, <5>1, <5>2
        <5> QED BY <3>14, <5>2, <5>3
      <4>2. PICK s : s = SubSeq(d.todo, 1, n)
        OBVIOUS
      <4>3. PICK z : z = SubSeq(d.todo, n + 1, l)
        OBVIOUS
      <4>4. s \in Seq(Byte)
        BY <3>10, <3>13, <4>1, <4>2, SplitFacts
      <4>5. PICK w : w = Write(g, s)
        OBVIOUS
      <4>6. EofAt(w)
        BY <3>7, <3>8, <4>4, <4>5, BlocksEof
      <4>7. PICK t : t = [d EXCEPT !.f = w, !.todo = z]
        OBVIOUS
      <4>8. t.f = w
        BY <3>10, <4>7
      <4>9. WriteLoop(r) = t
        BY <3>15, <3>17, <4>2, <4>3, <4>5, <4>7
      <4> QED BY <4>6, <4>8, <4>9
    <3> QED BY <3>16, <3>17
  <2> QED BY <2>2, <2>3
<1> QED BY <1>2, <1>3

(* fwrite.                                                                 *)
LEMMA FwriteEof ==
  ASSUME NEW g, Sound(g), g.mode \in {"r+", "w", "w+", "a"},
         g.mode = "a" => g.cursor = g.buffer_end /\ (g.allocated => g.write_start),
         EofAt(g), NEW s \in Seq(Byte)
  PROVE  EofAt(fwrite_sub_program1(g, s))
<1>1. PICK x : x = FirstWrite(g)
  OBVIOUS
<1>2. Writes(x)
  BY <1>1, FirstWriteRefines
<1>3. EofAt(x)
  <2>1. CASE g.allocated
    BY <1>1, <2>1 DEF FirstWrite
  <2>2. CASE ~g.allocated /\ g.mode = "r+"
    <3>1. x = file_to_buffer_read(do_allocate_buffer(g))
      BY <1>1, <2>2 DEF FirstWrite
    <3> QED BY <2>2, <3>1, AllocateEof
  <2>3. CASE ~g.allocated /\ g.mode # "r+"
    <3>1. PICK h : h = do_allocate_buffer(g)
      OBVIOUS
    <3>2. h = [g EXCEPT !.allocated = TRUE, !.buffer = Junk(BUFSIZE)]
      BY <2>3, <3>1 DEF do_allocate_buffer
    <3>3. Sound(h) /\ h.mode = g.mode /\ g \in FileType /\ h \in FileType
      BY <3>1, AllocateSound DEF Sound
    <3>4. h.data = g.data /\ h.offset = g.offset /\ h.eof_seen = g.eof_seen
      BY <3>2, <3>3 DEF FileType
    <3>5. g.buffer_end = 0
      BY <2>3, EmptyShown
    <3>6. /\ x.data = g.data /\ x.offset = g.offset /\ x.eof_seen = g.eof_seen
          /\ x.buffer_end = 0 /\ x.mode = g.mode
      <4>1. CASE g.mode = "a"
        <5>1. x = [h EXCEPT !.buffer_end = 0, !.cursor = 0, !.write_start = TRUE]
          BY <1>1, <2>3, <3>1, <4>1 DEF FirstWrite
        <5> QED BY <3>3, <3>4, <5>1 DEF FileType
      <4>2. CASE g.mode # "a"
        <5>1. x = [h EXCEPT !.buffer_end = 0, !.cursor = 0]
          BY <1>1, <2>3, <3>1, <4>2 DEF FirstWrite
        <5> QED BY <3>3, <3>4, <5>1 DEF FileType
      <4> QED BY <4>1, <4>2
    <3> QED BY <3>5, <3>6 DEF EofAt
  <2> QED BY <2>1, <2>2, <2>3
<1>4. PICK r : r = [f |-> x, todo |-> s]
  OBVIOUS
<1>5. Puts(r) /\ Writes(r.f) /\ r.f = x
  BY <1>2, <1>4 DEF Puts, Writes, Sound
<1>6. PICK u : u = WriteLoop(r)
  OBVIOUS
<1>7. PICK v : v = WriteLoop(u)
  OBVIOUS
<1>8. Puts(u) /\ Writes(u.f)
  BY <1>5, <1>6, WritePass, WriteLoopFacts DEF Wrote
<1>9. EofAt(u.f)
  BY <1>3, <1>5, <1>6, WritePassEof
<1>10. EofAt(v.f)
  BY <1>7, <1>8, <1>9, WritePassEof
<1>11. fwrite_sub_program1(g, s) = v.f
  BY <1>1, <1>4, <1>6, <1>7 DEF fwrite_sub_program1
<1> QED BY <1>10, <1>11

(* A caller that calls fflush on no stream that can be read.               *)
OutputFlushes == FlushModes \cap {"r", "r+", "w+", "a+"} = {}

(* What a read does to the indicators.                                     *)
LEMMA ReturnEof ==
  ASSUME PlainCaller, PlainInv, EofAt(f), NEW n \in Nat, n < BUFSIZE, NEW c,
         ReturnsFrom(ReadBytes(n), c)
  PROVE  EofAt(f') /\ (n > 0 /\ ReadBytes(n).count = n => ~f'.eof)
<1>1. PICK r : r = ReadBytes(n)
  OBVIOUS
<1>2. f' = r.f /\ f.mode # "closed"
  BY <1>1 DEF ReturnsFrom, IsOpen
<1>3. /\ f.mode \in {"r", "r+", "w", "w+", "a"} /\ Sound(f) /\ InOrder(f)
  BY <1>2, ModeFacts DEF PlainInv
<1>4. CASE n > 0 /\ Readable(f.mode)
  <2>1. r = fread_sub_program1(f, n)
    BY <1>1, <1>4 DEF ReadBytes
  <2>2. Reads(f)
    BY <1>3, <1>4 DEF Readable, Reads, InOrder
  <2>3. EofAt(r.f) /\ (r.count = n => ~r.f.eof)
    BY <1>4, <2>1, <2>2, FreadEof
  <2> QED BY <1>1, <1>2, <2>3
<1>5. CASE ~(n > 0 /\ Readable(f.mode))
  <2>1. r = [f |-> f, bytes |-> <<>>, count |-> 0]
    BY <1>1, <1>5 DEF ReadBytes
  <2>2. r.f = f /\ r.count = 0
    BY <2>1
  <2>3. ~(n > 0 /\ r.count = n)
    BY <2>2
  <2> QED BY <1>1, <1>2, <2>2, <2>3
<1> QED BY <1>4, <1>5

(* fread, which is told of all it asked for only when all of it was there. *)
LEMMA FreadStepEof ==
  ASSUME PlainCaller, PlainInv, EofAt(f), NEW r \in ReadSizes, fread(r[1], r[2])
  PROVE  EofAt(f') /\ (r[2] > 0 /\ result'.count = r[2] => ~f'.eof)
<1>1. r[1] \in Nat \ {0} /\ r[2] \in Nat /\ r[1] * r[2] < BUFSIZE
  BY SizeAssumption DEF PlainCaller
<1>2. PICK a \in Nat \ {0} : a = r[1]
  BY <1>1
<1>3. PICK k \in Nat : k = r[2]
  BY <1>1
<1>4. PICK n : n = a * k
  OBVIOUS
<1>5. n \in Nat /\ n < BUFSIZE /\ (k > 0 => n > 0)
  BY <1>1, <1>2, <1>3, <1>4
<1>6. PICK c : c = Elements(ReadBytes(n).count, a, k)
  OBVIOUS
<1>7. ReturnsFrom(ReadBytes(n), c)
  BY <1>2, <1>3, <1>4, <1>6 DEF fread
<1>8. EofAt(f') /\ (n > 0 /\ ReadBytes(n).count = n => ~f'.eof)
  BY <1>5, <1>7, ReturnEof
<1>9. PICK b : /\ ReadBytes(n).count = Len(b)
               /\ Len(b) \in Nat /\ Len(b) <= n
               /\ result' = [bytes |-> b, count |-> c]
  BY <1>5, <1>7, ReturnRefines
<1>10. PICK j \in Nat : j = Len(b)
  BY <1>9
<1>11. c = j \div a
  <2>1. c = Elements(j, a, k)
    BY <1>6, <1>9, <1>10
  <2>2. Elements(j, a, k) = j \div a
    BY WholeElements
  <2> QED BY <2>1, <2>2
<1>12. c = k => j = n
  <2> SUFFICES ASSUME c = k PROVE j = n
    OBVIOUS
  <2>1. a * (j \div a) <= j
    OBVIOUS
  <2>2. a * k <= j
    BY <1>11, <2>1
  <2> QED BY <1>4, <1>5, <1>9, <1>10, <2>2
<1>13. result'.count = c
  BY <1>9
<1>14. k > 0 /\ c = k => ~f'.eof
  BY <1>5, <1>8, <1>9, <1>10, <1>12
<1> QED BY <1>3, <1>8, <1>13, <1>14

(* What a write does to them.                                              *)
LEMMA FwriteStepEof ==
  ASSUME PlainCaller, PlainInv, EofAt(f), NEW s \in Seq(Byte), NEW done, NEW failed,
         Fwrite(s, done, failed)
  PROVE  EofAt(f')
<1>1. /\ f.mode \in {"r", "r+", "w", "w+", "a"} /\ Sound(f) /\ InOrder(f)
  BY ModeFacts DEF PlainInv, Fwrite, IsOpen
<1>2. CASE Writable(f.mode) /\ s # <<>>
  <2>1. f' = fwrite_sub_program1(f, s)
    BY <1>2 DEF Fwrite
  <2>2. f.mode \in {"r+", "w", "w+", "a"}
    BY <1>1, <1>2 DEF Writable
  <2>3. f.mode = "a" => f.cursor = f.buffer_end /\ (f.allocated => f.write_start)
    BY <1>1 DEF InOrder
  <2>4. EofAt(fwrite_sub_program1(f, s))
    BY <1>1, <2>2, <2>3, FwriteEof
  <2> QED BY <2>1, <2>4
<1>3. CASE ~(Writable(f.mode) /\ s # <<>>)
  BY <1>3 DEF Fwrite
<1> QED BY <1>2, <1>3

(* Every step.                                                             *)
LEMMA EofStays ==
  ASSUME PlainCaller, OutputFlushes, PlainInv, EofAt(f), [Next]_vars
  PROVE  EofAt(f')
<1>1. f \in FileType /\ Sound(f) /\ f.mode \in {"r", "r+", "w", "w+", "a", "closed"}
  BY ModeFacts
<1>2. ASSUME NEW m \in Modes, fopen(m) PROVE EofAt(f')
  <2>1. ~f.eof_seen
    BY <1>2 DEF EofAt, fopen, IsOpen
  <2>2. CASE f' = f
    BY <2>2
  <2>3. CASE f' # f
    <3>1. PICK d : f' = [f EXCEPT !.mode = m, !.exists = TRUE, !.data = d]
      BY <1>2, <2>3 DEF fopen
    <3>2. f'.eof_seen = f.eof_seen
      BY <1>1, <3>1 DEF FileType
    <3> QED BY <2>1, <3>2 DEF EofAt
  <2> QED BY <2>2, <2>3
<1>3. ASSUME NEW r \in ReadSizes, fread(r[1], r[2]) PROVE EofAt(f')
  BY <1>3, FreadStepEof
<1>4. CASE fgetc
  <2>1. PICK c : c = IF ReadBytes(1).count = 1 THEN 1 ELSE EOF
    OBVIOUS
  <2>2. ReturnsFrom(ReadBytes(1), c)
    BY <1>4, <2>1 DEF fgetc
  <2>3. 1 \in Nat /\ 1 < BUFSIZE
    BY ByteFacts DEF PlainCaller
  <2> QED BY <2>2, <2>3, ReturnEof
<1>5. ASSUME NEW w \in WriteSizes, fwrite(w[1], w[2], Bytes(w[1] * w[2]))
      PROVE  EofAt(f')
  <2>1. PICK s : s = Bytes(w[1] * w[2])
    OBVIOUS
  <2>2. w[1] * w[2] \in Nat
    BY SizeAssumption
  <2>3. s \in Seq(Byte)
    BY <2>1, <2>2, ByteFacts DEF Bytes
  <2> QED BY <1>5, <2>1, <2>3, FwriteStepEof DEF fwrite
<1>6. CASE fputc(WRITTEN)
  <2>1. <<WRITTEN>> \in Seq(Byte)
    BY ByteFacts
  <2> QED BY <1>6, <2>1, FwriteStepEof DEF fputc
<1>7. CASE fflush
  <2>1. f.mode \in {"w", "a"} /\ f' = Flushed(f)
    BY <1>1, <1>7 DEF fflush, OutputFlushes, IsOpen
  <2>2. ~f.eof_seen
    BY <2>1 DEF EofAt
  <2>3. PICK h : h = Flushed(f)
    OBVIOUS
  <2>4. h.eof_seen = f.eof_seen
    <3>1. f.buffer_end \in Nat /\ f.buffer_end <= Len(f.buffer)
      BY <1>1 DEF Sound, FileType
    <3>2. CASE ~f.allocated
      BY <2>3, <3>2 DEF Flushed
    <3>3. CASE f.allocated /\ Flushes(f)
      <4>1. h = buffer_to_file_write(f, f.buffer_end)
        BY <2>3, <3>3 DEF Flushed
      <4> QED BY <1>1, <3>1, <4>1, FlushMarks DEF Marks
    <3>4. CASE f.allocated /\ ~Flushes(f)
      <4>1. h = buffer_clear_and_sync(f, f.buffer_end)
        BY <2>3, <3>4 DEF Flushed
      <4> QED BY <1>1, <3>1, <4>1, ClearMarks DEF Marks
    <3> QED BY <3>2, <3>3, <3>4
  <2> QED BY <2>1, <2>2, <2>3, <2>4 DEF EofAt
<1>8. ASSUME NEW o \in Offsets, NEW b \in {"SEEK_SET", "SEEK_CUR", "SEEK_END"},
             fseek(o, b)
      PROVE  EofAt(f')
  <2>1. PICK g : g = Freed(Flushed(f))
    OBVIOUS
  <2>2. g \in FileType
    BY <1>1, <2>1, FlushedSound, FreedSound DEF Sound
  <2>3. PICK z : f' = [g EXCEPT !.offset = z, !.eof = FALSE, !.eof_seen = FALSE]
    BY <1>8, <2>1 DEF fseek
  <2>4. f'.eof_seen = FALSE
    BY <2>2, <2>3 DEF FileType
  <2> QED BY <2>4 DEF EofAt
<1>9. CASE fclose
  <2>1. f'.eof_seen = FALSE
    BY <1>9 DEF fclose, Closed
  <2> QED BY <2>1 DEF EofAt
<1>10. CASE UNCHANGED vars
  BY <1>10 DEF vars
<1> QED BY <1>2, <1>3, <1>4, <1>5, <1>6, <1>7, <1>8, <1>9, <1>10 DEF Next

(* A read that gets all it asked for does not find the end of the file, as *)
(* the tests expect it, on streams that are not flushed between reads: it  *)
(* is fflush that leaves eof_seen behind the buffer it was about.          *)
THEOREM FullReadsAreNotEOF ==
  ASSUME PlainCaller, OutputFlushes
  PROVE  Spec => FullReadIsNotEOF
<1>1. Init => EofAt(f)
  <2> SUFFICES ASSUME Init PROVE EofAt(f)
    OBVIOUS
  <2>1. f.eof_seen = FALSE
    BY DEF Init, Closed
  <2> QED BY <2>1 DEF EofAt
<1> DEFINE E == EofAt(f)
<1>2. PlainInv /\ E /\ [Next]_vars => E'
  <2> SUFFICES ASSUME PlainInv, E, [Next]_vars PROVE E'
    OBVIOUS
  <2>1. EofAt(f')
    BY EofStays
  <2> QED BY <2>1 DEF EofAt
<1>3. PlainInv /\ E /\ [Next]_vars =>
        [\A r \in ReadSizes :
            fread(r[1], r[2]) /\ r[2] > 0 /\ result'.count = r[2] => ~f'.eof]_vars
  BY FreadStepEof
<1>4. Init => E
  BY <1>1
<1> HIDE DEF E
<1> QED BY <1>2, <1>3, <1>4, PlainInvariance, PTL DEF Spec, FullReadIsNotEOF
=============================================================================
