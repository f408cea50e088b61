------------------------------- MODULE MyStdio -------------------------------
(***************************************************************************)
(* The buffered streams of assignment5/mystdio.h, one open stream on one   *)
(* file.  Every call of the library is one step: nothing else uses the     *)
(* file while it runs.  The loops of fread and fwrite are computed with a  *)
(* record f, which holds the file, its descriptor's offset and the FILE.   *)
(*                                                                         *)
(* Pointers into the buffer are indexes.                                   *)
(***************************************************************************)
EXTENDS Integers, Sequences, FiniteSetsExt

CONSTANTS
    BUFSIZE,      (* the size of the buffer, 300 in the source             *)
    Modes,        (* the modes of fopen                                    *)
    ReadSizes,    (* what fread is asked for: the size of an element and   *)
                  (* the number of elements                                *)
    WriteSizes,   (* what fwrite is asked for                              *)
    FlushModes,   (* the modes in which the caller calls fflush: ISO C     *)
                  (* leaves its effect on an input stream undefined        *)
    Offsets,      (* the offsets fseek is asked for                        *)
    Files,        (* what is in the file at the beginning                  *)
    MaxLength,    (* bound: the file and its positions stay this small     *)
    ZERO,         (* the byte 0                                            *)
    WRITTEN,      (* a byte that fwrite writes                             *)
    JUNK          (* a byte that malloc leaves in a new buffer             *)

ASSUME SizeAssumption ==
    /\ BUFSIZE \in Nat \ {0} /\ MaxLength \in Nat
    /\ ReadSizes \subseteq (Nat \ {0}) \X Nat
    /\ WriteSizes \subseteq (Nat \ {0}) \X Nat
    /\ Offsets \subseteq Int
ASSUME ModeAssumption == Modes \subseteq {"r", "r+", "w", "w+", "a", "a+"}

Byte == (UNION {{d[i] : i \in 1 .. Len(d)} : d \in Files}) \cup
        {ZERO, WRITTEN, JUNK}

ASSUME FileAssumption == Files \subseteq Seq(Byte)

VARIABLES
    f,            (* the file and the stream, see FileType                 *)
    result,       (* the bytes the last call stored and the number it      *)
                  (* returned                                              *)
    due           (* the length an append stream's file has when all that  *)
                  (* fwrite accepted is in it                              *)

vars == <<f, result, due>>

EOF == -1
Nothing == [bytes |-> <<>>, count |-> 0]
Zeros(n) == [i \in 1 .. n |-> ZERO]
Junk(n) == [i \in 1 .. n |-> JUNK]
Bytes(n) == [i \in 1 .. n |-> WRITTEN]

Readable(m) == m \in {"r", "r+", "w+", "a+"}
Writable(m) == m # "r"
Appends(m)  == m \in {"a", "a+"}

---------------------------------------------------------------------------
(* The system calls on the descriptor.                                     *)

Overwrite(d, p, s) ==
    IF s = <<>> THEN d
    ELSE [i \in 1 .. Max({Len(d), p + Len(s)}) |->
            IF i \in p + 1 .. p + Len(s) THEN s[i - p]
            ELSE IF i <= Len(d) THEN d[i] ELSE ZERO]

BytesRead(g, n) == SubSeq(g.data, g.offset + 1, Min({g.offset + n, Len(g.data)}))

(* write moves to the end of the file first if the descriptor appends.     *)
Write(g, s) ==
    LET p == IF Appends(g.mode) /\ s # <<>> THEN Len(g.data) ELSE g.offset
    IN  [g EXCEPT !.data = Overwrite(@, p, s), !.offset = p + Len(s)]

Seek(g, d) == [g EXCEPT !.offset = IF @ + d >= 0 THEN @ + d ELSE @]

---------------------------------------------------------------------------
(* The helpers.                                                            *)

(* Fault, no part of the model, like all faults below: only an empty       *)
(* buffer counts as the end.                                               *)
check_eofWhenEmpty(g, want, have) == [g EXCEPT !.eof = g.eof_seen /\ have = 0]

check_eof(g, want, have) == [g EXCEPT !.eof = g.eof_seen /\ want > have]

(* The first n bytes of the buffer set to s.                               *)
Fill(b, s) == [i \in DOMAIN b |-> IF i <= Len(s) THEN s[i] ELSE b[i]]

(* Faults: the offset stays behind the bytes written; so does the cursor.  *)
buffer_to_file_writeNoSeek(g, size) ==
    [Write(g, SubSeq(g.buffer, 1, size)) EXCEPT
        !.buffer = Fill(@, Zeros(size)), !.cursor = 0, !.buffer_end = 0]
buffer_to_file_writeKeepCursor(g, size) ==
    [Seek(Seek(Write(g, SubSeq(g.buffer, 1, size)), -size), g.cursor) EXCEPT
        !.buffer = Fill(@, Zeros(size)), !.buffer_end = 0]

(* Only streams that can write get here.                                   *)
buffer_to_file_write(g, size) ==
    LET w == Write(g, SubSeq(g.buffer, 1, size))
    IN  [Seek(Seek(w, -size), g.cursor) EXCEPT
            !.buffer = Fill(@, Zeros(size)), !.cursor = 0, !.buffer_end = 0]

(* Note that buffer_end stays.                                             *)
buffer_clear_and_sync(g, size) ==
    [Seek(g, g.cursor) EXCEPT !.buffer = Fill(@, Zeros(size)), !.cursor = 0]

(* Fault: the descriptor is left behind the bytes read.                    *)
file_to_buffer_readNoSeek(g) ==
    LET s == BytesRead(g, BUFSIZE)
    IN  [g EXCEPT !.buffer = Fill(@, s), !.buffer_end = Len(s), !.cursor = 0,
                  !.offset = @ + Len(s), !.eof_seen = @ \/ Len(s) # BUFSIZE]

(* Only streams that can read get here: read() succeeds.                   *)
file_to_buffer_read(g) ==
    LET s == BytesRead(g, BUFSIZE)
    IN  [g EXCEPT !.buffer = Fill(@, s), !.buffer_end = Len(s), !.cursor = 0,
                  !.eof_seen = @ \/ Len(s) # BUFSIZE]

do_allocate_buffer(g) ==
    IF g.allocated THEN g
    ELSE [g EXCEPT !.allocated = TRUE, !.buffer = Junk(BUFSIZE)]

---------------------------------------------------------------------------
(* fread_sub_program1.  The loop works on [f, want, bytes, over, count]:   *)
(* what is left to read, what was stored in the caller's array, whether    *)
(* the loop was left, and the number to return.                            *)
InBuffer(g, n) == SubSeq(g.buffer, g.cursor + 1, g.cursor + n)

(* memcpy of the next n bytes of the buffer, and over them.                *)
Take(r, n) ==
    [r EXCEPT !.f.cursor = @ + n, !.bytes = @ \o InBuffer(r.f, n),
              !.want = @ - n]

(* Fewer bytes in the buffer than wanted: take them and empty the buffer.  *)
Drain(r) ==
    LET t == Take(r, r.f.buffer_end - r.f.cursor)
    IN  [t EXCEPT !.f = IF Writable(@.mode)
                          THEN buffer_to_file_write(@, @.cursor)
                          ELSE buffer_clear_and_sync(@, BUFSIZE)]

(* Less than a buffer is still wanted: fill the buffer and take from it.   *)
TakeFromNext(r) ==
    LET g == file_to_buffer_read(r.f)
        n == g.buffer_end
    IN  IF n < BUFSIZE /\ r.want >= n
          THEN [Take([r EXCEPT !.f = check_eof(g, r.want, n)], n) EXCEPT
                   !.over = TRUE]
          ELSE Take([r EXCEPT !.f = g], r.want)

(* At least a buffer is still wanted: read whole buffers directly.  At the *)
(* end of the file the number of these bytes alone is returned.            *)
ReadDirectly(r) ==
    LET count == r.want - (r.want % BUFSIZE)
        s     == BytesRead(r.f, count)
        t     == [r EXCEPT !.f.offset = @ + Len(s), !.bytes = @ \o s]
    IN  IF Len(s) < count
          THEN [t EXCEPT !.f.buffer_end = 0, !.f.eof = TRUE, !.over = TRUE,
                         !.count = Len(s)]
          ELSE [t EXCEPT !.want = @ - count]

ReadLoop(r) ==
    IF r.over \/ r.want = 0 THEN r
    ELSE LET have == r.f.buffer_end - r.f.cursor
             c    == [r EXCEPT !.f = check_eof(@, r.want, have)]
             d    == Drain(c)
         IN  IF r.want <= have THEN Take(c, r.want)
             ELSE IF d.want < BUFSIZE THEN TakeFromNext(d) ELSE ReadDirectly(d)

(* Two passes are enough: the first leaves less than a buffer wanted, and  *)
(* the second takes it.                                                    *)
fread_sub_program1(g, n) ==
    LET start == [f |-> IF g.allocated THEN g
                        ELSE file_to_buffer_read(do_allocate_buffer(g)),
                  want |-> n, bytes |-> <<>>, over |-> FALSE, count |-> EOF]
        last == ReadLoop(ReadLoop(start))
    IN  [last EXCEPT !.count = IF @ = EOF THEN n - last.want ELSE @]

(* fwrite_sub_program1 in the same way, with the bytes still to do.        *)
Put(r, n) ==
    LET c == r.f.cursor
    IN  [r EXCEPT
            !.f.buffer = [i \in DOMAIN @ |->
                              IF i \in c + 1 .. c + n THEN r.todo[i - c] ELSE @[i]],
            !.f.cursor = c + n,
            !.f.buffer_end = Max({@, c + n}),
            !.todo = SubSeq(@, n + 1, Len(@))]

WriteLoop(r) ==
    LET have == BUFSIZE - r.f.cursor
        full == Put(r, have)
        d    == [full EXCEPT !.f = buffer_to_file_write(@, BUFSIZE)]
        next == [d EXCEPT !.f = IF Readable(@.mode) THEN file_to_buffer_read(@)
                                                    ELSE @]
        n    == Len(d.todo) - (Len(d.todo) % BUFSIZE)
    IN  IF r.todo = <<>> THEN r
        ELSE IF Len(r.todo) < have THEN Put(r, Len(r.todo))
        ELSE IF Len(d.todo) < BUFSIZE THEN Put(next, Len(d.todo))
        ELSE [d EXCEPT !.f = Write(@, SubSeq(d.todo, 1, n)),
                       !.todo = SubSeq(@, n + 1, Len(@))]

FirstWrite(g) ==
    IF g.allocated THEN g
    ELSE CASE g.mode \in {"a", "a+"} ->
                 [do_allocate_buffer(g) EXCEPT !.buffer_end = 0, !.cursor = 0,
                                               !.write_start = TRUE]
           [] g.mode \in {"w", "w+"} ->
                 [do_allocate_buffer(g) EXCEPT !.buffer_end = 0, !.cursor = 0]
           [] g.mode = "r+" -> file_to_buffer_read(do_allocate_buffer(g))

fwrite_sub_program1(g, s) ==
    WriteLoop(WriteLoop([f |-> FirstWrite(g), todo |-> s])).f

(* fflush returns EOF when there was nothing it could write.               *)
Flushes(g) == g.allocated /\ IF Appends(g.mode) THEN g.write_start
                                                ELSE Writable(g.mode)
Flushed(g) ==
    IF ~g.allocated THEN g
    ELSE IF Flushes(g) THEN buffer_to_file_write(g, g.buffer_end)
                       ELSE buffer_clear_and_sync(g, g.buffer_end)

(* Fault: the buffer is freed and buffer_base still points to it.          *)
FreedAndKept(g) == [g EXCEPT !.buffer = <<>>, !.buffer_end = 0, !.cursor = 0]

Freed(g) ==
    [g EXCEPT !.allocated = FALSE, !.buffer = <<>>, !.buffer_end = 0, !.cursor = 0]

---------------------------------------------------------------------------
Closed(d, e) ==
    [data |-> d, exists |-> e, offset |-> 0, mode |-> "closed", allocated |-> FALSE,
     buffer |-> <<>>, buffer_end |-> 0, cursor |-> 0, eof |-> FALSE,
     eof_seen |-> FALSE, write_start |-> FALSE]

Init ==
    /\ f \in {Closed(d, TRUE) : d \in Files} \cup {Closed(<<>>, FALSE)}
    /\ result = Nothing
    /\ due = 0

IsOpen == f.mode # "closed"

(* open fails if the file does not exist and is not to be made.            *)
fopen(m) ==
    /\ ~IsOpen
    /\ IF ~f.exists /\ m \in {"r", "r+"}
         THEN /\ result' = [Nothing EXCEPT !.count = EOF]
              /\ UNCHANGED <<f, due>>
         ELSE /\ f' = [f EXCEPT !.mode = m, !.exists = TRUE,
                                !.data = IF m \in {"w", "w+"} THEN <<>> ELSE @]
              /\ result' = Nothing
              /\ due' = IF Appends(m) THEN Len(f.data) ELSE 0

(* What fread for n bytes does, and its return with the number c.          *)
ReadBytes(n) ==
    IF n > 0 /\ Readable(f.mode) THEN fread_sub_program1(f, n)
                                 ELSE [f |-> f, bytes |-> <<>>, count |-> 0]

ReturnsFrom(r, c) ==
    /\ IsOpen
    /\ f' = r.f
    /\ result' = [bytes |-> r.bytes, count |-> c]
    /\ UNCHANGED due

(* An element of which only a part was read does not count.                *)
Elements(c, size, nmemb) == IF c = size * nmemb THEN nmemb ELSE c \div size

fread(size, nmemb) ==
    LET r == ReadBytes(size * nmemb) IN ReturnsFrom(r, Elements(r.count, size, nmemb))

(* The character is the byte in result, which counts 1.                    *)
fgetc == LET r == ReadBytes(1) IN ReturnsFrom(r, IF r.count = 1 THEN 1 ELSE EOF)

(* A call of fwrite with the bytes s.                                      *)
Fwrite(s, done, failed) ==
    /\ IsOpen
    /\ Len(f.data) + f.buffer_end + Len(s) <= MaxLength  \* bound
    /\ f.offset + f.cursor + Len(s) <= MaxLength         \* bound
    /\ IF Writable(f.mode) /\ s # <<>>
         THEN /\ f' = fwrite_sub_program1(f, s)
              /\ result' = [Nothing EXCEPT !.count = done]
              /\ due' = IF Appends(f.mode) THEN due + Len(s) ELSE due
         ELSE result' = [Nothing EXCEPT !.count = failed] /\ UNCHANGED <<f, due>>

fwrite(size, nmemb, s) == Len(s) = size * nmemb /\ Fwrite(s, nmemb, 0)

fputc(c) == Fwrite(<<c>>, 1, EOF)

fflush ==
    /\ IsOpen
    /\ f.mode \in FlushModes
    /\ f' = Flushed(f)
    /\ result' = [Nothing EXCEPT !.count = IF Flushes(f) THEN 0 ELSE EOF]
    /\ UNCHANGED due

(* fseek flushes and frees the buffer.  When lseek succeeds it runs off    *)
(* its end: the caller gets what lseek left in the register, or 0.         *)
fseek(offset, base) ==
    LET g      == Freed(Flushed(f))
        target == offset + CASE base = "SEEK_SET" -> 0
                             [] base = "SEEK_CUR" -> g.offset
                             [] base = "SEEK_END" -> Len(g.data)
    IN  /\ IsOpen
        /\ target <= MaxLength                      \* bound
        /\ f' = [g EXCEPT !.offset = IF target >= 0 THEN target ELSE @,
                          !.eof = FALSE, !.eof_seen = FALSE]
        /\ \E c \in IF target >= 0 THEN {0, target} ELSE {EOF} :
              result' = [Nothing EXCEPT !.count = c]
        /\ UNCHANGED due

fclose ==
    /\ IsOpen
    /\ f' = Closed(IF Writable(f.mode) THEN Flushed(f).data ELSE f.data, TRUE)
    /\ result' = Nothing
    /\ due' = 0

Next ==
    \/ \E m \in Modes : fopen(m)
    \/ \E r \in ReadSizes : fread(r[1], r[2])
    \/ fgetc
    \/ \E w \in WriteSizes : fwrite(w[1], w[2], Bytes(w[1] * w[2]))
    \/ fputc(WRITTEN)
    \/ fflush
    \/ \E o \in Offsets, b \in {"SEEK_SET", "SEEK_CUR", "SEEK_END"} : fseek(o, b)
    \/ fclose

Spec == Init /\ [][Next]_vars
---------------------------------------------------------------------------
(* The type invariant.                                                     *)
FileType ==
    [data : Seq(Byte), exists : BOOLEAN, offset : Nat,
     mode : Modes \cup {"closed"}, allocated : BOOLEAN, buffer : Seq(Byte),
     buffer_end : Nat, cursor : Nat, eof : BOOLEAN, eof_seen : BOOLEAN,
     write_start : BOOLEAN]

TypeOK ==
    /\ f \in FileType
    /\ Len(f.buffer) = IF f.allocated THEN BUFSIZE ELSE 0
    /\ result.bytes \in Seq(Byte) /\ result.count \in Int
    /\ due \in Nat

(* The cursor never passes the end of what the buffer holds: the unsigned  *)
(* difference that fread and fwrite take of the two does not wrap.         *)
CursorInBuffer == f.cursor <= f.buffer_end /\ f.buffer_end <= Len(f.buffer)

(* What a buffer holds.  A stream that only reads: the bytes of the file   *)
(* from the descriptor's offset on, so that reading moved nothing.  One    *)
(* that appends: nothing behind the cursor, and it knows that it has       *)
(* something to write.  A closed one: nothing, and it starts at 0 again.   *)
BufferInPlace ==
    /\ f.mode = "r" => \A i \in 1 .. f.buffer_end :
                          /\ f.offset + i <= Len(f.data)
                          /\ f.buffer[i] = f.data[f.offset + i]
    /\ f.mode = "a" => f.cursor = f.buffer_end /\ (f.allocated => f.write_start)
    /\ IF IsOpen THEN f.exists ELSE ~f.allocated /\ f.offset = 0

(* What waits in the buffer to be written to the file, and where it goes.  *)
Waiting == IF Flushes(f) THEN SubSeq(f.buffer, 1, f.buffer_end) ELSE <<>>
Position == IF Appends(f.mode) /\ Waiting # <<>> THEN Len(f.data) ELSE f.offset

(* The buffer cannot be noticed: the stream behaves as a plain file that   *)
(* already holds what waits in the buffer, at the position of the cursor,  *)
(* and nothing of what malloc left in the buffer shows in either.          *)
(* In particular every call returns the bytes and the numbers that an      *)
(* unbuffered file would, and closing the stream loses nothing.            *)
Plain == INSTANCE PlainFile WITH
    data <- Overwrite(f.data, Position, Waiting),
    exists <- f.exists,
    mode <- f.mode,
    fpos <- Position + f.cursor
ImplementsPlainFile == Plain!Spec

(* A caller that loops until feof ends: fread that returns less than it    *)
(* was asked for has met the end of the file, and feof says so.            *)
ShortReadIsEOF ==
    [][\A r \in ReadSizes :
          fread(r[1], r[2]) /\ Readable(f.mode) /\ result'.count < r[2] => f'.eof]_vars

(* The converse, which the tests assert: fread that returns all it was     *)
(* asked for, and that is something, leaves feof at 0.                     *)
FullReadIsNotEOF ==
    [][\A r \in ReadSizes :
          fread(r[1], r[2]) /\ r[2] > 0 /\ result'.count = r[2] => ~f'.eof]_vars

(* fread returns the number of elements whose bytes it has stored, as the  *)
(* comment on its result says.                                             *)
CountIsBytesRead ==
    [][\A r \in ReadSizes :
          fread(r[1], r[2]) => result'.count = Len(result'.bytes) \div r[1]]_vars

(* What fwrite accepted on an append stream is in the file when the stream *)
(* has been flushed, as the tests expect it.                               *)
AppendsReachTheFile ==
    [][fflush /\ Appends(f.mode) => Len(f'.data) >= due]_vars
=============================================================================
