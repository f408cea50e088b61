------------------------------ MODULE PlainFile ------------------------------
(***************************************************************************)
(* What assignment5/mystdio.h promises, with no buffer: a stream is a file *)
(* and a position in it, and every call acts on the file at once.          *)
(***************************************************************************)
EXTENDS Integers, Sequences, FiniteSetsExt

CONSTANTS
    Modes,        (* the modes of fopen                                    *)
    ReadSizes,    (* what fread is asked for: the size of an element and   *)
                  (* the number of elements                                *)
    WriteSizes,   (* what fwrite is asked for                              *)
    Offsets,      (* the offsets fseek is asked for                        *)
    Files,        (* what is in the file at the beginning                  *)
    ZERO,         (* the byte 0                                            *)
    WRITTEN       (* a byte that fwrite writes                             *)

VARIABLES
    data,         (* the bytes of the file                                 *)
    exists,       (* whether there is a file                               *)
    mode,         (* the mode of the open stream, or "closed"              *)
    fpos,         (* its position                                          *)
    result        (* what the last call gave back: the bytes it stored and *)
                  (* the number it returned                                *)

vars == <<data, exists, mode, fpos, result>>

Readable(m) == m \in {"r", "r+", "w+", "a+"}
Writable(m) == m # "r"
Appends(m)  == m \in {"a", "a+"}

EOF == -1
Nothing == [bytes |-> <<>>, count |-> 0]

(* At most n bytes of d from position p on.                                *)
BytesAt(d, p, n) == SubSeq(d, p + 1, Min({p + n, Len(d)}))

(* d with the bytes s written at position p; a gap is filled with zeros.   *)
WrittenAt(d, p, s) ==
    IF s = <<>> THEN d
    ELSE [i \in 1 .. Max({Len(d), p + Len(s)}) |->
            IF i \in p + 1 .. p + Len(s) THEN s[i - p]
            ELSE IF i <= Len(d) THEN d[i] ELSE ZERO]

Bytes(n) == [i \in 1 .. n |-> WRITTEN]

---------------------------------------------------------------------------
Init ==
    /\ exists \in BOOLEAN
    /\ data \in IF exists THEN Files ELSE {<<>>}
    /\ mode = "closed"
    /\ fpos = 0
    /\ result = Nothing

fopen(m) ==
    /\ mode = "closed"
    /\ IF m \in {"r", "r+"} /\ ~exists
         THEN /\ result' = [Nothing EXCEPT !.count = EOF]
              /\ UNCHANGED <<data, exists, mode, fpos>>
         ELSE /\ mode' = m
              /\ exists' = TRUE
              /\ data' = IF m \in {"w", "w+"} THEN <<>> ELSE data
              /\ fpos' = 0
              /\ result' = Nothing

(* Reading n bytes, of which found(c) is told when c could be read.        *)
Get(n, found(_)) ==
    /\ mode # "closed"
    /\ LET b == IF Readable(mode) THEN BytesAt(data, fpos, n) ELSE <<>>
       IN  /\ fpos' = fpos + Len(b)
           /\ result' = [bytes |-> b, count |-> found(Len(b))]
    /\ UNCHANGED <<data, exists, mode>>

fread(size, nmemb) == Get(size * nmemb, LAMBDA c : c \div size)
fgetc == Get(1, LAMBDA c : IF c = 0 THEN EOF ELSE c)

Put(s, done, failed) ==
    /\ mode # "closed"
    /\ IF Writable(mode) /\ s # <<>>
         THEN LET p == IF Appends(mode) THEN Len(data) ELSE fpos
              IN  /\ data' = WrittenAt(data, p, s)
                  /\ fpos' = p + Len(s)
                  /\ result' = [bytes |-> <<>>, count |-> done]
         ELSE /\ result' = [bytes |-> <<>>, count |-> failed]
              /\ UNCHANGED <<data, fpos>>
    /\ UNCHANGED <<exists, mode>>

fwrite(nmemb, s) == Put(s, nmemb, 0)
fputc(c) == Put(<<c>>, 1, EOF)

(* What is flushed is in the file already.                                 *)
fflush ==
    /\ mode # "closed"
    /\ \E c \in {0, EOF} : result' = [Nothing EXCEPT !.count = c]
    /\ UNCHANGED <<data, exists, mode, fpos>>

(* Only a failure is told apart by the value: success is not negative.     *)
fseek(offset, base) ==
    LET target == offset + CASE base = "SEEK_SET" -> 0
                             [] base = "SEEK_CUR" -> fpos
                             [] base = "SEEK_END" -> Len(data)
    IN  /\ mode # "closed"
        /\ fpos' = IF target >= 0 THEN target ELSE fpos
        /\ \E c \in IF target >= 0 THEN 0 .. target ELSE {EOF} :
              result' = [Nothing EXCEPT !.count = c]
        /\ UNCHANGED <<data, exists, mode>>

fclose ==
    /\ mode # "closed"
    /\ mode' = "closed"
    /\ fpos' = 0
    /\ result' = Nothing
    /\ UNCHANGED <<data, exists>>

Next ==
    \/ \E m \in Modes : fopen(m)
    \/ \E r \in ReadSizes : fread(r[1], r[2])
    \/ fgetc
    \/ \E w \in WriteSizes : fwrite(w[2], Bytes(w[1] * w[2]))
    \/ fputc(WRITTEN)
    \/ fflush
    \/ \E o \in Offsets, b \in {"SEEK_SET", "SEEK_CUR", "SEEK_END"} : fseek(o, b)
    \/ fclose

Spec == Init /\ [][Next]_vars
=============================================================================
