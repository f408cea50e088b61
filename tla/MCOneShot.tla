----------------------------- MODULE MCOneShot -----------------------------
(***************************************************************************)
(* The programs that run once and alone, one of them in each behaviour:    *)
(* the decoder of assignment1, the patcher of assignment2 and the two test *)
(* drivers of assignment5.  The variables of the others do not change.     *)
(***************************************************************************)
EXTENDS BitDecoder, ElfPatcher, StdioScripts

CONSTANT ZERO

VARIABLES program, f, result, due, todo, aborted

driver == <<f, result, due, todo, aborted>>

(* Each driver has the buffer it was written for.                          *)
Modes == {"r", "r+", "w", "w+", "a", "a+"}
MaxLength == 1000
Large == INSTANCE StdioTests WITH BUFSIZE <- 300,
            FlushModes <- Modes, Files <- {<<>>}, ReadSizes <- {}, WriteSizes <- {},
            Offsets <- {}, WRITTEN <- 0
Small == INSTANCE StdioTests WITH BUFSIZE <- 4,
            FlushModes <- Modes, Files <- {<<>>}, ReadSizes <- {}, WriteSizes <- {},
            Offsets <- {}, WRITTEN <- 0

---------------------------------------------------------------------------
NoDecoder ==
    /\ input = <<>> /\ tmpStr = (CHOOSE t \in Stack : TRUE)
    /\ flag = 1 /\ pos = 0 /\ eof = FALSE /\ memory = <<>> /\ i = 0
    /\ heap = "ok" /\ shown = <<>> /\ stage = "exit 0"

NoPatcher ==
    /\ bytes = <<>> /\ unpatched = <<>> /\ buff = <<>> /\ section = 1 /\ pass = 0
    /\ elf = [isElf |-> FALSE, shoff |-> 0, table |-> <<>>,
              names |-> [offset |-> 0, size |-> 0]]
    /\ step = "done"

NoDriver == f = 0 /\ result = 0 /\ due = 0 /\ todo = <<>> /\ aborted = FALSE

OneShotInit ==
    \/ program = "decoder" /\ DecoderInit /\ NoPatcher /\ NoDriver
    \/ program = "patcher" /\ NoDecoder /\ PatcherInit /\ NoDriver
    \/ program = "large"   /\ NoDecoder /\ NoPatcher /\ Large!TestInit(Yongrak)
    \/ program = "small"   /\ NoDecoder /\ NoPatcher /\ Small!TestInit(Wonjun)

(* A driver that cannot make its next call is a deadlock, and TLC says so.  *)
Ended ==
    /\ \/ program = "decoder" /\ stage \in {"exit 0", "exit 1", "aborted"}
       \/ program \in {"large", "small"} /\ todo = <<>>
    /\ UNCHANGED <<decoder, patcher, driver>>

OneShotNext ==
    /\ UNCHANGED program
    /\ \/ program = "decoder" /\ DecoderNext /\ UNCHANGED <<patcher, driver>>
       \/ program = "patcher" /\ PatcherNext /\ UNCHANGED <<decoder, driver>>
       \/ program = "large" /\ Large!TestNext /\ UNCHANGED <<decoder, patcher>>
       \/ program = "small" /\ Small!TestNext /\ UNCHANGED <<decoder, patcher>>
       \/ Ended

OneShotSpec ==
    /\ OneShotInit
    /\ [][OneShotNext]_<<program, decoder, patcher, driver>>
    /\ WF_decoder(DecoderNext)

(* Neither test driver fails an assertion, each with the buffer size it    *)
(* was written for: what the library does is what its authors' tests       *)
(* expect of it, although each test finds the file and the stream as the   *)
(* calls before have left them.  Deadlock freedom says that both end.      *)
TestsPass == ~aborted

---------------------------------------------------------------------------
(* Bytes of two bits; a file of 8, 16 and 24 characters, the empty file,   *)
(* and files of other lengths.                                             *)
MCSizes == [char |-> 1, int |-> 2, double |-> 4]
Binary == {48, 49}
MCInputs ==
    [1 .. 8 -> Binary]
    \cup {u \o [k \in 1 .. 8 |-> 97 - u[9 - k]] : u \in [1 .. 8 -> Binary]}
    \cup {u \o u \o u : u \in [1 .. 8 -> Binary]}
    \cup {<<>>, <<48>>, [k \in 1 .. 9 |-> IF k = 9 THEN 10 ELSE 49]}
MCStack == {[k \in 1 .. 8 |-> c] : c \in Binary}

(* Power is the function that its name says.                               *)
ASSUME PowersOfTwo == \A k \in 0 .. MaxBits : Power[k] = 2 ^ k

(* A word of three bytes, in ELF files whose header, section headers and   *)
(* table of names have a byte each (per section).                          *)
MCWord == <<1, 2, 3>>
MCResString == <<4, 1, 5>>
MCBehind == {<<0>>, <<3, 0>>, <<2, 3, 0>>}
Extents(ro, o, n) == [rodata |-> ro, offset |-> o, size |-> n]
HeadersOf(t, end) ==
    [isElf |-> TRUE, shoff |-> end, table |-> t, names |-> [offset |-> end - 1, size |-> 1]]
FilesWith(t, n) ==
    {[elf |-> HeadersOf(t, n + 2),
      bytes |-> <<9>> \o c \o <<9>> \o [k \in 1 .. Len(t) |-> 9]] : c \in [1 .. n -> 0 .. 3]}
OneSection == HeadersOf(<<Extents(TRUE, 1, 3)>>, 5)
CutOrNoElf ==
    {[elf |-> OneSection, bytes |-> SubSeq(<<9, 1, 2, 3, 9, 9>>, 1, k)] : k \in 0 .. 5}
    \cup {[elf |-> [OneSection EXCEPT !.isElf = FALSE], bytes |-> <<9, 1, 2, 3, 9, 9>>]}
    \cup {[elf |-> [OneSection EXCEPT !.names = [offset |-> 6, size |-> 2]],
           bytes |-> SubSeq(<<9, 1, 2, 3, 9, 9, 9, 9>>, 1, k)] : k \in 6 .. 8}
MCImages ==
    FilesWith(<<Extents(TRUE, 1, 6)>>, 6)
    \cup FilesWith(<<Extents(TRUE, 1, 3), Extents(FALSE, 4, 1), Extents(TRUE, 5, 1)>>, 5)
    \cup FilesWith(<<Extents(FALSE, 1, 1), Extents(TRUE, 2, 4)>>, 5)
    \cup CutOrNoElf
============================================================================
