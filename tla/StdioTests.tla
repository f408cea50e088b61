----------------------------- MODULE StdioTests -----------------------------
(***************************************************************************)
(* A test driver of assignment5, see StdioScripts, on the streams of       *)
(* MyStdio.  Each call is a step, and a failed assertion ends the driver.  *)
(***************************************************************************)
EXTENDS MyStdio

VARIABLES
    todo,          (* the calls still to be made                           *)
    aborted        (* an assertion failed                                  *)

tests == <<vars, todo, aborted>>

call == Head(todo)

Calls(name) ==
    /\ ~aborted
    /\ todo # <<>>
    /\ call[1] = name
    /\ todo' = Tail(todo)

(* The assertion on a result is there when the call has all n parts.       *)
Assert(n, holds) == aborted' = (Len(call) = n /\ ~holds)

---------------------------------------------------------------------------
(* script is what the driver calls and asserts.                            *)
TestInit(script) == Init /\ todo = script /\ aborted = FALSE

(* The drivers do not look whether fopen failed before they use the stream. *)
Opens == Calls("fopen") /\ fopen(call[2]) /\ aborted' = (result'.count = EOF)

Reads ==
    /\ Calls("fread")
    /\ fread(call[2], call[3])
    /\ Assert(5, result' = [count |-> call[4], bytes |-> call[5]])

Writes ==
    /\ Calls("fwrite")
    /\ fwrite(call[2], Len(call[3]) \div call[2], call[3])
    /\ Assert(4, result'.count = call[4])

GetsC ==
    /\ Calls("fgetc")
    /\ fgetc
    /\ Assert(2, IF result'.count = 1 THEN result'.bytes = <<call[2]>> ELSE call[2] = EOF)

(* fputc returns the character or EOF.                                     *)
PutsC ==
    /\ Calls("fputc")
    /\ fputc(call[2])
    /\ Assert(3, call[3] = IF result'.count = 1 THEN call[2] ELSE EOF)

FlushesBuffer == Calls("fflush") /\ fflush /\ Assert(2, result'.count = call[2])

Seeks == Calls("fseek") /\ fseek(call[2], call[3]) /\ UNCHANGED aborted

AsksEOF == Calls("feof") /\ Assert(2, f.eof = call[2]) /\ UNCHANGED vars

(* getAllString and test_get_current_all_string: fopen, fread and fclose   *)
(* of another stream, which asks for more than the file holds.             *)
Sees ==
    /\ Calls("sees")
    /\ Assert(2, fread_sub_program1([Closed(f.data, TRUE) EXCEPT !.mode = "r"],
                                    MaxLength).bytes = call[2])
    /\ UNCHANGED vars

Closes == Calls("fclose") /\ fclose /\ UNCHANGED aborted

(* What is in the buffer of a stream that is not closed is lost.           *)
Leaves ==
    /\ Calls("leave")
    /\ f' = Closed(f.data, TRUE)
    /\ UNCHANGED <<result, due, aborted>>

TestNext ==
    \/ Opens \/ Reads \/ Writes \/ GetsC \/ PutsC \/ FlushesBuffer \/ Seeks \/ AsksEOF
    \/ Sees \/ Closes \/ Leaves
=============================================================================
