------------------------------ MODULE ReadWrite ------------------------------
(***************************************************************************)
(* The program assignment6/20170286.c on top of the thread library: reader *)
(* threads copy the lines of a file into one buffer and a writer thread    *)
(* prints the buffer, all under one semaphore.                             *)
(*                                                                         *)
(* A line is known by its number.  Lines are at most BUFSIZ / 3 characters *)
(* long, so that fgets takes one line a call and three lines fit in str.   *)
(***************************************************************************)
EXTENDS UThread, Integers, Sums

CONSTANTS
    Readers,    (* the threads that run reader(); all others run writer()  *)
    Files       (* the input files: the lengths of the lines with their    *)
                (* newlines, and whether the last line has a newline       *)

ASSUME ReadersAssumption == Readers \subseteq Thread
ASSUME FilesAssumption ==
    \A f \in Files : f.length \in Seq(Nat \ {0}) /\ f.newline \in BOOLEAN

VARIABLES
    file,       (* the input file                                          *)
    fpos,       (* number of lines read                                    *)
    eof,        (* the end-of-file indicator of fp                         *)
    str,        (* the lines in the buffer                                 *)
    out,        (* the lines printed                                       *)
    ended       (* how the process ended                                   *)

library == <<next, thread_queue, curr_thread, g_tid, counter, sem_q, pc, hung>>
data == <<file, fpos, eof, str, out, ended>>
rwvars == <<library, data>>

Lines == Len(file.length)

strlen(s) == Total([k \in 1 .. Len(s) |-> file.length[s[k]]])

---------------------------------------------------------------------------
RWInit ==
    /\ Init
    /\ file \in Files
    /\ fpos = 0
    /\ eof = FALSE
    /\ str = <<>>
    /\ out = <<>>
    /\ ended = "no"

Alive == ended = "no"

(* main and P touch the data of the library only.                          *)
Prepare == Alive /\ Main /\ UNCHANGED data

Enter(t) == Alive /\ (P_Take(t) \/ P_Wait(t)) /\ UNCHANGED data

(* feof(fp): the reader ends the process.                                  *)
FileEnd(t) ==
    /\ Alive
    /\ t \in Readers
    /\ Runs(t)
    /\ pc[t] = "in"
    /\ eof
    /\ ended' = "File END"
    /\ UNCHANGED <<library, file, fpos, eof, str, out>>

(* Faults, no part of the model: a reader takes no notice of the end of    *)
(* the file; it overwrites the buffer; it yields before V.                 *)
ReadLineBlindly(t) ==
    /\ Alive /\ t \in Readers /\ pc[t] = "in" /\ ~eof
    /\ fpos' = fpos + 1
    /\ str' = Append(str, fpos')
    /\ V(t)
    /\ UNCHANGED <<file, eof, out, ended>>

ReadLineOver(t) ==
    /\ Alive /\ t \in Readers /\ pc[t] = "in" /\ ~eof
    /\ IF fpos < Lines
         THEN /\ fpos' = fpos + 1
              /\ str' = <<fpos'>>
              /\ eof' = (fpos' = Lines /\ ~file.newline)
         ELSE eof' = TRUE /\ UNCHANGED <<fpos, str>>
    /\ V(t)
    /\ UNCHANGED <<file, out, ended>>

ReadLineAndYield(t) ==
    /\ Alive /\ t \in Readers /\ pc[t] = "in" /\ ~eof
    /\ IF fpos < Lines
         THEN /\ fpos' = fpos + 1
              /\ str' = Append(str, fpos')
              /\ eof' = (fpos' = Lines /\ ~file.newline)
         ELSE eof' = TRUE /\ UNCHANGED <<fpos, str>>
    /\ yield(t)
    /\ UNCHANGED <<file, out, ended>>

(* fgets appends a line to str.  It meets the end of the file behind a     *)
(* last line without a newline, and otherwise only when nothing is left.   *)
ReadLine(t) ==
    /\ Alive
    /\ t \in Readers
    /\ pc[t] = "in"
    /\ ~eof
    /\ IF fpos < Lines
         THEN /\ fpos' = fpos + 1
              /\ str' = Append(str, fpos')
              /\ eof' = (fpos' = Lines /\ ~file.newline)
         ELSE eof' = TRUE /\ UNCHANGED <<fpos, str>>
    /\ V(t)
    /\ UNCHANGED <<file, out, ended>>

(* Faults: the writer gives up with a line or two in the buffer; it does   *)
(* not empty the buffer.                                                   *)
NoMoreWriteEarly(t) ==
    /\ Alive
    /\ t \notin Readers
    /\ Runs(t)
    /\ pc[t] = "in"
    /\ strlen(str) < 10
    /\ ended' = "no more Write"
    /\ UNCHANGED <<library, file, fpos, eof, str, out>>

WriteLinesAgain(t) ==
    /\ Alive
    /\ t \notin Readers
    /\ pc[t] = "in"
    /\ strlen(str) >= 3
    /\ out' = out \o str
    /\ V(t)
    /\ UNCHANGED <<file, fpos, eof, str, ended>>

(* strlen(str) < 3: writer() returns, and with it the process, since the   *)
(* context of a thread has no successor.                                   *)
NoMoreWrite(t) ==
    /\ Alive
    /\ t \notin Readers
    /\ Runs(t)
    /\ pc[t] = "in"
    /\ strlen(str) < 3
    /\ ended' = "no more Write"
    /\ UNCHANGED <<library, file, fpos, eof, str, out>>

WriteLines(t) ==
    /\ Alive
    /\ t \notin Readers
    /\ pc[t] = "in"
    /\ strlen(str) >= 3
    /\ out' = out \o str
    /\ str' = <<>>
    /\ V(t)
    /\ UNCHANGED <<file, fpos, eof, ended>>

reader(t) == FileEnd(t) \/ ReadLine(t)
writer(t) == NoMoreWrite(t) \/ WriteLines(t)

(* The process is gone: not a deadlock.                                    *)
Over == ~Alive /\ UNCHANGED rwvars

RWNext ==
    \/ Prepare
    \/ \E t \in Thread : Enter(t) \/ reader(t) \/ writer(t)
    \/ Over

RWSafeSpec == RWInit /\ [][RWNext]_rwvars

(* One process, which the operating system runs.                           *)
RWSpec == RWSafeSpec /\ WF_rwvars(RWNext)

---------------------------------------------------------------------------
(* The type invariant.                                                     *)
RWTypeOK ==
    /\ TypeOK
    /\ file \in Files
    /\ fpos \in 0 .. Lines
    /\ eof \in BOOLEAN
    /\ str \in Seq(Nat) /\ out \in Seq(Nat)
    /\ ended \in {"no", "File END", "no more Write"}

(* What was printed and what waits in the buffer are the lines read, each  *)
(* once and in the order of the file, although several threads read them.  *)
LinesInOrder == out \o str = [k \in 1 .. fpos |-> k]

(* When the process ends the whole file has been read, and at most two of  *)
(* its lines are still in the buffer and lost: no batch of three is.       *)
AtMostTwoLinesLost == ~Alive => fpos = Lines /\ Len(str) <= 2

(* The four threads never need the semaphore: no thread gives up the       *)
(* processor inside the critical section, so P never waits.  This is what  *)
(* keeps the program clear of the queues that P and V would spoil.         *)
NobodyWaits == sem_q = NULL /\ \A t \in Thread : pc[t] # "P"

(* The writer prints three lines at a time, as its message says, except    *)
(* when the file has come to its end.                                      *)
ThreeLinesAtATime ==
    [][out' # out => Len(out') = Len(out) + 3 \/ fpos = Lines]_rwvars

(* The program ends, whatever the file.                                    *)
Terminates == <>(~Alive)

(* The threads of the program run in the order in which they were created, *)
(* again and again.                                                        *)
Scheduler == INSTANCE RoundRobin WITH
    ready <- Listing(next, thread_queue), running <- curr_thread
ImplementsRoundRobin == Scheduler!Spec
===========================================================================
