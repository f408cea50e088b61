----------------------------- MODULE PipeRing -----------------------------
(***************************************************************************)
(* assignment3/20170286.h: MAX_NODE processes in a ring of pipes print the *)
(* lines of one shared file in turn.  The token is the signal YOUR_TURN;   *)
(* the node that meets EOF starts the shutdown (FINISHED_JOB, then         *)
(* FINISHED_JOB_AFTER_LAST once it has passed the last node, SHOUD_EXIT,   *)
(* and GOOD_BYE travelling backwards).                                     *)
(*                                                                         *)
(* Each system call that another process can observe is a step of its own: *)
(* fork, the closing of pipe ends, one call of printOneLine, one read and  *)
(* one write of a pipe, the exit.  What a handler computes between two     *)
(* system calls belongs to the step of the read that started it.           *)
(***************************************************************************)
EXTENDS Naturals, Sequences

CONSTANTS MAX_NODE,   (* number of nodes, 5 in the source                  *)
          FileLines   (* the numbers of lines the input file may have      *)

ASSUME NodeAssumption == MAX_NODE \in Nat /\ MAX_NODE >= 3
ASSUME FileAssumption == FileLines \subseteq Nat

VARIABLES
    lines,      (* number of newline-terminated lines of the input file    *)
    offset,     (* lines behind the file offset, which all nodes share     *)
    readBy,     (* the nodes that called printOneLine, in order            *)
    pipe,       (* pipe[<<i, j>>]: signals written by i and not read by j  *)
    rd,         (* rd[e]: processes that hold the read end of pipe e open  *)
    wr,         (* wr[e]: processes that hold the write end of pipe e open *)
    pc,         (* what each node does next                                *)
    signal,     (* the local variable of inNode that read() fills          *)
    itsDone,    (* the node that met EOF                                   *)
    direction,  (* TRUE: listen to the previous node, FALSE: to the next   *)
    todo        (* the sendSignal calls the running handler still makes    *)

vars == <<lines, offset, readBy, pipe, rd, wr, pc, signal, itsDone,
          direction, todo>>

---------------------------------------------------------------------------
Node == 0 .. MAX_NODE - 1

NextOf(n) == IF n = MAX_NODE - 1 THEN 0 ELSE n + 1
PrevOf(n) == IF n = 0 THEN MAX_NODE - 1 ELSE n - 1

(* Two pipes between neighbours, one per direction.                        *)
Edge == {e \in Node \X Node : e[2] = NextOf(e[1]) \/ e[2] = PrevOf(e[1])}

SignalType == {"YOUR_TURN", "FINISHED_JOB", "FINISHED_JOB_AFTER_LAST",
               "SHOUD_EXIT", "GOOD_BYE"}

(* The local variable signal before the first read: indeterminate in C.    *)
NoSignal == "NONE"

Message == [to : Node, sig : SignalType]

PC == {"unborn", "fork", "init", "print", "recv", "send", "close",
       "exited", "killed"}

ToNext(n, s) == [to |-> NextOf(n), sig |-> s]
ToPrev(n, s) == [to |-> PrevOf(n), sig |-> s]

---------------------------------------------------------------------------
(* The signals a handler sends.  Here and below a definition that a        *)
(* comment calls a fault is no part of the model: it is what a slip in the *)
(* code would make of the definition behind it, and breaks a property.     *)

(* Fault: the last node passes FINISHED_JOB on as it is.                   *)
FinishedFromForgetsLast(n) == "FINISHED_JOB"

(* FINISHED_JOB is renamed where it leaves the last node.                  *)
FinishedFrom(n) ==
    IF NextOf(n) = 0 THEN "FINISHED_JOB_AFTER_LAST" ELSE "FINISHED_JOB"

(* Faults: every node leaves on SHOUD_EXIT; node 0 leaves on it.           *)
OnShouldExitAlwaysLeave(n) == ToPrev(n, "GOOD_BYE")
OnShouldExitLeaveFirst(n) ==
    IF n = 0 THEN ToPrev(n, "GOOD_BYE") ELSE ToNext(n, "SHOUD_EXIT")

(* case SHOUD_EXIT: the last node turns it into GOOD_BYE and returns.      *)
OnShouldExit(n) ==
    IF NextOf(n) = 0 THEN ToPrev(n, "GOOD_BYE") ELSE ToNext(n, "SHOUD_EXIT")

(* The case of FINISHED_JOB_AFTER_LAST has no break: it falls through into *)
(* the case of SHOUD_EXIT.                                                 *)
Reply(n, s) ==
    CASE s = "FINISHED_JOB" ->
            <<ToNext(n, IF itsDone[n] THEN "SHOUD_EXIT" ELSE FinishedFrom(n))>>
      [] s = "FINISHED_JOB_AFTER_LAST" ->
            <<ToNext(n, IF itsDone[n] THEN "SHOUD_EXIT" ELSE s),
              OnShouldExit(n)>>
      [] s = "SHOUD_EXIT" -> <<OnShouldExit(n)>>
      [] s = "GOOD_BYE"   -> <<ToPrev(n, "GOOD_BYE")>>
      [] s \in {"YOUR_TURN", NoSignal} -> <<>>

(* Fault: the case of FINISHED_JOB_AFTER_LAST leaves direction as it is.   *)
TurnsRoundLate(n, s) ==
    \/ s = "FINISHED_JOB" /\ itsDone[n]
    \/ s = "SHOUD_EXIT" /\ NextOf(n) # 0

(* The handlers that set direction to false.                               *)
TurnsRound(n, s) ==
    \/ s = "FINISHED_JOB" /\ itsDone[n]
    \/ s = "FINISHED_JOB_AFTER_LAST"
    \/ s = "SHOUD_EXIT" /\ NextOf(n) # 0

---------------------------------------------------------------------------
(* Initially node 0 has opened the pipes and is alone.                     *)
Init ==
    /\ lines \in FileLines
    /\ offset = 0
    /\ readBy = <<>>
    /\ pipe = [e \in Edge |-> <<>>]
    /\ rd = [e \in Edge |-> {0}]
    /\ wr = [e \in Edge |-> {0}]
    /\ pc = [n \in Node |-> IF n = 0 THEN "fork" ELSE "unborn"]
    /\ signal = [n \in Node |-> NoSignal]
    /\ itsDone = [n \in Node |-> FALSE]
    /\ direction = [n \in Node |-> TRUE]
    /\ todo = [n \in Node |-> <<>>]

(* Node 0 forks the nodes in order; a child inherits every open pipe end.  *)
Fork(i) ==
    /\ pc[0] = "fork"
    /\ i # 0
    /\ pc[i] = "unborn"
    /\ \A j \in Node \ {0} : j < i => pc[j] # "unborn"
    /\ pc' = [pc EXCEPT ![i] = "init",
                        ![0] = IF i = MAX_NODE - 1 THEN "init" ELSE "fork"]
    /\ rd' = [e \in Edge |-> rd[e] \cup {i}]
    /\ wr' = [e \in Edge |-> wr[e] \cup {i}]
    /\ UNCHANGED <<lines, offset, readBy, pipe, signal, itsDone, direction,
                   todo>>

(* Fault: every node prints a line before it listens.                      *)
ClosePipeExceptAndPrint(n) ==
    /\ pc[n] = "init"
    /\ rd' = [e \in Edge |-> IF e[2] = n THEN rd[e] ELSE rd[e] \ {n}]
    /\ wr' = [e \in Edge |-> IF e[1] = n THEN wr[e] ELSE wr[e] \ {n}]
    /\ pc' = [pc EXCEPT ![n] = "print"]
    /\ UNCHANGED <<lines, offset, readBy, pipe, signal, itsDone, direction,
                   todo>>

(* closePipeExcept: keep the write ends of the outgoing pipes and the read *)
(* ends of the incoming ones.  Node 0 goes on to print the first line, all *)
(* others to wait for a signal.                                            *)
ClosePipeExcept(n) ==
    /\ pc[n] = "init"
    /\ rd' = [e \in Edge |-> IF e[2] = n THEN rd[e] ELSE rd[e] \ {n}]
    /\ wr' = [e \in Edge |-> IF e[1] = n THEN wr[e] ELSE wr[e] \ {n}]
    /\ pc' = [pc EXCEPT ![n] = IF n = 0 THEN "print" ELSE "recv"]
    /\ UNCHANGED <<lines, offset, readBy, pipe, signal, itsDone, direction,
                   todo>>

(* Fault: the end of the file is taken for one more line.                  *)
PrintLineBehindEOF(n) ==
    /\ pc[n] = "print"
    /\ offset' = offset + 1
    /\ readBy' = Append(readBy, n)
    /\ todo' = [todo EXCEPT ![n] = <<ToNext(n, "YOUR_TURN")>>]
    /\ pc' = [pc EXCEPT ![n] = "send"]
    /\ UNCHANGED <<lines, pipe, rd, wr, signal, itsDone, direction>>

(* printOneLine returns at a newline: pass the turn on.                    *)
PrintLine(n) ==
    /\ pc[n] = "print"
    /\ offset < lines
    /\ offset' = offset + 1
    /\ readBy' = Append(readBy, n)
    /\ todo' = [todo EXCEPT ![n] = <<ToNext(n, "YOUR_TURN")>>]
    /\ pc' = [pc EXCEPT ![n] = "send"]
    /\ UNCHANGED <<lines, pipe, rd, wr, signal, itsDone, direction>>

(* Fault: the result of printOneLine is ignored.                           *)
MeetEOFUnnoticed(n) ==
    /\ pc[n] = "print"
    /\ offset = lines
    /\ readBy' = Append(readBy, n)
    /\ todo' = [todo EXCEPT ![n] = <<ToNext(n, "YOUR_TURN")>>]
    /\ pc' = [pc EXCEPT ![n] = "send"]
    /\ UNCHANGED <<lines, offset, pipe, rd, wr, signal, itsDone, direction>>

(* printOneLine returns at EOF: this node starts the shutdown.             *)
MeetEOF(n) ==
    /\ pc[n] = "print"
    /\ offset = lines
    /\ readBy' = Append(readBy, n)
    /\ itsDone' = [itsDone EXCEPT ![n] = TRUE]
    /\ todo' = [todo EXCEPT ![n] = <<ToNext(n, FinishedFrom(n))>>]
    /\ pc' = [pc EXCEPT ![n] = "send"]
    /\ UNCHANGED <<lines, offset, pipe, rd, wr, signal, direction>>

(* The node that n listens to, and the value of signal after rcvSignal.    *)
Source(n) == IF direction[n] THEN PrevOf(n) ELSE NextOf(n)
Inbox(n) == pipe[<<Source(n), n>>]
Received(n) == IF Inbox(n) = <<>> THEN signal[n] ELSE Head(Inbox(n))

(* rcvSignal and the switch.  read() blocks while the pipe is empty and    *)
(* some process holds its write end; it returns 0, and leaves the local    *)
(* variable as it was, when nobody does.                                   *)
Receive(n) ==
    LET e  == <<Source(n), n>>
        s  == Received(n)
        r  == Reply(n, s)
    IN  /\ pc[n] = "recv"
        /\ pipe[e] = <<>> => wr[e] = {}
        /\ pipe' = [pipe EXCEPT ![e] = IF @ = <<>> THEN @ ELSE Tail(@)]
        /\ signal' = [signal EXCEPT ![n] = s]
        /\ direction' = [direction EXCEPT ![n] = @ /\ ~TurnsRound(n, s)]
        /\ todo' = [todo EXCEPT ![n] = r]
        /\ pc' = [pc EXCEPT ![n] = IF s = "YOUR_TURN" THEN "print"
                                   ELSE IF r # <<>> THEN "send" ELSE "recv"]
        /\ UNCHANGED <<lines, offset, readBy, rd, wr, itsDone>>

(* sendSignal to a node that still holds the read end.  Every handler that *)
(* sends GOOD_BYE closes all pipes and returns right after.                *)
Deliver(n) ==
    LET m == Head(todo[n])
        e == <<n, m.to>>
    IN  /\ pc[n] = "send"
        /\ rd[e] # {}
        /\ pipe' = [pipe EXCEPT ![e] = Append(@, m.sig)]
        /\ todo' = [todo EXCEPT ![n] = Tail(@)]
        /\ pc' = [pc EXCEPT ![n] =
                     IF m.sig = "GOOD_BYE" THEN "close"
                     ELSE IF Tail(todo[n]) # <<>> THEN "send" ELSE "recv"]
        /\ UNCHANGED <<lines, offset, readBy, rd, wr, signal, itsDone,
                       direction>>

(* sendSignal to a pipe whose read end nobody holds: write() raises        *)
(* SIGPIPE, which the program neither ignores nor handles.                 *)
BrokenPipe(n) ==
    /\ pc[n] = "send"
    /\ rd[<<n, Head(todo[n]).to>>] = {}
    /\ pc' = [pc EXCEPT ![n] = "killed"]
    /\ rd' = [e \in Edge |-> rd[e] \ {n}]
    /\ wr' = [e \in Edge |-> wr[e] \ {n}]
    /\ UNCHANGED <<lines, offset, readBy, pipe, signal, itsDone, direction,
                   todo>>

(* closePipeAll and return, up to the end of main.                         *)
ClosePipeAll(n) ==
    /\ pc[n] = "close"
    /\ rd' = [e \in Edge |-> rd[e] \ {n}]
    /\ wr' = [e \in Edge |-> wr[e] \ {n}]
    /\ pc' = [pc EXCEPT ![n] = "exited"]
    /\ UNCHANGED <<lines, offset, readBy, pipe, signal, itsDone, direction,
                   todo>>

Ended(n) == pc[n] \in {"exited", "killed"}

inNode(n) ==
    \/ PrintLine(n) \/ MeetEOF(n)
    \/ Receive(n)
    \/ Deliver(n) \/ BrokenPipe(n)
    \/ ClosePipeAll(n)

(* The steps of process n: node 0 runs initProgram for all of them.        *)
Step(n) == (n = 0 /\ \E i \in Node : Fork(i)) \/ ClosePipeExcept(n) \/ inNode(n)

(* All processes are gone: not a deadlock.                                 *)
AllOver == (\A n \in Node : Ended(n)) /\ UNCHANGED vars

Next == (\E n \in Node : Step(n)) \/ AllOver

SafeSpec == Init /\ [][Next]_vars

(* The nodes are processes, and the operating system runs each of them.    *)
Spec == SafeSpec /\ \A n \in Node : WF_vars(Step(n))

---------------------------------------------------------------------------
(* The type invariant.                                                     *)
TypeOK ==
    /\ lines \in Nat
    /\ offset \in 0 .. lines
    /\ readBy \in Seq(Node)
    /\ pipe \in [Edge -> Seq(SignalType)]
    /\ rd \in [Edge -> SUBSET Node]
    /\ wr \in [Edge -> SUBSET Node]
    /\ pc \in [Node -> PC]
    /\ signal \in [Node -> SignalType \cup {NoSignal}]
    /\ itsDone \in [Node -> BOOLEAN]
    /\ direction \in [Node -> BOOLEAN]
    /\ todo \in [Node -> Seq(Message)]
    /\ \A n \in Node : pc[n] = "send" => todo[n] # <<>>

(* No two nodes are inside printOneLine at a time: they share one file     *)
(* offset and printOneLine reads it character by character, so two of them *)
(* would tear a line apart.  This is also what makes it sound to model     *)
(* printOneLine as one step.                                               *)
OnePrinter ==
    \A m, n \in Node : pc[m] = "print" /\ pc[n] = "print" => m = n

(* Line k is read by node (k - 1) mod MAX_NODE, and nobody calls           *)
(* printOneLine again after the call that met EOF.                         *)
TurnsInOrder ==
    /\ Len(readBy) <= lines + 1
    /\ \A k \in 1 .. Len(readBy) : readBy[k] = (k - 1) % MAX_NODE

(* A node that waits in rcvSignal finds the pipe closed by its writer only *)
(* if the writer was killed: a node that leaves through closePipeAll has   *)
(* said GOOD_BYE first.  (read() then returns 0 at once, and inNode, which *)
(* ignores the result, handles its previous signal again.)                 *)
EndOfPipeOnlyAfterKill ==
    \A n \in Node :
        pc[n] = "recv" /\ Inbox(n) = <<>> /\ wr[<<Source(n), n>>] = {}
            => pc[Source(n)] = "killed"

(* FINISHED_JOB never comes back to the node that met EOF: it would have   *)
(* to pass the last node, which renames it.  The branch of the switch for  *)
(* a node that is done is unreachable, and the shutdown relies on the case *)
(* of FINISHED_JOB_AFTER_LAST alone.                                       *)
FinishedJobNeverReturns ==
    \A n \in Node : itsDone[n] => \A e \in Edge :
        e[2] = n => \A k \in 1 .. Len(pipe[e]) : pipe[e][k] # "FINISHED_JOB"

(* The double signals that the fall-through produces never pile up: no     *)
(* pipe holds more than two signals, so no write() ever blocks.            *)
PipesStayShort == \A e \in Edge : Len(pipe[e]) <= 2

(* However the nodes come to their end, no turn and no notice of the       *)
(* finished job is left unread in a pipe: what remains are the surplus     *)
(* SHOUD_EXITs of the fall-through, and GOOD_BYEs to the dead.             *)
OnlyFarewellsUnread ==
    (\A n \in Node : Ended(n)) =>
        \A e \in Edge : \A k \in 1 .. Len(pipe[e]) :
            pipe[e][k] \in {"SHOUD_EXIT", "GOOD_BYE"}

(* sendSignal sends a signal to the process end, as its comment says: the  *)
(* destination still holds its end of the pipe.                            *)
SignalHasReceiver ==
    \A n \in Node : pc[n] = "send" => rd[<<n, Head(todo[n]).to>>] # {}

(* The nodes that have said good bye.                                      *)
Left == {n \in Node : pc[n] \in {"close", "exited", "killed"}}

(* The ring implements TurnTaking: the lines are read in turn until EOF,   *)
(* then the nodes leave in reverse order, and both really happen.          *)
Turns == INSTANCE TurnTaking WITH left <- Left
ImplementsTurnTaking == Turns!Spec
===========================================================================
