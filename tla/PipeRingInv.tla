---------------------------- MODULE PipeRingInv ----------------------------
(***************************************************************************)
(* The inductive invariant of the ring, as a conjunction of named parts.   *)
(***************************************************************************)
EXTENDS PipeRing

Last == MAX_NODE - 1

(* The signal s occurs in the pipe contents q.                             *)
Holds(q, s) == \E k \in 1 .. Len(q) : q[k] = s

(* The signal s occurs in the list q of sendSignal calls.                  *)
Sends(q, s) == \E k \in 1 .. Len(q) : q[k].sig = s

(* Node n is about to send s.                                              *)
Pending(n, s) == pc[n] = "send" /\ Sends(todo[n], s)

(* s is on its way from n to the next node: not sent yet, or not read yet. *)
Forward(n, s) == Pending(n, s) \/ Holds(pipe[<<n, NextOf(n)>>], s)

Starting == {"unborn", "fork", "init"}
Waiting(n) == pc[n] \in {"unborn", "init", "recv"}
Ready == pc[0] \notin Starting
---------------------------------------------------------------------------
(* GOOD_BYE goes back to the previous node, everything else on to the      *)
(* next.  The handlers that end in GOOD_BYE never return to the loop.      *)
TodoInv ==
    \A n \in Node : pc[n] = "send" =>
        /\ \A k \in 1 .. Len(todo[n]) :
              todo[n][k].to = IF todo[n][k].sig = "GOOD_BYE" THEN PrevOf(n)
                                                             ELSE NextOf(n)
        /\ signal[n] = "GOOD_BYE" \/ (n = Last /\ ~direction[n]) =>
              todo[n][Len(todo[n])].sig = "GOOD_BYE"

(* GOOD_BYE travels backwards, and everything else forwards.               *)
PipeInv ==
    \A n \in Node :
        /\ ~Holds(pipe[<<n, NextOf(n)>>], "GOOD_BYE")
        /\ \A s \in SignalType \ {"GOOD_BYE"} :
              ~Holds(pipe[<<n, PrevOf(n)>>], s)

(* A process holds its own pipe ends from its fork to its exit, and node 0 *)
(* holds all of them while it is forking.                                  *)
EndsInv ==
    /\ \A n \in Node : pc[n] = "unborn" => pc[0] = "fork"
    /\ pc[0] = "fork" => \A e \in Edge : 0 \in rd[e] /\ 0 \in wr[e]
    /\ \A e \in Edge :
          /\ e[2] \in rd[e] \/ pc[e[2]] = "unborn" \/ Ended(e[2])
          /\ e[1] \in wr[e] \/ pc[e[1]] = "unborn" \/ Ended(e[1])

(* The nodes leave from the last one down.                                 *)
LeftInv == \A m, n \in Node : m > n /\ n \in Left => m \in Left
---------------------------------------------------------------------------
(* Before EOF: exactly one node has the turn, or is passing it on, or the  *)
(* turn is in the pipe to it; everything else is quiet.                    *)
Quiet(S) ==
    /\ \A n \in Node \ S : Waiting(n)
    /\ \A n \in Node : ~itsDone[n] /\ direction[n]

AtNode(t) ==
    /\ (pc[t] = "print" /\ Ready) \/ (t = 0 /\ pc[0] \in {"fork", "init"})
    /\ Quiet({t})
    /\ \A e \in Edge : pipe[e] = <<>>

Leaving(t) ==
    LET p == PrevOf(t)
    IN  /\ pc[p] = "send" /\ Ready
        /\ todo[p] = <<ToNext(p, "YOUR_TURN")>>
        /\ Quiet({p})
        /\ \A e \in Edge : pipe[e] = <<>>

InPipe(t) ==
    LET p == PrevOf(t)
    IN  /\ pipe[<<p, t>>] = <<"YOUR_TURN">>
        /\ Quiet({}) /\ Ready
        /\ \A e \in Edge : e # <<p, t>> => pipe[e] = <<>>

(* The calls of printOneLine, counted from 0, go round the ring.           *)
NextTurn == Len(readBy) % MAX_NODE

Turning ==
    /\ Len(readBy) = offset
    /\ AtNode(NextTurn) \/ Leaving(NextTurn) \/ InPipe(NextTurn)

(* After EOF: no turn is left anywhere.                                    *)
Finishing ==
    /\ offset = lines
    /\ Len(readBy) = lines + 1
    /\ \A n \in Node : ~Forward(n, "YOUR_TURN") /\ pc[n] # "print"
    /\ Ready

PhaseInv == Turning \/ Finishing

OrderInv == \A k \in 1 .. Len(readBy) : readBy[k] = (k - 1) % MAX_NODE
---------------------------------------------------------------------------
(* GOOD_BYE is only sent when all later nodes have left, and a node that   *)
(* leaves through closePipeAll has sent it.                                *)
GoodByeInv ==
    \A n \in Node :
        /\ Pending(n, "GOOD_BYE") => \A m \in Node : m > n => m \in Left
        /\ Holds(pipe[<<n, PrevOf(n)>>], "GOOD_BYE") => n \in Left
        /\ pc[n] \in {"close", "exited"} =>
              \/ Holds(pipe[<<n, PrevOf(n)>>], "GOOD_BYE")
              \/ signal[PrevOf(n)] = "GOOD_BYE"
              \/ n = 0
        /\ signal[n] = "GOOD_BYE" => pc[n] = "send" \/ n \in Left

(* Whoever turned round did so on FINISHED_JOB_AFTER_LAST or SHOUD_EXIT;   *)
(* the last node leaves instead.                                           *)
DirectionInv ==
    \A n \in Node : ~direction[n] =>
        /\ signal[n] \in {"FINISHED_JOB_AFTER_LAST", "SHOUD_EXIT", "GOOD_BYE"}
        /\ pc[n] \in {"recv", "send"} \/ n \in Left
        /\ pc[n] = "recv" => n # Last

(* Node 0 turns round first: the shutdown passes it before anyone is told  *)
(* to exit.                                                                *)
RoundInv ==
    direction[0] => \A n \in Node :
        /\ ~Forward(n, "SHOUD_EXIT")
        /\ Forward(n, "FINISHED_JOB_AFTER_LAST") => n = Last
        /\ ~Pending(n, "GOOD_BYE")
        /\ n \notin Left
        /\ direction[n]

(* FINISHED_JOB travels from the node that met EOF up to the last node.    *)
FinishedJobInv ==
    \A n \in Node : Forward(n, "FINISHED_JOB") =>
        n # Last /\ \A d \in Node : itsDone[d] => d <= n

RingInv ==
    /\ TypeOK
    /\ TodoInv /\ PipeInv /\ EndsInv /\ LeftInv
    /\ PhaseInv /\ OrderInv
    /\ GoodByeInv /\ DirectionInv /\ RoundInv /\ FinishedJobInv
---------------------------------------------------------------------------
(* What the pipes hold during the shutdown: a second invariant, on top of  *)
(* RingInv.                                                                *)
Onward(n) == pipe[<<n, NextOf(n)>>]
Backward(n) == pipe[<<n, PrevOf(n)>>]

(* Somebody can still read what n sends to the next node.                  *)
Heard(n) == rd[<<n, NextOf(n)>>] # {}

(* Only its reader, and processes that have not closed yet what they       *)
(* inherited, hold the read end of a pipe.                                 *)
ReadersInv ==
    \A e \in Edge : \A n \in rd[e] :
        pc[n] \in Starting \/ (n = e[2] /\ ~Ended(n))

(* A node that is still starting has had no turn, and the shutdown has not *)
(* gone past it.                                                           *)
StartInv ==
    \A n \in Node : pc[n] \in Starting =>
        /\ Len(readBy) <= n
        /\ \A m \in Node : m >= n => ~Forward(m, "FINISHED_JOB")
        /\ \A m \in Node : ~Forward(m, "FINISHED_JOB_AFTER_LAST")
        /\ direction[0]

(* The signals that n has under way.                                       *)
Load(n) == Len(Onward(n)) + (IF pc[n] = "send" THEN Len(todo[n]) ELSE 0)

(* From EOF until node 0 turns round there is one signal in the ring.      *)
OneSignalInv ==
    Len(readBy) > lines =>
        /\ \E d \in Node : itsDone[d]
        /\ direction[0] => \E t \in Node :
              Load(t) <= 1 /\ \A n \in Node : n # t => Load(n) = 0

(* After that the nodes turn round in order.  A node that has not turned   *)
(* has sent nothing and waits, as do all behind it; the last node does not *)
(* turn if it leaves on SHOUD_EXIT.                                        *)
FrontierInv ==
    ~direction[0] =>
        /\ \A n \in Node : ~Forward(n, "FINISHED_JOB")
        /\ \A n \in Node : direction[n] =>
              /\ Onward(n) = <<>>
              /\ \A m \in Node : m > n => direction[m] /\ pc[m] = "recv"
              /\ n # Last => pc[n] = "recv"
              /\ pc[n] = "send" => todo[n] = <<ToPrev(n, "GOOD_BYE")>>

(* The next node waits for its turn to turn round, and the node that met   *)
(* EOF is behind n.                                                        *)
Awaited(n) ==
    /\ direction[NextOf(n)] /\ pc[NextOf(n)] = "recv"
    /\ \E d \in Node : d > n /\ itsDone[d]

(* FINISHED_JOB_AFTER_LAST is the first thing the next node hears of n and *)
(* does not get past the node that met EOF.  (Who handles a signal again   *)
(* because the next node was killed is not heard.)                         *)
AfterLastInv ==
    ~direction[0] => \A n \in Node :
        /\ \A k \in 1 .. Len(Onward(n)) :
              Onward(n)[k] = "FINISHED_JOB_AFTER_LAST" => k = 1 /\ Awaited(n)
        /\ pc[n] = "send" /\ Heard(n) => \A k \in 1 .. Len(todo[n]) :
              todo[n][k].sig = "FINISHED_JOB_AFTER_LAST" =>
                  k = 1 /\ Onward(n) = <<>> /\ Awaited(n)

(* A node speaks to the previous one once, when it leaves.                 *)
BackwardInv ==
    \A n \in Node :
        /\ n \notin Left => Backward(n) = <<>>
        /\ Len(Backward(n)) <= 1

(* What a node has sent and still sends to the next one.                   *)
ShortInv ==
    \A n \in Node :
        /\ Len(Onward(n)) <= 2
        /\ pc[n] = "send" /\ Heard(n) =>
              \/ Len(Onward(n)) + Len(todo[n]) <= 2
              \/ todo[n][1].sig = "GOOD_BYE"

ShutdownInv ==
    /\ ReadersInv /\ StartInv /\ OneSignalInv /\ FrontierInv
    /\ AfterLastInv /\ BackwardInv /\ ShortInv
===========================================================================
