-------------------------- MODULE PipeRing_proofs --------------------------
(***************************************************************************)
(* What holds of the ring for every number of nodes and every file.        *)
(***************************************************************************)
EXTENDS PipeRingInv, TLAPS

(* The ring: next and previous are inverse, and the edges in the two       *)
(* directions are different ones, which takes three nodes.                 *)
LEMMA NodeFacts ==
    /\ 0 \in Node /\ Last \in Node /\ Node \subseteq Nat
    /\ \A n \in Node :
          /\ NextOf(n) \in Node /\ PrevOf(n) \in Node
          /\ NextOf(PrevOf(n)) = n /\ PrevOf(NextOf(n)) = n
          /\ NextOf(n) # n /\ PrevOf(n) # n
          /\ NextOf(n) # PrevOf(n)
          /\ NextOf(n) = 0 <=> n = Last
          /\ n # Last => NextOf(n) = n + 1
          /\ n # 0 => PrevOf(n) = n - 1
  BY NodeAssumption DEF Node, Last, NextOf, PrevOf

(* Every edge joins two nodes, one of which is next to the other.          *)
LEMMA EdgeFacts ==
    /\ \A n \in Node :
          /\ <<n, NextOf(n)>> \in Edge /\ <<n, PrevOf(n)>> \in Edge
          /\ <<NextOf(n), n>> \in Edge /\ <<PrevOf(n), n>> \in Edge
    /\ \A e \in Edge : \E n \in Node :
          e = <<n, NextOf(n)>> \/ e = <<n, PrevOf(n)>>
<1>1. ASSUME NEW m \in Node, NEW n \in Node
      PROVE  <<m, n>> \in Edge <=> n = NextOf(m) \/ n = PrevOf(m)
  <2>1. <<m, n>>[1] = m /\ <<m, n>>[2] = n
    OBVIOUS
  <2> QED BY <2>1, Zenon DEF Edge
<1>2. \A e \in Edge : \E m, n \in Node : e = <<m, n>>
  BY DEF Edge
<1> QED BY <1>1, <1>2, NodeFacts

(* A queue that is not empty.                                              *)
LEMMA QueueFacts ==
  ASSUME NEW S, NEW q \in Seq(S), q # <<>>
  PROVE  /\ Len(q) \in Nat /\ Len(q) >= 1
         /\ Head(q) = q[1] /\ Head(q) \in S
         /\ Tail(q) \in Seq(S) /\ Len(Tail(q)) = Len(q) - 1
         /\ \A k \in 1 .. Len(q) - 1 : Tail(q)[k] = q[k + 1]
  OBVIOUS

(* ToNext and ToPrev make messages to the neighbours.                      *)
LEMMA MessageFacts ==
    \A n \in Node, s \in SignalType :
        /\ ToNext(n, s) \in Message /\ ToPrev(n, s) \in Message
        /\ ToNext(n, s).to = NextOf(n) /\ ToNext(n, s).sig = s
        /\ ToPrev(n, s).to = PrevOf(n) /\ ToPrev(n, s).sig = s
        /\ <<ToNext(n, s)>> \in Seq(Message)
        /\ <<ToPrev(n, s)>> \in Seq(Message)
  BY NodeFacts DEF Message, ToNext, ToPrev, SignalType

(* The signals that FinishedFrom and OnShouldExit choose.                  *)
LEMMA FinishedFacts ==
    \A n \in Node :
        /\ FinishedFrom(n) \in SignalType
        /\ FinishedFrom(n) = IF n = Last THEN "FINISHED_JOB_AFTER_LAST"
                                         ELSE "FINISHED_JOB"
  BY NodeFacts DEF FinishedFrom, SignalType

(* The signals a handler sends, case by case.                              *)
LEMMA ReplyCases ==
  ASSUME NEW n \in Node
  PROVE  /\ Reply(n, NoSignal) = <<>> /\ Reply(n, "YOUR_TURN") = <<>>
         /\ Reply(n, "FINISHED_JOB") =
              <<ToNext(n, IF itsDone[n] THEN "SHOUD_EXIT" ELSE FinishedFrom(n))>>
         /\ Reply(n, "FINISHED_JOB_AFTER_LAST") =
              <<ToNext(n, IF itsDone[n] THEN "SHOUD_EXIT"
                                        ELSE "FINISHED_JOB_AFTER_LAST"),
                OnShouldExit(n)>>
         /\ Reply(n, "SHOUD_EXIT") = <<OnShouldExit(n)>>
         /\ Reply(n, "GOOD_BYE") = <<ToPrev(n, "GOOD_BYE")>>
<1>1. Reply(n, NoSignal) = <<>>
  BY DEF Reply, NoSignal
<1>2. Reply(n, "YOUR_TURN") = <<>>
  BY DEF Reply, NoSignal
<1>3. Reply(n, "FINISHED_JOB") =
        <<ToNext(n, IF itsDone[n] THEN "SHOUD_EXIT" ELSE FinishedFrom(n))>>
  BY DEF Reply, NoSignal
<1>4. Reply(n, "FINISHED_JOB_AFTER_LAST") =
        <<ToNext(n, IF itsDone[n] THEN "SHOUD_EXIT"
                                  ELSE "FINISHED_JOB_AFTER_LAST"),
          OnShouldExit(n)>>
  BY DEF Reply, NoSignal
<1>5. Reply(n, "SHOUD_EXIT") = <<OnShouldExit(n)>>
  BY DEF Reply, NoSignal
<1>6. Reply(n, "GOOD_BYE") = <<ToPrev(n, "GOOD_BYE")>>
  BY DEF Reply, NoSignal
<1> QED BY <1>1, <1>2, <1>3, <1>4, <1>5, <1>6

(* What a handler sends are messages.                                      *)
LEMMA ReplyType ==
  ASSUME NEW n \in Node, NEW s \in SignalType \cup {NoSignal},
         itsDone \in [Node -> BOOLEAN]
  PROVE  Reply(n, s) \in Seq(Message)
<1>1. OnShouldExit(n) \in Message
  BY NodeFacts, MessageFacts DEF OnShouldExit, SignalType
<1>2. \A x, y \in Message : <<x, y>> \in Seq(Message) /\ <<x>> \in Seq(Message)
  OBVIOUS
<1>3. ToNext(n, IF itsDone[n] THEN "SHOUD_EXIT"
                              ELSE "FINISHED_JOB_AFTER_LAST") \in Message
  BY MessageFacts DEF SignalType
<1>4. ToNext(n, IF itsDone[n] THEN "SHOUD_EXIT"
                              ELSE FinishedFrom(n)) \in Message
  BY MessageFacts, FinishedFacts DEF SignalType
<1>5. ToPrev(n, "GOOD_BYE") \in Message /\ <<>> \in Seq(Message)
  BY MessageFacts DEF SignalType
<1> QED BY <1>1, <1>2, <1>3, <1>4, <1>5, ReplyCases DEF SignalType

(* Every step preserves the type invariant.                                *)
LEMMA TypeStep == TypeOK /\ [Next]_vars => TypeOK'
<1> SUFFICES ASSUME TypeOK, [Next]_vars PROVE TypeOK'
  OBVIOUS
<1> USE NodeFacts, EdgeFacts DEF TypeOK, PC
<1>1. ASSUME NEW i \in Node, Fork(i) PROVE TypeOK'
  BY <1>1 DEF Fork
<1>2. ASSUME NEW n \in Node, ClosePipeExcept(n) PROVE TypeOK'
  BY <1>2 DEF ClosePipeExcept
<1>3. ASSUME NEW n \in Node, PrintLine(n) PROVE TypeOK'
  <2>1. offset' \in 0 .. lines /\ readBy' \in Seq(Node)
    BY <1>3 DEF PrintLine
  <2>2. todo' \in [Node -> Seq(Message)]
        /\ \A i \in Node : pc'[i] = "send" => todo'[i] # <<>>
    BY <1>3, MessageFacts DEF PrintLine, SignalType
  <2> QED BY <1>3, <2>1, <2>2 DEF PrintLine
<1>4. ASSUME NEW n \in Node, MeetEOF(n) PROVE TypeOK'
  <2>1. ToNext(n, FinishedFrom(n)) \in Message
    <3>1. FinishedFrom(n) \in SignalType
      BY FinishedFacts
    <3> QED BY <3>1, MessageFacts, Zenon
  <2>2. todo' \in [Node -> Seq(Message)]
        /\ \A i \in Node : pc'[i] = "send" => todo'[i] # <<>>
    <3> DEFINE m == ToNext(n, FinishedFrom(n))
    <3>1. <<m>> \in Seq(Message) /\ <<m>> # <<>>
      BY <2>1
    <3>2. todo' = [todo EXCEPT ![n] = <<m>>] /\ pc' = [pc EXCEPT ![n] = "send"]
      BY <1>4 DEF MeetEOF
    <3> HIDE DEF m
    <3> QED BY <3>1, <3>2
  <2>3. readBy' \in Seq(Node)
    BY <1>4 DEF MeetEOF
  <2> QED BY <1>4, <2>2, <2>3 DEF MeetEOF
<1>5. ASSUME NEW n \in Node, Receive(n) PROVE TypeOK'
  <2> DEFINE e == <<Source(n), n>>
             s == Received(n)
  <2>1. e \in Edge /\ pipe[e] \in Seq(SignalType)
    BY DEF Source
  <2> HIDE DEF e
  <2>2. s \in SignalType \cup {NoSignal}
    <3>1. pipe[e] # <<>> => Head(pipe[e]) \in SignalType
      BY <2>1, QueueFacts
    <3> QED BY <3>1 DEF s, Received, Inbox, e
  <2> HIDE DEF s
  <2>3. Reply(n, s) \in Seq(Message)
    BY <2>2, ReplyType
  <2>4. /\ pipe' = [pipe EXCEPT ![e] = IF @ = <<>> THEN @ ELSE Tail(@)]
        /\ signal' = [signal EXCEPT ![n] = s]
        /\ direction' = [direction EXCEPT ![n] = @ /\ ~TurnsRound(n, s)]
        /\ todo' = [todo EXCEPT ![n] = Reply(n, s)]
        /\ pc' = [pc EXCEPT ![n] = IF s = "YOUR_TURN" THEN "print"
                   ELSE IF Reply(n, s) # <<>> THEN "send" ELSE "recv"]
        /\ UNCHANGED <<lines, offset, readBy, rd, wr, itsDone>>
    BY <1>5, Zenon DEF Receive, e, s
  <2>5. pipe' \in [Edge -> Seq(SignalType)]
    BY <2>1, <2>4
  <2>6. direction' \in [Node -> BOOLEAN]
    BY <2>4
  <2> QED BY <2>2, <2>3, <2>4, <2>5, <2>6
<1>6. ASSUME NEW n \in Node, Deliver(n) PROVE TypeOK'
  <2> DEFINE m == Head(todo[n])
  <2>1. m \in Message /\ Tail(todo[n]) \in Seq(Message)
    BY <1>6, QueueFacts DEF Deliver
  <2>2. m.to \in Node /\ m.sig \in SignalType
    BY <2>1 DEF Message
  <2> HIDE DEF m
  <2>3. pipe' \in [Edge -> Seq(SignalType)]
    <3>1. pipe' = [pipe EXCEPT ![<<n, m.to>>] = Append(@, m.sig)]
      BY <1>6 DEF Deliver, m
    <3>2. \A q \in Seq(SignalType) : Append(q, m.sig) \in Seq(SignalType)
      BY <2>2
    <3> QED BY <3>1, <3>2
  <2>4. /\ todo' = [todo EXCEPT ![n] = Tail(@)]
        /\ pc' = [pc EXCEPT ![n] = IF m.sig = "GOOD_BYE" THEN "close"
                     ELSE IF Tail(todo[n]) # <<>> THEN "send" ELSE "recv"]
        /\ UNCHANGED <<lines, offset, readBy, rd, wr, signal, itsDone,
                       direction>>
    BY <1>6 DEF Deliver, m
  <2> QED BY <2>1, <2>3, <2>4
<1>7. ASSUME NEW n \in Node, BrokenPipe(n) PROVE TypeOK'
  BY <1>7 DEF BrokenPipe
<1>8. ASSUME NEW n \in Node, ClosePipeAll(n) PROVE TypeOK'
  BY <1>8 DEF ClosePipeAll
<1>9. CASE UNCHANGED vars
  BY <1>9 DEF vars
<1> QED
  BY <1>1, <1>2, <1>3, <1>4, <1>5, <1>6, <1>7, <1>8, <1>9
  DEF Next, Step, inNode, AllOver

(* The type invariant of the ring.                                         *)
THEOREM TypeCorrect == SafeSpec => []TypeOK
<1>1. Init => TypeOK
  BY FileAssumption, NodeFacts DEF Init, TypeOK, PC, NoSignal, SignalType
<1> QED BY <1>1, TypeStep, PTL DEF SafeSpec
---------------------------------------------------------------------------
(* What a step does to the contents of a pipe and to a list of messages.   *)
LEMMA HoldsFacts ==
  ASSUME NEW S, NEW q \in Seq(S)
  PROVE  /\ \A s : ~Holds(<<>>, s)
         /\ \A s, x \in S : Holds(Append(q, x), s) <=> Holds(q, s) \/ x = s
         /\ q # <<>> => Holds(q, Head(q))
         /\ q # <<>> => \A s : Holds(Tail(q), s) => Holds(q, s)
<1>1. \A s : ~Holds(<<>>, s)
  BY DEF Holds
<1>2. ASSUME NEW s \in S, NEW x \in S
      PROVE  Holds(Append(q, x), s) <=> Holds(q, s) \/ x = s
  <2>1. /\ Len(Append(q, x)) = Len(q) + 1 /\ Len(q) \in Nat
        /\ \A k \in 1 .. Len(q) : Append(q, x)[k] = q[k]
        /\ Append(q, x)[Len(q) + 1] = x
    OBVIOUS
  <2>2. 1 .. Len(Append(q, x)) = (1 .. Len(q)) \cup {Len(q) + 1}
    BY <2>1
  <2>3. Holds(Append(q, x), s) => Holds(q, s) \/ x = s
    BY <2>1, <2>2 DEF Holds
  <2>4. Holds(q, s) => Holds(Append(q, x), s)
    BY <2>1, <2>2 DEF Holds
  <2>5. x = s => Holds(Append(q, x), s)
    BY <2>1, <2>2 DEF Holds
  <2> QED BY <2>3, <2>4, <2>5
<1>3. ASSUME q # <<>> PROVE Holds(q, Head(q))
  BY <1>3, QueueFacts DEF Holds
<1>4. ASSUME q # <<>>, NEW s, Holds(Tail(q), s) PROVE Holds(q, s)
  <2>1. PICK k \in 1 .. Len(q) - 1 : Tail(q)[k] = s
    BY <1>4, QueueFacts DEF Holds
  <2>2. q[k + 1] = s /\ k + 1 \in 1 .. Len(q)
    BY <1>4, <2>1, QueueFacts
  <2> QED BY <2>2 DEF Holds
<1> QED BY <1>1, <1>2, <1>3, <1>4

(* The same for lists of sendSignal calls.                                 *)
LEMMA SendsFacts ==
  ASSUME NEW q \in Seq(Message), q # <<>>
  PROVE  /\ Sends(q, Head(q).sig)
         /\ \A s : Sends(Tail(q), s) => Sends(q, s)
         /\ Tail(q) = <<>> => Head(q) = q[Len(q)]
         /\ Tail(q) # <<>> => Tail(q)[Len(Tail(q))] = q[Len(q)]
<1> USE QueueFacts
<1>1. Sends(q, Head(q).sig)
  BY DEF Sends
<1>2. ASSUME NEW s, Sends(Tail(q), s) PROVE Sends(q, s)
  <2>1. PICK k \in 1 .. Len(q) - 1 : Tail(q)[k].sig = s
    BY <1>2 DEF Sends
  <2>2. q[k + 1].sig = s /\ k + 1 \in 1 .. Len(q)
    BY <2>1
  <2> QED BY <2>2 DEF Sends
<1>3. Tail(q) = <<>> => Head(q) = q[Len(q)]
  <2> SUFFICES ASSUME Tail(q) = <<>> PROVE Len(q) = 1
    OBVIOUS
  <2>1. \A t : t = <<>> => Len(t) = 0
    OBVIOUS
  <2>2. Len(Tail(q)) = 0
    BY <2>1, Zenon
  <2> QED BY <2>2
<1>4. Tail(q) # <<>> => Tail(q)[Len(Tail(q))] = q[Len(q)]
  OBVIOUS
<1> QED BY <1>1, <1>2, <1>3, <1>4

(* An empty pipe holds no signal.                                          *)
LEMMA EmptyHolds == \A q : q = <<>> => \A s : ~Holds(q, s)
  BY DEF Holds

(* Lists of one and of two messages.                                       *)
LEMMA ListFacts ==
  ASSUME NEW x, NEW y
  PROVE  /\ <<x>> # <<>> /\ <<x>>[Len(<<x>>)] = x
         /\ \A s : Sends(<<x>>, s) <=> x.sig = s
         /\ <<x, y>> # <<>> /\ <<x, y>>[Len(<<x, y>>)] = y
         /\ \A s : Sends(<<x, y>>, s) <=> x.sig = s \/ y.sig = s
<1>1. Len(<<x>>) = 1 /\ 1 .. 1 = {1} /\ <<x>>[1] = x
  OBVIOUS
<1>2. Len(<<x, y>>) = 2 /\ 1 .. 2 = {1, 2} /\ <<x, y>>[1] = x /\ <<x, y>>[2] = y
  OBVIOUS
<1>3. <<x>> # <<>> /\ <<x, y>> # <<>>
  OBVIOUS
<1>4. \A s : Sends(<<x>>, s) <=> x.sig = s
  BY <1>1, Zenon DEF Sends
<1>5. \A s : Sends(<<x, y>>, s) <=> x.sig = s \/ y.sig = s
  BY <1>2, Zenon DEF Sends
<1> QED BY <1>1, <1>2, <1>3, <1>4, <1>5

(* A step that moves no signal and starts or ends no sending.              *)
LEMMA QuietStep ==
  ASSUME pipe' = pipe, todo' = todo,
         \A n \in Node : pc'[n] = "send" <=> pc[n] = "send"
  PROVE  \A n \in Node : \A s : /\ Pending(n, s)' <=> Pending(n, s)
                                /\ Forward(n, s)' <=> Forward(n, s)
  BY DEF Pending, Forward
---------------------------------------------------------------------------
(* The node whose turn it is is a node.                                    *)
LEMMA NextTurnType == TypeOK => NextTurn \in Node
<1>1. \A k \in Nat : k % MAX_NODE \in 0 .. MAX_NODE - 1
  BY NodeAssumption
<1>2. TypeOK => Len(readBy) \in Nat
  BY DEF TypeOK
<1> QED BY <1>1, <1>2 DEF NextTurn, Node

(* The initial state, and one lemma per action.                            *)
LEMMA InitInv == Init => RingInv
<1> SUFFICES ASSUME Init PROVE RingInv
  OBVIOUS
<1> USE NodeFacts, EdgeFacts
<1>1. TypeOK
  BY FileAssumption DEF Init, TypeOK, PC, NoSignal, SignalType
<1>2. \A n \in Node : pc[n] \in {"unborn", "fork"} /\ n \notin Left
                      /\ signal[n] = "NONE" /\ direction[n] /\ ~itsDone[n]
  BY DEF Init, Left, NoSignal
<1>4. \A n \in Node : \A s : ~Pending(n, s) /\ ~Forward(n, s)
                             /\ ~Holds(pipe[<<n, PrevOf(n)>>], s)
                             /\ ~Holds(pipe[<<n, NextOf(n)>>], s)
  <2>1. \A e \in Edge : \A s : ~Holds(pipe[e], s)
    BY EmptyHolds DEF Init
  <2> QED BY <2>1, <1>2 DEF Pending, Forward
<1>5. TodoInv /\ PipeInv /\ LeftInv
  BY <1>2, <1>4 DEF TodoInv, PipeInv, LeftInv
<1>6. EndsInv
  <2>1. \A e \in Edge : /\ e[1] \in Node /\ e[2] \in Node
                        /\ rd[e] = {0} /\ wr[e] = {0}
    BY DEF Init, Edge
  <2>2. \A n \in Node : n # 0 => pc[n] = "unborn"
    BY DEF Init
  <2>3. pc[0] = "fork"
    BY DEF Init
  <2> QED BY <2>1, <2>2, <2>3 DEF EndsInv
<1>7. PhaseInv /\ OrderInv
  <2>1. NextTurn = 0 /\ Len(readBy) = 0
    BY NodeAssumption DEF Init, NextTurn
  <2>2. AtNode(0)
    BY <1>2 DEF Init, AtNode, Quiet, Waiting
  <2> QED BY <2>1, <2>2 DEF Init, PhaseInv, Turning, OrderInv
<1>8. GoodByeInv /\ DirectionInv /\ RoundInv /\ FinishedJobInv
  BY <1>2, <1>4 DEF GoodByeInv, DirectionInv, RoundInv, FinishedJobInv
<1> QED BY <1>1, <1>5, <1>6, <1>7, <1>8 DEF RingInv

(* A fork preserves the invariant: nothing moves while node 0 forks.       *)
LEMMA ForkInv ==
  ASSUME RingInv, TypeOK', NEW i \in Node, Fork(i)
  PROVE  RingInv'
<1> USE NodeFacts DEF RingInv
<1>1. /\ pc \in [Node -> PC] /\ pc[0] = "fork" /\ pc[i] = "unborn" /\ i # 0
      /\ pc' = [pc EXCEPT ![i] = "init",
                          ![0] = IF i = MAX_NODE - 1 THEN "init" ELSE "fork"]
      /\ UNCHANGED <<lines, offset, readBy, pipe, signal, itsDone, direction,
                     todo>>
  BY DEF Fork, TypeOK
<1>2. /\ pc'[0] \in {"fork", "init"} /\ pc'[i] = "init"
      /\ \A n \in Node \ {0, i} : pc'[n] = pc[n]
  BY <1>1
<1>3. \A n \in Node : \A s : /\ Pending(n, s)' <=> Pending(n, s)
                             /\ Forward(n, s)' <=> Forward(n, s)
  BY <1>1, <1>2, QuietStep
<1>4. Left' = Left
  BY <1>1, <1>2 DEF Left
<1>5. TodoInv'
  BY <1>1, <1>2 DEF TodoInv
<1>6. EndsInv'
  <2>1. \A n \in Node : pc'[n] = "unborn" => pc'[0] = "fork"
    <3>1. \A n \in Node \ {0} : n < i => pc[n] # "unborn"
      BY DEF Fork
    <3>2. CASE i = MAX_NODE - 1
      <4>1. \A n \in Node : n = 0 \/ n = i \/ n < i
        BY <3>2 DEF Node
      <4> QED BY <1>1, <1>2, <3>1, <4>1
    <3>3. CASE i # MAX_NODE - 1
      <4>1. pc'[0] = "fork"
        BY <1>1, <3>3
      <4> QED BY <4>1
    <3> QED BY <3>2, <3>3
  <2>2. rd' = [e \in Edge |-> rd[e] \cup {i}] /\ wr' = [e \in Edge |-> wr[e] \cup {i}]
    BY DEF Fork
  <2>3. \A e \in Edge : e[1] \in Node /\ e[2] \in Node
    BY DEF Edge
  <2> QED BY <1>1, <1>2, <2>1, <2>2, <2>3 DEF EndsInv, Ended
<1>7. PhaseInv'
  <2>1. NextTurn = 0 /\ AtNode(0) /\ Turning
    BY <1>1 DEF PhaseInv, Turning, Finishing, AtNode, Leaving, InPipe, Ready,
                Starting
  <2>2. AtNode(0)'
    BY <1>1, <1>2, <2>1 DEF AtNode, Quiet, Waiting
  <2>3. NextTurn' = 0
    BY <1>1, <2>1 DEF NextTurn
  <2> QED BY <1>1, <2>1, <2>2, <2>3 DEF PhaseInv, Turning
<1>8. GoodByeInv' /\ DirectionInv'
  BY <1>1, <1>2, <1>3, <1>4 DEF GoodByeInv, DirectionInv
<1> QED
  BY <1>1, <1>3, <1>4, <1>5, <1>6, <1>7, <1>8
  DEF PipeInv, LeftInv, OrderInv, RoundInv, FinishedJobInv

(* closePipeExcept preserves it: each node keeps the ends it needs.        *)
LEMMA ClosePipeExceptInv ==
  ASSUME RingInv, TypeOK', NEW n \in Node, ClosePipeExcept(n)
  PROVE  RingInv'
<1> USE NodeFacts DEF RingInv
<1>1. /\ pc \in [Node -> PC] /\ pc[n] = "init"
      /\ pc' = [pc EXCEPT ![n] = IF n = 0 THEN "print" ELSE "recv"]
      /\ UNCHANGED <<lines, offset, readBy, pipe, signal, itsDone, direction,
                     todo>>
  BY DEF ClosePipeExcept, TypeOK
<1>2. /\ pc'[n] = IF n = 0 THEN "print" ELSE "recv"
      /\ \A i \in Node \ {n} : pc'[i] = pc[i]
  BY <1>1
<1>3. \A i \in Node : \A s : /\ Pending(i, s)' <=> Pending(i, s)
                             /\ Forward(i, s)' <=> Forward(i, s)
  BY <1>1, <1>2, QuietStep
<1>4. Left' = Left
  BY <1>1, <1>2 DEF Left
<1>5. TodoInv'
  BY <1>1, <1>2 DEF TodoInv
<1>6. EndsInv'
  <2>1. /\ rd' = [e \in Edge |-> IF e[2] = n THEN rd[e] ELSE rd[e] \ {n}]
        /\ wr' = [e \in Edge |-> IF e[1] = n THEN wr[e] ELSE wr[e] \ {n}]
    BY DEF ClosePipeExcept
  <2>2. \A e \in Edge : e[1] \in Node /\ e[2] \in Node
    BY DEF Edge
  <2> QED BY <1>1, <1>2, <2>1, <2>2 DEF EndsInv, Ended
<1>7. PhaseInv'
  <2>1. CASE n = 0
    <3>1. NextTurn = 0 /\ AtNode(0) /\ Turning
      BY <1>1, <2>1 DEF PhaseInv, Turning, Finishing, AtNode, Leaving, InPipe,
                        Ready, Starting
    <3>2. AtNode(0)'
      BY <1>1, <1>2, <2>1, <3>1 DEF AtNode, Quiet, Waiting, Ready, Starting
    <3>3. NextTurn' = 0
      BY <1>1, <3>1 DEF NextTurn
    <3> QED BY <1>1, <3>1, <3>2, <3>3 DEF PhaseInv, Turning
  <2>2. CASE n # 0
    <3>1. Ready' <=> Ready
      BY <1>2, <2>2 DEF Ready
    <3>2. \A i \in Node : /\ Waiting(i) => Waiting(i)'
                          /\ pc'[i] = "print" <=> pc[i] = "print"
                          /\ pc'[i] = "send" <=> pc[i] = "send"
      BY <1>1, <1>2, <2>2 DEF Waiting
    <3>3. NextTurn' = NextTurn /\ NextTurn \in Node
      BY <1>1, NextTurnType DEF NextTurn
    <3>4. ASSUME NEW t \in Node PROVE /\ AtNode(t) => AtNode(t)'
                                      /\ Leaving(t) => Leaving(t)'
                                      /\ InPipe(t) => InPipe(t)'
      BY <1>1, <1>2, <2>2, <3>1, <3>2 DEF AtNode, Leaving, InPipe, Quiet
    <3>5. CASE Turning
      BY <1>1, <3>3, <3>4, <3>5 DEF PhaseInv, Turning
    <3>6. CASE Finishing
      BY <1>1, <1>3, <3>1, <3>2, <3>6 DEF PhaseInv, Finishing
    <3> QED BY <3>5, <3>6 DEF PhaseInv
  <2> QED BY <2>1, <2>2
<1>8. GoodByeInv' /\ DirectionInv'
  <2>1. n \notin Left
    BY <1>1 DEF Left
  <2>2. signal[n] # "GOOD_BYE" /\ direction[n]
    BY <1>1, <2>1 DEF GoodByeInv, DirectionInv
  <2>3. GoodByeInv'
    BY <1>1, <1>2, <1>3, <1>4, <2>2 DEF GoodByeInv
  <2>4. DirectionInv'
    BY <1>1, <1>2, <1>4, <2>2 DEF DirectionInv
  <2> QED BY <2>3, <2>4
<1> QED
  BY <1>1, <1>3, <1>4, <1>5, <1>6, <1>7, <1>8
  DEF PipeInv, LeftInv, OrderInv, RoundInv, FinishedJobInv

(* closePipeAll preserves it: who leaves has said good bye.                *)
LEMMA ClosePipeAllInv ==
  ASSUME RingInv, TypeOK', NEW n \in Node, ClosePipeAll(n)
  PROVE  RingInv'
<1> USE NodeFacts DEF RingInv
<1>1. /\ pc \in [Node -> PC] /\ pc[n] = "close"
      /\ pc' = [pc EXCEPT ![n] = "exited"]
      /\ UNCHANGED <<lines, offset, readBy, pipe, signal, itsDone, direction,
                     todo>>
  BY DEF ClosePipeAll, TypeOK
<1>2. pc'[n] = "exited" /\ \A i \in Node \ {n} : pc'[i] = pc[i]
  BY <1>1
<1>3. \A i \in Node : \A s : /\ Pending(i, s)' <=> Pending(i, s)
                             /\ Forward(i, s)' <=> Forward(i, s)
  BY <1>1, <1>2, QuietStep
<1>4. Left' = Left
  BY <1>1, <1>2 DEF Left
<1>5. TodoInv'
  BY <1>1, <1>2 DEF TodoInv
<1>6. EndsInv'
  <2>1. /\ rd' = [e \in Edge |-> rd[e] \ {n}]
        /\ wr' = [e \in Edge |-> wr[e] \ {n}]
    BY DEF ClosePipeAll
  <2>2. \A e \in Edge : e[1] \in Node /\ e[2] \in Node
    BY DEF Edge
  <2> QED BY <1>1, <1>2, <2>1, <2>2 DEF EndsInv, Ended
<1>7. PhaseInv'
  <2>1. Finishing
    BY <1>1, NextTurnType
    DEF PhaseInv, Turning, AtNode, Leaving, InPipe, Quiet, Waiting
  <2> QED BY <1>1, <1>2, <1>3, <2>1 DEF PhaseInv, Finishing, Ready, Starting
<1>8. GoodByeInv'
  <2>1. n \in Left
    BY <1>1 DEF Left
  <2> QED BY <1>1, <1>2, <1>3, <1>4, <2>1 DEF GoodByeInv
<1>9. DirectionInv'
  BY <1>1, <1>2, <1>4 DEF DirectionInv, Left
<1> QED
  BY <1>1, <1>3, <1>4, <1>5, <1>6, <1>7, <1>8, <1>9
  DEF PipeInv, LeftInv, OrderInv, RoundInv, FinishedJobInv

(* The node with the turn is the one that prints.                          *)
LEMMA PrinterHasTurn ==
  ASSUME TypeOK, PhaseInv, NEW n \in Node, pc[n] = "print"
  PROVE  /\ n = NextTurn /\ Len(readBy) = offset /\ AtNode(n) /\ Ready
         /\ \A i \in Node \ {n} : Waiting(i)
<1>1. Turning
  BY DEF PhaseInv, Finishing
<1>2. NextTurn \in Node
  BY NextTurnType
<1>3. ~Waiting(n)
  BY DEF Waiting
<1>4. ~InPipe(NextTurn) /\ ~Leaving(NextTurn)
  BY <1>3 DEF InPipe, Leaving, Quiet
<1>5. AtNode(NextTurn) /\ n = NextTurn
  BY <1>1, <1>3, <1>4 DEF Turning, AtNode, Quiet
<1> QED BY <1>1, <1>5 DEF Turning, AtNode, Quiet, Ready, Starting

(* The remainder is the one number below the divisor that fits.            *)
LEMMA ModUnique ==
  ASSUME NEW k \in Nat, NEW q \in Nat, NEW r \in Node, k = MAX_NODE * q + r
  PROVE  k % MAX_NODE = r
  BY NodeAssumption DEF Node

(* Counting on by one goes round the ring by one.                          *)
LEMMA ModSucc ==
  ASSUME NEW k \in Nat
  PROVE  (k + 1) % MAX_NODE = NextOf(k % MAX_NODE)
<1> USE NodeAssumption DEF Node, NextOf
<1>1. PICK q \in Nat, r \in Node : k = MAX_NODE * q + r
  <2>1. /\ k = MAX_NODE * (k \div MAX_NODE) + (k % MAX_NODE)
        /\ k % MAX_NODE \in Node /\ k \div MAX_NODE \in Nat
    OBVIOUS
  <2> QED BY <2>1
<1>2. k % MAX_NODE = r
  BY <1>1, ModUnique
<1>3. \A x, y \in Nat, z \in Node : x = MAX_NODE * y + z => x % MAX_NODE = z
  BY ModUnique
<1>4. CASE r = MAX_NODE - 1
  <2>1. k + 1 = MAX_NODE * (q + 1) + 0
    BY <1>1, <1>4
  <2>2. k + 1 \in Nat /\ q + 1 \in Nat /\ 0 \in Node
    OBVIOUS
  <2>3. (k + 1) % MAX_NODE = 0
    BY ONLY <1>3, <2>1, <2>2, Zenon
  <2> QED BY <1>2, <1>4, <2>3
<1>5. CASE r # MAX_NODE - 1
  <2>1. k + 1 = MAX_NODE * q + (r + 1) /\ r + 1 \in Node
    BY <1>1, <1>5
  <2>2. k + 1 \in Nat
    OBVIOUS
  <2>3. (k + 1) % MAX_NODE = r + 1
    BY ONLY <1>3, <2>1, <2>2, Zenon
  <2> QED BY <1>2, <1>5, <2>3
<1> QED BY <1>4, <1>5

(* A call of printOneLine by the node whose turn it is.                    *)
LEMMA CallInOrder ==
  ASSUME TypeOK, OrderInv, readBy' = Append(readBy, NextTurn)
  PROVE  /\ OrderInv' /\ NextTurn' = NextOf(NextTurn)
         /\ Len(readBy') = Len(readBy) + 1
<1>1. /\ Len(readBy) \in Nat /\ Len(readBy') = Len(readBy) + 1
      /\ \A k \in 1 .. Len(readBy) : readBy'[k] = readBy[k]
      /\ readBy'[Len(readBy) + 1] = NextTurn
  BY NextTurnType DEF TypeOK
<1>2. OrderInv'
  <2> SUFFICES ASSUME NEW k \in 1 .. Len(readBy) + 1
               PROVE  readBy'[k] = (k - 1) % MAX_NODE
    BY <1>1 DEF OrderInv
  <2>1. CASE k \in 1 .. Len(readBy)
    BY <1>1, <2>1 DEF OrderInv
  <2>2. CASE k = Len(readBy) + 1
    <3>1. k - 1 = Len(readBy)
      BY <1>1, <2>2
    <3> QED BY <1>1, <2>2, <3>1 DEF NextTurn
  <2> QED BY <1>1, <2>1, <2>2
<1> QED BY <1>1, <1>2, ModSucc DEF NextTurn

(* After printOneLine its caller is the only one with a signal on its way. *)
LEMMA CallerSends ==
  ASSUME TypeOK, PhaseInv, NEW n \in Node, pc[n] = "print",
         NEW x, todo' = [todo EXCEPT ![n] = <<x>>],
         pc' = [pc EXCEPT ![n] = "send"], UNCHANGED pipe
  PROVE  /\ pc'[n] = "send" /\ \A i \in Node \ {n} : pc'[i] = pc[i]
         /\ todo'[n] = <<x>>
         /\ \A e \in Edge : pipe'[e] = <<>>
         /\ \A i \in Node : \A s : Forward(i, s)' <=> i = n /\ s = x.sig
         /\ \A i \in Node : \A s : Pending(i, s)' <=> i = n /\ s = x.sig
         /\ \A e \in Edge : \A s : ~Holds(pipe'[e], s)
         /\ Left' = Left /\ Left = {}
         /\ \A i \in Node : ~itsDone[i] /\ direction[i]
         /\ Ready'
<1> USE NodeFacts, EdgeFacts, PrinterHasTurn
<1>1. pc \in [Node -> PC] /\ todo \in [Node -> Seq(Message)]
  BY DEF TypeOK
<1>2. pc'[n] = "send" /\ \A i \in Node \ {n} : pc'[i] = pc[i]
  BY <1>1
<1>3. todo'[n] = <<x>>
  BY <1>1
<1>4. \A e \in Edge : pipe'[e] = <<>>
  BY DEF AtNode
<1>5. \A e \in Edge : \A s : ~Holds(pipe'[e], s)
  BY <1>4, EmptyHolds
<1>6. \A i \in Node : pc'[i] = "send" => i = n
  BY <1>2 DEF Waiting
<1>7. \A s : Sends(todo'[n], s) <=> s = x.sig
  <2>1. \A s : Sends(<<x>>, s) <=> x.sig = s
    BY ListFacts
  <2> QED BY <1>3, <2>1
<1>8. \A i \in Node : \A s : Pending(i, s)' <=> i = n /\ s = x.sig
  BY <1>2, <1>6, <1>7 DEF Pending
<1>9. \A i \in Node : \A s : Forward(i, s)' <=> i = n /\ s = x.sig
  BY <1>5, <1>8 DEF Forward
<1>10. Left' = Left /\ Left = {}
  BY <1>2 DEF Left, Waiting
<1>11. Ready'
  BY <1>2 DEF Ready, Starting
<1>12. \A i \in Node : ~itsDone[i] /\ direction[i]
  BY DEF AtNode, Quiet
<1> QED
  BY <1>2, <1>3, <1>4, <1>5, <1>8, <1>9, <1>10, <1>11, <1>12

(* printOneLine at a newline preserves it: the turn is passed on.          *)
LEMMA PrintLineInv ==
  ASSUME RingInv, TypeOK', NEW n \in Node, PrintLine(n)
  PROVE  RingInv'
<1> USE NodeFacts, EdgeFacts DEF RingInv
<1> DEFINE x == ToNext(n, "YOUR_TURN")
<1>1. /\ pc[n] = "print"
      /\ todo' = [todo EXCEPT ![n] = <<x>>] /\ pc' = [pc EXCEPT ![n] = "send"]
      /\ readBy' = Append(readBy, n) /\ offset' = offset + 1
      /\ UNCHANGED <<lines, pipe, rd, wr, signal, itsDone, direction>>
  BY DEF PrintLine
<1>2. x.sig = "YOUR_TURN" /\ x.to = NextOf(n)
  BY MessageFacts DEF SignalType
<1> HIDE DEF x
<1>3. /\ pc'[n] = "send" /\ \A i \in Node \ {n} : pc'[i] = pc[i]
      /\ todo'[n] = <<x>>
      /\ \A e \in Edge : pipe'[e] = <<>>
      /\ \A i \in Node : \A s : Forward(i, s)' <=> i = n /\ s = x.sig
      /\ \A i \in Node : \A s : Pending(i, s)' <=> i = n /\ s = x.sig
      /\ \A e \in Edge : \A s : ~Holds(pipe'[e], s)
      /\ Left' = Left /\ Left = {}
      /\ \A i \in Node : ~itsDone[i] /\ direction[i]
      /\ Ready'
  BY <1>1, CallerSends
<1>4. /\ n = NextTurn /\ Len(readBy) = offset
      /\ \A i \in Node \ {n} : Waiting(i)
  BY <1>1, PrinterHasTurn
<1>5. signal[n] # "GOOD_BYE"
  BY <1>1, <1>3 DEF GoodByeInv
<1>6. TodoInv'
  <2>1. \A i \in Node : pc'[i] = "send" => i = n
    BY <1>3, <1>4 DEF Waiting
  <2>2. Len(<<x>>) = 1 /\ <<x>>[1] = x
    OBVIOUS
  <2>3. \A k \in 1 .. Len(todo'[n]) : todo'[n][k] = x
    BY <1>3, <2>2
  <2>4. \A k \in 1 .. Len(todo'[n]) :
          todo'[n][k].to = IF todo'[n][k].sig = "GOOD_BYE" THEN PrevOf(n)
                                                         ELSE NextOf(n)
    BY <1>2, <2>3
  <2>5. signal'[n] # "GOOD_BYE" /\ direction'[n]
    BY <1>1, <1>3, <1>5
  <2> QED BY <2>1, <2>4, <2>5 DEF TodoInv
<1>7. EndsInv'
  <2>1. \A i \in Node : pc[i] # "unborn"
    BY <1>1, PrinterHasTurn DEF EndsInv, Ready, Starting
  <2>2. \A e \in Edge : e[1] \in Node /\ e[2] \in Node
    BY DEF Edge
  <2>3. \A i \in Node : i \notin Left /\ ~Ended(i)
    BY <1>3 DEF Left, Ended
  <2>4. \A e \in Edge : e[2] \in rd[e] /\ e[1] \in wr[e]
    BY <2>1, <2>2, <2>3 DEF EndsInv
  <2>5. pc'[0] # "fork" /\ \A i \in Node : pc'[i] # "unborn"
    BY <1>3, <2>1 DEF Ready, Starting
  <2> QED BY <1>1, <2>4, <2>5 DEF EndsInv
<1>8. PhaseInv' /\ OrderInv'
  <2>1. /\ OrderInv' /\ NextTurn' = NextOf(n)
        /\ Len(readBy') = offset'
    BY <1>1, <1>4, CallInOrder
  <2>2. Leaving(NextTurn)'
    <3>1. PrevOf(NextTurn') = n
      BY <2>1, Zenon
    <3>2. Quiet({n})'
      BY <1>1, <1>3, <1>4 DEF Quiet, Waiting
    <3>3. todo'[n] = <<ToNext(n, "YOUR_TURN")>>
      BY <1>3 DEF x
    <3> QED BY <1>3, <3>1, <3>2, <3>3 DEF Leaving
  <2> QED BY <2>1, <2>2 DEF PhaseInv, Turning
<1>9. PipeInv' /\ LeftInv'
  BY <1>3 DEF PipeInv, LeftInv
<1>10. GoodByeInv'
  <2>1. \A i \in Node : pc'[i] \notin {"close", "exited"} /\ signal[i] # "GOOD_BYE"
    BY <1>1, <1>3, <1>4, <1>5 DEF GoodByeInv, Waiting
  <2> QED BY <1>1, <1>2, <1>3, <2>1 DEF GoodByeInv
<1>11. DirectionInv' /\ RoundInv'
  BY <1>1, <1>2, <1>3 DEF DirectionInv, RoundInv
<1>12. FinishedJobInv'
  BY <1>2, <1>3 DEF FinishedJobInv
<1> QED BY <1>6, <1>7, <1>8, <1>9, <1>10, <1>11, <1>12

(* printOneLine at EOF preserves it: the turn is gone for good.            *)
LEMMA MeetEOFInv ==
  ASSUME RingInv, TypeOK', NEW n \in Node, MeetEOF(n)
  PROVE  RingInv'
<1> USE NodeFacts, EdgeFacts DEF RingInv
<1> DEFINE x == ToNext(n, FinishedFrom(n))
<1>1. /\ pc[n] = "print" /\ offset = lines
      /\ todo' = [todo EXCEPT ![n] = <<x>>] /\ pc' = [pc EXCEPT ![n] = "send"]
      /\ readBy' = Append(readBy, n)
      /\ itsDone' = [itsDone EXCEPT ![n] = TRUE]
      /\ UNCHANGED <<lines, offset, pipe, rd, wr, signal, direction>>
  BY DEF MeetEOF
<1>2. /\ x.to = NextOf(n)
      /\ x.sig = IF n = Last THEN "FINISHED_JOB_AFTER_LAST" ELSE "FINISHED_JOB"
  <2>1. FinishedFrom(n) \in SignalType
    BY FinishedFacts
  <2>2. x.to = NextOf(n) /\ x.sig = FinishedFrom(n)
    BY <2>1, MessageFacts, Zenon
  <2> QED BY <2>2, FinishedFacts
<1> HIDE DEF x
<1>3. /\ pc'[n] = "send" /\ \A i \in Node \ {n} : pc'[i] = pc[i]
      /\ todo'[n] = <<x>>
      /\ \A e \in Edge : pipe'[e] = <<>>
      /\ \A i \in Node : \A s : Forward(i, s)' <=> i = n /\ s = x.sig
      /\ \A i \in Node : \A s : Pending(i, s)' <=> i = n /\ s = x.sig
      /\ \A e \in Edge : \A s : ~Holds(pipe'[e], s)
      /\ Left' = Left /\ Left = {}
      /\ \A i \in Node : ~itsDone[i] /\ direction[i]
      /\ Ready'
  BY <1>1, CallerSends
<1>4. /\ n = NextTurn /\ Len(readBy) = offset
      /\ \A i \in Node \ {n} : Waiting(i)
  BY <1>1, PrinterHasTurn
<1>5. signal[n] # "GOOD_BYE"
  BY <1>1, <1>3 DEF GoodByeInv
<1>6. TodoInv'
  <2>1. \A i \in Node : pc'[i] = "send" => i = n
    BY <1>3, <1>4 DEF Waiting
  <2>2. Len(<<x>>) = 1 /\ <<x>>[1] = x
    OBVIOUS
  <2>3. \A k \in 1 .. Len(todo'[n]) : todo'[n][k] = x
    BY <1>3, <2>2
  <2>4. \A k \in 1 .. Len(todo'[n]) :
          todo'[n][k].to = IF todo'[n][k].sig = "GOOD_BYE" THEN PrevOf(n)
                                                         ELSE NextOf(n)
    BY <1>2, <2>3
  <2>5. signal'[n] # "GOOD_BYE" /\ direction'[n]
    BY <1>1, <1>3, <1>5
  <2> QED BY <2>1, <2>4, <2>5 DEF TodoInv
<1>7. EndsInv'
  <2>1. \A i \in Node : pc[i] # "unborn"
    BY <1>1, PrinterHasTurn DEF EndsInv, Ready, Starting
  <2>2. \A e \in Edge : e[1] \in Node /\ e[2] \in Node
    BY DEF Edge
  <2>3. \A i \in Node : i \notin Left /\ ~Ended(i)
    BY <1>3 DEF Left, Ended
  <2>4. \A e \in Edge : e[2] \in rd[e] /\ e[1] \in wr[e]
    BY <2>1, <2>2, <2>3 DEF EndsInv
  <2>5. pc'[0] # "fork" /\ \A i \in Node : pc'[i] # "unborn"
    BY <1>3, <2>1 DEF Ready, Starting
  <2> QED BY <1>1, <2>4, <2>5 DEF EndsInv
<1>8. PhaseInv' /\ OrderInv'
  <2>1. OrderInv' /\ Len(readBy') = lines' + 1
    BY <1>1, <1>4, CallInOrder
  <2>2. \A i \in Node : pc'[i] # "print"
    BY <1>3, <1>4 DEF Waiting
  <2> QED BY <1>1, <1>2, <1>3, <2>1, <2>2 DEF PhaseInv, Finishing
<1>9. PipeInv' /\ LeftInv'
  BY <1>3 DEF PipeInv, LeftInv
<1>10. GoodByeInv'
  <2>1. \A i \in Node : pc'[i] \notin {"close", "exited"} /\ signal[i] # "GOOD_BYE"
    BY <1>1, <1>3, <1>4, <1>5 DEF GoodByeInv, Waiting
  <2> QED BY <1>1, <1>2, <1>3, <2>1 DEF GoodByeInv
<1>11. FinishedJobInv'
  <2>1. \A d \in Node : itsDone'[d] => d = n
    BY <1>1, <1>3 DEF TypeOK
  <2> QED BY <1>2, <1>3, <2>1 DEF FinishedJobInv
<1>12. DirectionInv' /\ RoundInv'
  BY <1>1, <1>2, <1>3 DEF DirectionInv, RoundInv
<1> QED BY <1>6, <1>7, <1>8, <1>9, <1>10, <1>11, <1>12

(* sendSignal moves one signal from a list of calls into a pipe.           *)
LEMMA DeliverFacts ==
  ASSUME RingInv, NEW n \in Node, Deliver(n), NEW m, m = Head(todo[n])
  PROVE  /\ pc[n] = "send" /\ Pending(n, m.sig) /\ m.sig \in SignalType
         /\ \A i \in Node \ {n} : pc'[i] = pc[i] /\ todo'[i] = todo[i]
         /\ pc'[n] = IF m.sig = "GOOD_BYE" THEN "close"
                     ELSE IF Tail(todo[n]) # <<>> THEN "send" ELSE "recv"
         /\ todo'[n] = Tail(todo[n])
         /\ m.to = IF m.sig = "GOOD_BYE" THEN PrevOf(n) ELSE NextOf(n)
         /\ \A e \in Edge : IF e = <<n, m.to>>
                              THEN pipe'[e] = Append(pipe[e], m.sig)
                              ELSE pipe'[e] = pipe[e]
         /\ UNCHANGED <<lines, offset, readBy, rd, wr, signal, itsDone,
                        direction>>
<1> USE NodeFacts, EdgeFacts DEF RingInv
<1>1. /\ pc \in [Node -> PC] /\ todo \in [Node -> Seq(Message)]
      /\ pipe \in [Edge -> Seq(SignalType)] /\ todo[n] # <<>>
      /\ pc[n] = "send"
  BY DEF TypeOK, Deliver
<1>2. /\ pipe' = [pipe EXCEPT ![<<n, m.to>>] = Append(@, m.sig)]
      /\ todo' = [todo EXCEPT ![n] = Tail(@)]
      /\ pc' = [pc EXCEPT ![n] = IF m.sig = "GOOD_BYE" THEN "close"
                   ELSE IF Tail(todo[n]) # <<>> THEN "send" ELSE "recv"]
      /\ UNCHANGED <<lines, offset, readBy, rd, wr, signal, itsDone, direction>>
  BY DEF Deliver
<1>3. /\ todo[n] \in Seq(Message) /\ m \in Message /\ m = todo[n][1]
      /\ 1 \in 1 .. Len(todo[n])
  BY <1>1, QueueFacts
<1>4. Pending(n, m.sig) /\ m.sig \in SignalType
  BY <1>1, <1>3, SendsFacts DEF Pending, Message
<1>5. m.to = IF m.sig = "GOOD_BYE" THEN PrevOf(n) ELSE NextOf(n)
  BY <1>1, <1>3 DEF TodoInv
<1>6. \A e \in Edge : IF e = <<n, m.to>> THEN pipe'[e] = Append(pipe[e], m.sig)
                                        ELSE pipe'[e] = pipe[e]
  BY <1>1, <1>2
<1> QED BY <1>1, <1>2, <1>4, <1>5, <1>6

(* sendSignal preserves it: the signal moves from todo to the pipe.        *)
LEMMA DeliverInv ==
  ASSUME RingInv, TypeOK', NEW n \in Node, Deliver(n)
  PROVE  RingInv'
<1> USE NodeFacts, EdgeFacts DEF RingInv
<1> DEFINE m0 == Head(todo[n])
<1>0. PICK m : m = m0
  OBVIOUS
<1> HIDE DEF m0
<1>1. /\ pc[n] = "send" /\ Pending(n, m.sig) /\ m.sig \in SignalType
      /\ \A i \in Node \ {n} : pc'[i] = pc[i] /\ todo'[i] = todo[i]
      /\ pc'[n] = IF m.sig = "GOOD_BYE" THEN "close"
                  ELSE IF Tail(todo[n]) # <<>> THEN "send" ELSE "recv"
      /\ todo'[n] = Tail(todo[n])
      /\ m.to = IF m.sig = "GOOD_BYE" THEN PrevOf(n) ELSE NextOf(n)
      /\ \A e \in Edge : IF e = <<n, m.to>>
                           THEN pipe'[e] = Append(pipe[e], m.sig)
                           ELSE pipe'[e] = pipe[e]
      /\ UNCHANGED <<lines, offset, readBy, rd, wr, signal, itsDone, direction>>
  <2>1. m = Head(todo[n])
    BY <1>0 DEF m0
  <2> HIDE DEF RingInv
  <2> QED BY ONLY RingInv, n \in Node, Deliver(n), <2>1, DeliverFacts, SMT
<1>2. /\ todo[n] \in Seq(Message) /\ todo[n] # <<>> /\ Head(todo[n]) = m
      /\ \A e \in Edge : pipe[e] \in Seq(SignalType)
  BY <1>0, <1>1 DEF m0, TypeOK
<1>3. \A e \in Edge : \A s \in SignalType :
        /\ Holds(pipe[e], s) => Holds(pipe'[e], s)
        /\ Holds(pipe'[e], s) => Holds(pipe[e], s) \/ (e = <<n, m.to>> /\ s = m.sig)
  <2> SUFFICES ASSUME NEW e \in Edge, NEW s \in SignalType
               PROVE  Holds(pipe'[e], s) <=>
                        Holds(pipe[e], s) \/ (e = <<n, m.to>> /\ s = m.sig)
    OBVIOUS
  <2>1. CASE e = <<n, m.to>>
    <3>1. Holds(Append(pipe[e], m.sig), s) <=> Holds(pipe[e], s) \/ m.sig = s
      BY <1>1, <1>2, HoldsFacts
    <3> QED BY <1>1, <2>1, <3>1
  <2>2. CASE e # <<n, m.to>>
    BY <1>1, <2>2
  <2> QED BY <2>1, <2>2
<1>4. \A i \in Node : \A s : Pending(i, s)' => Pending(i, s)
  <2>1. \A s : Sends(Tail(todo[n]), s) => Sends(todo[n], s)
    BY <1>2, SendsFacts
  <2> QED BY <1>1, <2>1 DEF Pending
<1>5. \A i \in Node : \A s \in SignalType : Forward(i, s)' => Forward(i, s)
  <2> SUFFICES ASSUME NEW i \in Node, NEW s \in SignalType, Forward(i, s)'
               PROVE  Forward(i, s)
    OBVIOUS
  <2>1. CASE Pending(i, s)'
    BY <1>4, <2>1 DEF Forward
  <2>2. CASE Holds(pipe'[<<i, NextOf(i)>>], s)
    <3>1. CASE Holds(pipe[<<i, NextOf(i)>>], s)
      BY <3>1 DEF Forward
    <3>2. CASE <<i, NextOf(i)>> = <<n, m.to>> /\ s = m.sig
      BY <1>1, <3>2 DEF Forward
    <3> QED BY <1>3, <2>2, <3>1, <3>2
  <2> QED BY <2>1, <2>2 DEF Forward
<1>6. Left' = IF m.sig = "GOOD_BYE" THEN Left \cup {n} ELSE Left
  <2>1. n \notin Left
    BY <1>1 DEF Left
  <2>2. \A i \in Node : i \in Left' <=> i \in Left \/ (i = n /\ m.sig = "GOOD_BYE")
    BY <1>1, <2>1 DEF Left
  <2> QED BY <2>2 DEF Left
<1>7. PipeInv'
  <2>1. ASSUME NEW i \in Node, Holds(pipe'[<<i, NextOf(i)>>], "GOOD_BYE")
        PROVE  FALSE
    <3>1. <<i, NextOf(i)>> = <<n, m.to>> /\ m.sig = "GOOD_BYE"
      BY <1>3, <2>1 DEF PipeInv, SignalType
    <3> QED BY <1>1, <3>1
  <2>2. ASSUME NEW i \in Node, NEW s \in SignalType \ {"GOOD_BYE"},
               Holds(pipe'[<<i, PrevOf(i)>>], s)
        PROVE  FALSE
    <3>1. <<i, PrevOf(i)>> = <<n, m.to>> /\ m.sig # "GOOD_BYE"
      BY <1>3, <2>2 DEF PipeInv
    <3> QED BY <1>1, <3>1
  <2> QED BY <2>1, <2>2 DEF PipeInv
<1>8. TodoInv'
  <2>1. ASSUME pc'[n] = "send"
        PROVE  /\ \A k \in 1 .. Len(todo'[n]) :
                    todo'[n][k].to = IF todo'[n][k].sig = "GOOD_BYE"
                                       THEN PrevOf(n) ELSE NextOf(n)
               /\ todo'[n][Len(todo'[n])] = todo[n][Len(todo[n])]
    <3>1. Tail(todo[n]) # <<>>
      BY <1>1, <2>1
    <3>2. todo'[n][Len(todo'[n])] = todo[n][Len(todo[n])]
      BY <1>1, <1>2, <3>1, SendsFacts
    <3>3. /\ Len(todo[n]) \in Nat /\ Len(Tail(todo[n])) = Len(todo[n]) - 1
          /\ \A k \in 1 .. Len(todo[n]) - 1 : Tail(todo[n])[k] = todo[n][k + 1]
      BY <1>2, QueueFacts
    <3>4. \A k \in 1 .. Len(Tail(todo[n])) :
            k + 1 \in 1 .. Len(todo[n]) /\ Tail(todo[n])[k] = todo[n][k + 1]
      BY <3>3
    <3>5. \A k \in 1 .. Len(todo[n]) :
            todo[n][k].to = IF todo[n][k].sig = "GOOD_BYE" THEN PrevOf(n)
                                                           ELSE NextOf(n)
      BY <1>1 DEF TodoInv
    <3>6. \A k \in 1 .. Len(Tail(todo[n])) :
            Tail(todo[n])[k].to = IF Tail(todo[n])[k].sig = "GOOD_BYE"
                                    THEN PrevOf(n) ELSE NextOf(n)
      <4> SUFFICES ASSUME NEW k \in 1 .. Len(Tail(todo[n]))
                   PROVE  Tail(todo[n])[k].to =
                            IF Tail(todo[n])[k].sig = "GOOD_BYE"
                              THEN PrevOf(n) ELSE NextOf(n)
        OBVIOUS
      <4>1. k + 1 \in 1 .. Len(todo[n]) /\ Tail(todo[n])[k] = todo[n][k + 1]
        BY <3>4
      <4>2. todo[n][k + 1].to = IF todo[n][k + 1].sig = "GOOD_BYE"
                                  THEN PrevOf(n) ELSE NextOf(n)
        BY <3>5, <4>1
      <4> QED BY <4>1, <4>2, Zenon
    <3> QED BY <1>1, <3>2, <3>6
  <2> SUFFICES ASSUME NEW i \in Node, pc'[i] = "send"
               PROVE  /\ \A k \in 1 .. Len(todo'[i]) :
                           todo'[i][k].to = IF todo'[i][k].sig = "GOOD_BYE"
                                              THEN PrevOf(i) ELSE NextOf(i)
                      /\ signal'[i] = "GOOD_BYE" \/ (i = Last /\ ~direction'[i])
                           => todo'[i][Len(todo'[i])].sig = "GOOD_BYE"
    BY DEF TodoInv
  <2>2. CASE i = n
    BY <1>1, <2>1, <2>2 DEF TodoInv
  <2>3. CASE i # n
    <3>1. pc[i] = "send" /\ todo'[i] = todo[i]
      BY <1>1, <2>3
    <3> QED BY <1>1, <3>1 DEF TodoInv
  <2> QED BY <2>2, <2>3
<1>9. pc'[n] = "recv" => signal[n] # "GOOD_BYE" /\ (n = Last => direction[n])
  <2> SUFFICES ASSUME pc'[n] = "recv"
               PROVE  todo[n][Len(todo[n])].sig # "GOOD_BYE"
    BY <1>1 DEF TodoInv
  <2>1. Tail(todo[n]) = <<>> /\ m.sig # "GOOD_BYE"
    BY <1>1
  <2>2. todo[n][Len(todo[n])] = m
    BY <1>2, <2>1, SendsFacts
  <2> QED BY <2>1, <2>2
<1>10. EndsInv'
  <2>1. \A i \in Node : pc'[i] = "unborn" <=> pc[i] = "unborn"
    BY <1>1
  <2>2. \A i \in Node : Ended(i) => Ended(i)'
    BY <1>1 DEF Ended
  <2>3. \A e \in Edge : e[1] \in Node /\ e[2] \in Node
    BY DEF Edge
  <2>4. pc'[0] = "fork" <=> pc[0] = "fork"
    BY <1>1
  <2> QED BY <1>1, <2>1, <2>2, <2>3, <2>4 DEF EndsInv
<1>11. LeftInv' /\ GoodByeInv' /\ RoundInv'
  <2>1. m.sig = "GOOD_BYE" => \A i \in Node : i > n => i \in Left
    BY <1>1 DEF GoodByeInv
  <2>2. LeftInv'
    BY <1>6, <2>1 DEF LeftInv
  <2>3. \A i \in Node : Pending(i, "GOOD_BYE")' =>
          \A j \in Node : j > i => j \in Left'
    BY <1>4, <1>6 DEF GoodByeInv
  <2>4. \A i \in Node : Holds(pipe'[<<i, PrevOf(i)>>], "GOOD_BYE") => i \in Left'
    BY <1>1, <1>3, <1>6 DEF GoodByeInv, SignalType
  <2>5. \A i \in Node : pc'[i] \in {"close", "exited"} =>
          \/ Holds(pipe'[<<i, PrevOf(i)>>], "GOOD_BYE")
          \/ signal'[PrevOf(i)] = "GOOD_BYE"
          \/ i = 0
    <3>1. m.sig = "GOOD_BYE" => Holds(pipe'[<<n, PrevOf(n)>>], "GOOD_BYE")
      <4>1. m.sig = "GOOD_BYE" => pipe'[<<n, PrevOf(n)>>] =
                                  Append(pipe[<<n, PrevOf(n)>>], "GOOD_BYE")
        BY <1>1
      <4>2. Holds(Append(pipe[<<n, PrevOf(n)>>], "GOOD_BYE"), "GOOD_BYE")
        <5>1. \A s, x \in SignalType : Holds(Append(pipe[<<n, PrevOf(n)>>], x), s)
                  <=> Holds(pipe[<<n, PrevOf(n)>>], s) \/ x = s
          <6>1. pipe[<<n, PrevOf(n)>>] \in Seq(SignalType)
            BY <1>2
          <6> QED BY <6>1, HoldsFacts
        <5> QED BY <5>1 DEF SignalType
      <4> QED BY <4>1, <4>2
    <3> QED BY <1>1, <1>3, <3>1 DEF GoodByeInv, SignalType
  <2>6. \A i \in Node : signal'[i] = "GOOD_BYE" => pc'[i] = "send" \/ i \in Left'
    BY <1>1, <1>6, <1>9 DEF GoodByeInv
  <2>7. GoodByeInv'
    BY <2>3, <2>4, <2>5, <2>6 DEF GoodByeInv
  <2>8. direction[0] => m.sig # "GOOD_BYE"
    BY <1>1 DEF RoundInv
  <2>9. RoundInv'
    BY <1>1, <1>4, <1>5, <1>6, <2>8 DEF RoundInv, SignalType
  <2> QED BY <2>2, <2>7, <2>9
<1>12. DirectionInv'
  BY <1>1, <1>6, <1>9 DEF DirectionInv
<1>13. FinishedJobInv'
  BY <1>1, <1>5 DEF FinishedJobInv, SignalType
<1>14. PhaseInv'
  <2>1. CASE Finishing
    <3>1. Ready' /\ \A i \in Node : pc'[i] # "print"
      <4>1. pc'[n] \in {"close", "send", "recv"}
        BY <1>1
      <4>2. pc[0] \notin Starting /\ \A i \in Node : pc[i] # "print"
        BY <2>1 DEF Finishing, Ready
      <4>3. \A i \in Node : pc'[i] = pc[i] \/ pc'[i] \in {"close", "send", "recv"}
        BY <1>1, <4>1
      <4> QED BY <4>2, <4>3 DEF Ready, Starting
    <3> QED BY <1>1, <1>5, <2>1, <3>1 DEF PhaseInv, Finishing, SignalType
  <2>2. CASE Turning
    <3>1. NextTurn \in Node
      BY NextTurnType
    <3>2. n = PrevOf(NextTurn) /\ Leaving(NextTurn)
      BY <1>1, <2>2, <3>1 DEF Turning, AtNode, Leaving, InPipe, Quiet, Waiting
    <3>3. todo[n] = <<ToNext(n, "YOUR_TURN")>> /\ Ready
      BY <3>2 DEF Leaving
    <3>4. m = ToNext(n, "YOUR_TURN") /\ Tail(todo[n]) = <<>>
      BY <1>2, <3>3
    <3>5. m.sig = "YOUR_TURN" /\ m.to = NextTurn
      BY <3>1, <3>2, <3>4, MessageFacts DEF SignalType
    <3>6. pc'[n] = "recv"
      BY <1>1, <3>4, <3>5
    <3>7. /\ pipe'[<<n, NextTurn>>] = Append(<<>>, "YOUR_TURN")
          /\ \A e \in Edge : e # <<n, NextTurn>> => pipe'[e] = <<>>
      BY <1>1, <3>1, <3>2, <3>5 DEF Leaving
    <3>8. Quiet({})' /\ Ready'
      <4>1. pc[0] \notin Starting /\ Quiet({n})
        BY <3>2 DEF Leaving, Ready
      <4>2. Ready'
        BY <1>1, <3>6, <4>1 DEF Ready, Starting
      <4> QED BY <1>1, <3>6, <4>1, <4>2 DEF Quiet, Waiting
    <3>9. pipe'[<<n, NextTurn>>] = <<"YOUR_TURN">>
      BY <3>7
    <3>10. NextTurn' = NextTurn
      BY <1>1 DEF NextTurn
    <3>11. InPipe(NextTurn)'
      BY <3>2, <3>7, <3>8, <3>9, <3>10 DEF InPipe
    <3> QED BY <1>1, <2>2, <3>10, <3>11 DEF PhaseInv, Turning
  <2> QED BY <2>1, <2>2 DEF PhaseInv
<1>15. OrderInv'
  BY <1>1 DEF OrderInv
<1> QED
  BY <1>7, <1>8, <1>10, <1>11, <1>12, <1>13, <1>14, <1>15

(* Whoever dies of a broken pipe is the next to leave.                     *)
LEMMA BrokenPipeLeave ==
  ASSUME RingInv, NEW n \in Node, BrokenPipe(n)
  PROVE  /\ Finishing /\ ~direction[0]
         /\ \A i \in Node : i > n => i \in Left
         /\ Left' = Left \cup {n} /\ n \notin Left
         /\ UNCHANGED <<lines, readBy>>
<1> USE NodeFacts, EdgeFacts DEF RingInv
<1>1. /\ pc \in [Node -> PC] /\ pc[n] = "send"
      /\ pc' = [pc EXCEPT ![n] = "killed"] /\ UNCHANGED <<lines, readBy>>
  BY DEF BrokenPipe, TypeOK
<1>2. pc'[n] = "killed" /\ \A i \in Node \ {n} : pc'[i] = pc[i]
  BY <1>1
<1>4. Left' = Left \cup {n} /\ n \notin Left
  <2>1. n \notin Left /\ \A i \in Node : i \in Left' <=> i \in Left \/ i = n
    BY <1>1, <1>2 DEF Left
  <2> QED BY <2>1 DEF Left
(* The reader of the pipe is gone.                                         *)
<1>5. PICK m \in Message : /\ m = Head(todo[n]) /\ rd[<<n, m.to>>] = {}
                           /\ Pending(n, m.sig)
                           /\ m.to = IF m.sig = "GOOD_BYE" THEN PrevOf(n)
                                                           ELSE NextOf(n)
  <2>1. todo[n] \in Seq(Message) /\ todo[n] # <<>>
    BY <1>1 DEF TypeOK
  <2>2. /\ Head(todo[n]) \in Message /\ Head(todo[n]) = todo[n][1]
        /\ 1 \in 1 .. Len(todo[n])
    BY <2>1, QueueFacts
  <2>3. Pending(n, Head(todo[n]).sig)
    BY <1>1, <2>1, SendsFacts DEF Pending
  <2>4. Head(todo[n]).to = IF Head(todo[n]).sig = "GOOD_BYE" THEN PrevOf(n)
                                                             ELSE NextOf(n)
    BY <1>1, <2>2 DEF TodoInv
  <2>5. rd[<<n, Head(todo[n]).to>>] = {}
    BY DEF BrokenPipe
  <2> QED BY <2>2, <2>3, <2>4, <2>5
<1>6. m.sig # "GOOD_BYE" => NextOf(n) \in Left
  <2> SUFFICES ASSUME m.sig # "GOOD_BYE" PROVE NextOf(n) \in Left
    OBVIOUS
  <2>1. rd[<<n, NextOf(n)>>] = {} /\ <<n, NextOf(n)>> \in Edge
    BY <1>5
  <2>2. pc[NextOf(n)] = "unborn" \/ Ended(NextOf(n))
    <3>1. \A e \in Edge : e[2] \in rd[e] \/ pc[e[2]] = "unborn" \/ Ended(e[2])
      BY DEF EndsInv
    <3>2. <<n, NextOf(n)>>[2] = NextOf(n)
      OBVIOUS
    <3> QED BY <2>1, <3>1, <3>2
  <2>3. pc[NextOf(n)] # "unborn"
    BY <2>1 DEF EndsInv
  <2> QED BY <2>2, <2>3 DEF Ended, Left
<1>7. \A i \in Node : i > n => i \in Left
  <2>1. CASE m.sig = "GOOD_BYE"
    BY <1>5, <2>1 DEF GoodByeInv
  <2>2. CASE m.sig # "GOOD_BYE" /\ n # Last
    <3>1. NextOf(n) = n + 1 /\ n + 1 \in Left /\ n + 1 \in Node
      BY <1>6, <2>2
    <3>2. \A i \in Node : i > n => i = n + 1 \/ i > n + 1
      OBVIOUS
    <3> QED BY <3>1, <3>2 DEF LeftInv
  <2>3. CASE n = Last
    BY <2>3, NodeAssumption DEF Node, Last
  <2> QED BY <2>1, <2>2, <2>3
<1>8. ~direction[0]
  BY <1>5, <1>6 DEF RoundInv
<1>9. Finishing
  BY <1>8, NextTurnType DEF PhaseInv, Turning, AtNode, Leaving, InPipe, Quiet
<1> QED BY <1>1, <1>4, <1>7, <1>8, <1>9

(* SIGPIPE preserves it: the killed node counts as having left.            *)
LEMMA BrokenPipeInv ==
  ASSUME RingInv, TypeOK', NEW n \in Node, BrokenPipe(n)
  PROVE  RingInv'
<1> USE NodeFacts, EdgeFacts DEF RingInv
<1>1. /\ pc \in [Node -> PC] /\ pc[n] = "send"
      /\ pc' = [pc EXCEPT ![n] = "killed"]
      /\ rd' = [e \in Edge |-> rd[e] \ {n}]
      /\ wr' = [e \in Edge |-> wr[e] \ {n}]
      /\ UNCHANGED <<lines, offset, readBy, pipe, signal, itsDone, direction,
                     todo>>
  BY DEF BrokenPipe, TypeOK
<1>2. pc'[n] = "killed" /\ \A i \in Node \ {n} : pc'[i] = pc[i]
  BY <1>1
<1>3. \A i \in Node : \A s : /\ Pending(i, s)' => Pending(i, s)
                             /\ Forward(i, s)' => Forward(i, s)
  BY <1>1, <1>2 DEF Pending, Forward
<1>4. /\ Left' = Left \cup {n} /\ n \notin Left /\ ~direction[0] /\ Finishing
      /\ \A i \in Node : i > n => i \in Left
  BY BrokenPipeLeave
<1>10. PhaseInv'
  <2>1. pc[0] \notin Starting /\ \A i \in Node : pc[i] # "print"
    BY <1>4 DEF Finishing, Ready
  <2>2. Ready' /\ \A i \in Node : pc'[i] # "print"
    BY <1>2, <2>1 DEF Ready, Starting
  <2> QED BY <1>1, <1>3, <1>4, <2>2 DEF PhaseInv, Finishing
<1>11. TodoInv'
  BY <1>1, <1>2 DEF TodoInv
<1>12. EndsInv'
  <2>1. \A e \in Edge : e[1] \in Node /\ e[2] \in Node
    BY DEF Edge
  <2>2. \A i \in Node : pc'[i] = "unborn" => pc[i] = "unborn"
    BY <1>2
  <2>3. pc[0] # "fork" /\ \A i \in Node : pc[i] # "unborn"
    BY <1>4 DEF Finishing, Ready, Starting, EndsInv
  <2>4. \A i \in Node : Ended(i)' <=> Ended(i) \/ i = n
    BY <1>2 DEF Ended
  <2>5. pc'[0] # "fork"
    BY <1>2, <2>3
  <2> QED BY <1>1, <2>1, <2>2, <2>3, <2>4, <2>5 DEF EndsInv
<1>13. GoodByeInv'
  BY <1>1, <1>2, <1>3, <1>4 DEF GoodByeInv
<1>14. DirectionInv'
  BY <1>1, <1>2, <1>4 DEF DirectionInv
<1>15. LeftInv'
  BY <1>4 DEF LeftInv
<1>16. PipeInv' /\ OrderInv' /\ RoundInv' /\ FinishedJobInv'
  BY <1>1, <1>3, <1>4 DEF PipeInv, OrderInv, RoundInv, FinishedJobInv
<1> QED
  BY <1>10, <1>11, <1>12, <1>13, <1>14, <1>15, <1>16

(* A list of one and a list of two calls.                                  *)
LEMMA OneCall ==
  ASSUME NEW q, NEW x, q = <<x>>
  PROVE  /\ q # <<>> /\ q[Len(q)] = x /\ \A k \in 1 .. Len(q) : q[k] = x
         /\ \A t : Sends(q, t) => t = x.sig
<1>1. \A k \in 1 .. Len(q) : q[k] = x
  OBVIOUS
<1>2. q # <<>> /\ q[Len(q)] = x
  OBVIOUS
<1> QED BY <1>1, <1>2 DEF Sends

(* What a list of two sendSignal calls sends.                              *)
LEMMA TwoCalls ==
  ASSUME NEW q, NEW x, NEW y, q = <<x, y>>
  PROVE  /\ q # <<>> /\ q[Len(q)] = y
         /\ \A k \in 1 .. Len(q) : q[k] = x \/ q[k] = y
         /\ \A t : Sends(q, t) => t = x.sig \/ t = y.sig
<1>1. \A k \in 1 .. Len(q) : q[k] = x \/ q[k] = y
  OBVIOUS
<1>2. q # <<>> /\ q[Len(q)] = y
  OBVIOUS
<1> QED BY <1>1, <1>2 DEF Sends

(* What the handlers send, as a set of signals.                            *)
LEMMA ReplyFacts ==
  ASSUME NEW n \in Node, NEW s \in SignalType \ {"YOUR_TURN"}
  PROVE  /\ Reply(n, s) # <<>>
         /\ \A k \in 1 .. Len(Reply(n, s)) :
              Reply(n, s)[k].to = IF Reply(n, s)[k].sig = "GOOD_BYE"
                                    THEN PrevOf(n) ELSE NextOf(n)
         /\ s = "GOOD_BYE"
              \/ (n = Last /\ s \in {"FINISHED_JOB_AFTER_LAST", "SHOUD_EXIT"})
            => Reply(n, s)[Len(Reply(n, s))].sig = "GOOD_BYE"
         /\ \A t : Sends(Reply(n, s), t) =>
              \/ t = "FINISHED_JOB" /\ s = t /\ n # Last
              \/ t = "FINISHED_JOB_AFTER_LAST" /\ (s = t \/ n = Last)
              \/ t = "SHOUD_EXIT" /\ s # "GOOD_BYE"
                   /\ (s = "FINISHED_JOB" => itsDone[n])
              \/ t = "GOOD_BYE"
                   /\ (s = t \/ (n = Last /\ s # "FINISHED_JOB"))
<1> USE NodeFacts
<1>1. \A u \in SignalType :
        /\ ToNext(n, u).to = NextOf(n) /\ ToNext(n, u).sig = u
        /\ ToPrev(n, u).to = PrevOf(n) /\ ToPrev(n, u).sig = u
  BY MessageFacts
<1>2. /\ OnShouldExit(n).sig = IF n = Last THEN "GOOD_BYE" ELSE "SHOUD_EXIT"
      /\ OnShouldExit(n).to = IF n = Last THEN PrevOf(n) ELSE NextOf(n)
  BY <1>1 DEF OnShouldExit, SignalType
<1> DEFINE q == Reply(n, s)
<1>3. CASE s = "FINISHED_JOB"
  <2> DEFINE u == IF itsDone[n] THEN "SHOUD_EXIT" ELSE FinishedFrom(n)
             x == ToNext(n, u)
  <2>1. q = <<x>>
    BY <1>3, ReplyCases
  <2>2. u = IF itsDone[n] THEN "SHOUD_EXIT" ELSE
            IF n = Last THEN "FINISHED_JOB_AFTER_LAST" ELSE "FINISHED_JOB"
    BY FinishedFacts
  <2> HIDE DEF q, u
  <2>3. u \in SignalType
    BY <2>2 DEF SignalType
  <2>4. x.to = NextOf(n) /\ x.sig = u
    BY <1>1, <2>3
  <2> HIDE DEF x
  <2>5. /\ q # <<>> /\ q[Len(q)] = x /\ \A k \in 1 .. Len(q) : q[k] = x
        /\ \A t : Sends(q, t) => t = x.sig
    BY <2>1, OneCall
  <2> QED BY <1>3, <2>2, <2>4, <2>5 DEF q
<1>4. CASE s = "FINISHED_JOB_AFTER_LAST"
  <2> DEFINE x == ToNext(n, IF itsDone[n] THEN "SHOUD_EXIT"
                                          ELSE "FINISHED_JOB_AFTER_LAST")
             y == OnShouldExit(n)
  <2>1. q = <<x, y>>
    BY <1>4, ReplyCases
  <2>2. /\ x.to = NextOf(n)
        /\ x.sig = IF itsDone[n] THEN "SHOUD_EXIT" ELSE "FINISHED_JOB_AFTER_LAST"
        /\ y.sig = IF n = Last THEN "GOOD_BYE" ELSE "SHOUD_EXIT"
        /\ y.to = IF n = Last THEN PrevOf(n) ELSE NextOf(n)
    BY <1>1, <1>2 DEF SignalType
  <2> HIDE DEF q, x, y
  <2>3. /\ q # <<>> /\ q[Len(q)] = y
        /\ \A k \in 1 .. Len(q) : q[k] = x \/ q[k] = y
        /\ \A t : Sends(q, t) => t = x.sig \/ t = y.sig
    BY <2>1, TwoCalls
  <2>4. \A k \in 1 .. Len(q) : q[k].to = IF q[k].sig = "GOOD_BYE" THEN PrevOf(n)
                                                                 ELSE NextOf(n)
    <3>1. /\ x.to = IF x.sig = "GOOD_BYE" THEN PrevOf(n) ELSE NextOf(n)
          /\ y.to = IF y.sig = "GOOD_BYE" THEN PrevOf(n) ELSE NextOf(n)
      BY <2>2
    <3> QED BY <2>3, <3>1
  <2>5. n = Last => q[Len(q)].sig = "GOOD_BYE"
    BY <2>2, <2>3
  <2>6. \A t : Sends(q, t) =>
          \/ t = "FINISHED_JOB_AFTER_LAST"
          \/ t = "SHOUD_EXIT"
          \/ t = "GOOD_BYE" /\ n = Last
    BY <2>2, <2>3
  <2>7. q # <<>>
    BY <2>3
  <2>8. s # "GOOD_BYE" /\ s # "FINISHED_JOB"
    BY <1>4
  <2>9. \A t : Sends(q, t) =>
          \/ t = "FINISHED_JOB_AFTER_LAST" /\ s = t
          \/ t = "SHOUD_EXIT" /\ s # "GOOD_BYE" /\ s # "FINISHED_JOB"
          \/ t = "GOOD_BYE" /\ n = Last /\ s # "FINISHED_JOB"
    BY <1>4, <2>6
  <2> QED BY <2>4, <2>5, <2>7, <2>8, <2>9, Zenon DEF q
<1>5. CASE s = "SHOUD_EXIT"
  <2> DEFINE y == OnShouldExit(n)
  <2>1. q = <<y>>
    BY <1>5, ReplyCases
  <2> HIDE DEF q
  <2>2. /\ q # <<>> /\ q[Len(q)] = y /\ \A k \in 1 .. Len(q) : q[k] = y
        /\ \A t : Sends(q, t) => t = y.sig
    BY <2>1, OneCall
  <2> QED BY <1>2, <1>5, <2>2 DEF q
<1>6. CASE s = "GOOD_BYE"
  <2> DEFINE y == ToPrev(n, "GOOD_BYE")
  <2>1. q = <<y>>
    BY <1>6, ReplyCases
  <2>2. y.sig = "GOOD_BYE" /\ y.to = PrevOf(n)
    BY <1>1 DEF SignalType
  <2> HIDE DEF q, y
  <2>3. /\ q # <<>> /\ q[Len(q)] = y /\ \A k \in 1 .. Len(q) : q[k] = y
        /\ \A t : Sends(q, t) => t = y.sig
    BY <2>1, OneCall
  <2> QED BY <1>6, <2>2, <2>3 DEF q
<1> QED BY <1>3, <1>4, <1>5, <1>6 DEF SignalType

(* Who receives what from whom.                                            *)
LEMMA ReceiveFacts ==
  ASSUME RingInv, NEW n \in Node, Receive(n)
  PROVE  /\ pc[n] = "recv" /\ Received(n) \in SignalType
         /\ <<Source(n), n>> \in Edge
         /\ direction[n] => /\ Inbox(n) # <<>> /\ Holds(Inbox(n), Received(n))
                            /\ Forward(PrevOf(n), Received(n))
                            /\ Received(n) # "GOOD_BYE"
         /\ ~direction[n] =>
              /\ n # Last /\ NextOf(n) \in Left
              /\ Received(n) \in {"GOOD_BYE", "FINISHED_JOB_AFTER_LAST",
                                  "SHOUD_EXIT"}
              /\ Inbox(n) # <<>> => Received(n) = "GOOD_BYE"
<1> USE NodeFacts, EdgeFacts DEF RingInv
<1> DEFINE e == <<Source(n), n>>
<1>1. Source(n) \in Node /\ e \in Edge /\ pipe[e] \in Seq(SignalType)
  BY DEF TypeOK, Source
<1>2. pc[n] = "recv" /\ (pipe[e] = <<>> => wr[e] = {})
  BY DEF Receive
<1>3. Inbox(n) = pipe[e]
  BY DEF Inbox
<1>4. pipe[e] # <<>> => /\ Received(n) = Head(pipe[e])
                        /\ Received(n) \in SignalType
                        /\ Holds(pipe[e], Received(n))
  BY <1>1, <1>3, HoldsFacts, QueueFacts DEF Received
(* A closed pipe has been closed by a writer that has left.                *)
<1>5. pipe[e] = <<>> => Source(n) \in Left /\ Received(n) = signal[n]
  <2> SUFFICES ASSUME pipe[e] = <<>>
               PROVE  Source(n) \in Left /\ Received(n) = signal[n]
    OBVIOUS
  <2>1. wr[e] = {} /\ e[1] = Source(n)
    BY <1>2
  <2>2. pc[Source(n)] = "unborn" \/ Ended(Source(n))
    BY <1>1, <2>1 DEF EndsInv
  <2>3. pc[Source(n)] # "unborn"
    BY <1>1, <2>1 DEF EndsInv
  <2>4. Source(n) \in Left
    BY <1>1, <2>2, <2>3 DEF Ended, Left
  <2>5. Received(n) = signal[n]
    BY <1>3 DEF Received
  <2> QED BY <2>4, <2>5
<1>6. n \notin Left
  BY <1>2 DEF Left
<1> HIDE DEF e
<1>7. CASE direction[n]
  <2>1. Source(n) = PrevOf(n) /\ e = <<PrevOf(n), n>>
    BY <1>7 DEF Source, e
  <2>2. pipe[e] # <<>>
    <3> SUFFICES ASSUME pipe[e] = <<>> PROVE FALSE
      OBVIOUS
    <3>1. PrevOf(n) \in Left
      BY <1>5, <2>1
    <3>2. CASE n # 0
      BY <1>6, <3>1, <3>2 DEF LeftInv
    <3>3. CASE n = 0
      BY <1>7, <3>1, <3>3 DEF RoundInv
    <3> QED BY <3>2, <3>3
  <2>3. e = <<PrevOf(n), NextOf(PrevOf(n))>>
    BY <2>1
  <2>4. Forward(PrevOf(n), Received(n)) /\ Received(n) # "GOOD_BYE"
    BY <1>4, <2>2, <2>3 DEF Forward, PipeInv
  <2> QED BY <1>1, <1>2, <1>3, <1>4, <1>7, <2>2, <2>4 DEF e
<1>8. CASE ~direction[n]
  <2>1. Source(n) = NextOf(n) /\ e = <<NextOf(n), PrevOf(NextOf(n))>>
    BY <1>8 DEF Source, e
  <2>2. n # Last
    BY <1>2, <1>8 DEF DirectionInv
  <2>3. CASE pipe[e] = <<>>
    <3>1. signal[n] \in {"FINISHED_JOB_AFTER_LAST", "SHOUD_EXIT"}
      BY <1>2, <1>6, <1>8 DEF DirectionInv, GoodByeInv
    <3> QED BY <1>1, <1>2, <1>3, <1>5, <1>8, <2>1, <2>2, <2>3, <3>1 DEF e, SignalType
  <2>4. CASE pipe[e] # <<>>
    <3>1. Received(n) = "GOOD_BYE"
      BY <1>4, <2>1, <2>4 DEF PipeInv
    <3>2. NextOf(n) \in Left
      BY <1>4, <2>1, <2>4, <3>1 DEF GoodByeInv
    <3> QED BY <1>1, <1>2, <1>3, <1>4, <1>8, <2>2, <2>4, <3>1, <3>2 DEF e
  <2> QED BY <2>3, <2>4
<1> QED BY <1>7, <1>8

(* rcvSignal and the switch preserve it.                                   *)
LEMMA ReceiveInv ==
  ASSUME RingInv, TypeOK', NEW n \in Node, Receive(n)
  PROVE  RingInv'
<1> USE NodeFacts, EdgeFacts DEF RingInv
<1> DEFINE e == <<Source(n), n>>
           s == Received(n)
           r == Reply(n, s)
<1>1. /\ pc[n] = "recv" /\ s \in SignalType /\ e \in Edge
      /\ direction[n] => /\ pipe[e] # <<>> /\ Holds(pipe[e], s)
                         /\ Forward(PrevOf(n), s) /\ s # "GOOD_BYE"
      /\ ~direction[n] =>
           /\ n # Last /\ NextOf(n) \in Left
           /\ s \in {"GOOD_BYE", "FINISHED_JOB_AFTER_LAST", "SHOUD_EXIT"}
           /\ pipe[e] # <<>> => s = "GOOD_BYE"
  BY ReceiveFacts DEF Inbox
<1>2. /\ pc \in [Node -> PC] /\ signal \in [Node -> SignalType \cup {NoSignal}]
      /\ direction \in [Node -> BOOLEAN] /\ todo \in [Node -> Seq(Message)]
      /\ pipe \in [Edge -> Seq(SignalType)]
  BY DEF TypeOK
<1>3. /\ pipe' = [pipe EXCEPT ![e] = IF @ = <<>> THEN @ ELSE Tail(@)]
      /\ signal' = [signal EXCEPT ![n] = s]
      /\ direction' = [direction EXCEPT ![n] = @ /\ ~TurnsRound(n, s)]
      /\ todo' = [todo EXCEPT ![n] = r]
      /\ pc' = [pc EXCEPT ![n] = IF s = "YOUR_TURN" THEN "print"
                  ELSE IF r # <<>> THEN "send" ELSE "recv"]
      /\ UNCHANGED <<lines, offset, readBy, rd, wr, itsDone>>
  BY Zenon DEF Receive
<1>4. s # "YOUR_TURN" =>
        /\ r # <<>>
        /\ \A k \in 1 .. Len(r) : r[k].to = IF r[k].sig = "GOOD_BYE"
                                              THEN PrevOf(n) ELSE NextOf(n)
        /\ s = "GOOD_BYE"
             \/ (n = Last /\ s \in {"FINISHED_JOB_AFTER_LAST", "SHOUD_EXIT"})
           => r[Len(r)].sig = "GOOD_BYE"
        /\ \A t : Sends(r, t) =>
             \/ t = "FINISHED_JOB" /\ s = t /\ n # Last
             \/ t = "FINISHED_JOB_AFTER_LAST" /\ (s = t \/ n = Last)
             \/ t = "SHOUD_EXIT" /\ s # "GOOD_BYE"
                  /\ (s = "FINISHED_JOB" => itsDone[n])
             \/ t = "GOOD_BYE" /\ (s = t \/ (n = Last /\ s # "FINISHED_JOB"))
  BY <1>1, ReplyFacts
<1>5. pipe[e] # <<>> => s = Head(pipe[e])
  BY DEF Received, Inbox
<1>6. e = <<IF direction[n] THEN PrevOf(n) ELSE NextOf(n), n>>
  BY DEF Source
<1> HIDE DEF s, r
<1>7. /\ pc'[n] = IF s = "YOUR_TURN" THEN "print" ELSE "send"
      /\ signal'[n] = s /\ todo'[n] = r
      /\ direction'[n] <=> direction[n] /\ ~TurnsRound(n, s)
      /\ \A i \in Node \ {n} : /\ pc'[i] = pc[i] /\ signal'[i] = signal[i]
                               /\ todo'[i] = todo[i]
                               /\ direction'[i] = direction[i]
  BY <1>2, <1>3, <1>4
<1> HIDE DEF e
<1>8. /\ pipe'[e] = IF pipe[e] = <<>> THEN <<>> ELSE Tail(pipe[e])
      /\ \A x \in Edge : x # e => pipe'[x] = pipe[x]
  BY <1>1, <1>2, <1>3
<1>9. \A x \in Edge : \A t : Holds(pipe'[x], t) => Holds(pipe[x], t)
  <2>1. \A t : Holds(pipe'[e], t) => Holds(pipe[e], t)
    <3>1. CASE pipe[e] = <<>>
      BY <1>8, <3>1
    <3>2. CASE pipe[e] # <<>>
      <4>1. pipe[e] \in Seq(SignalType)
        BY <1>1, <1>2
      <4>2. \A t : Holds(Tail(pipe[e]), t) => Holds(pipe[e], t)
        BY <3>2, <4>1, HoldsFacts
      <4> QED BY <1>8, <3>2, <4>2
    <3> QED BY <3>1, <3>2
  <2> QED BY <1>8, <2>1
<1>10. /\ \A i \in Node \ {n} : \A t : /\ Pending(i, t)' <=> Pending(i, t)
                                       /\ Forward(i, t)' => Forward(i, t)
       /\ \A t : Pending(n, t)' <=> s # "YOUR_TURN" /\ Sends(r, t)
       /\ \A t : Forward(n, t)' => Forward(n, t) \/ (s # "YOUR_TURN" /\ Sends(r, t))
  <2>1. \A i \in Node \ {n} : \A t : Pending(i, t)' <=> Pending(i, t)
    BY <1>7 DEF Pending
  <2>2. \A t : Pending(n, t)' <=> s # "YOUR_TURN" /\ Sends(r, t)
    BY <1>7 DEF Pending
  <2> QED BY <1>9, <2>1, <2>2 DEF Forward
<1>11. Left' = Left /\ n \notin Left
  BY <1>1, <1>7 DEF Left
<1>12. s = "GOOD_BYE" \/ n = Last => \A i \in Node : i > n => i \in Left
  <2>1. CASE n = Last
    BY <2>1, NodeAssumption DEF Node, Last
  <2>2. CASE n # Last
    <3> SUFFICES ASSUME s = "GOOD_BYE" PROVE \A i \in Node : i > n => i \in Left
      BY <2>2
    <3>1. NextOf(n) = n + 1 /\ n + 1 \in Left /\ n + 1 \in Node
      BY <1>1, <2>2
    <3>2. \A i \in Node : i > n => i = n + 1 \/ i > n + 1
      OBVIOUS
    <3> QED BY <3>1, <3>2 DEF LeftInv
  <2> QED BY <2>1, <2>2
(* FINISHED_JOB finds nobody who is done.                                  *)
<1>13. s = "FINISHED_JOB" => ~itsDone[n] /\ n # 0
                             /\ \A d \in Node : itsDone[d] => d <= n
  <2> SUFFICES ASSUME s = "FINISHED_JOB"
               PROVE  ~itsDone[n] /\ n # 0
                      /\ \A d \in Node : itsDone[d] => d <= n
    OBVIOUS
  <2>1. Forward(PrevOf(n), "FINISHED_JOB")
    BY <1>1
  <2>2. /\ PrevOf(n) # Last
        /\ \A d \in Node : itsDone[d] => d <= PrevOf(n)
    BY <2>1 DEF FinishedJobInv
  <2>3. n # 0 /\ PrevOf(n) = n - 1
    BY <2>2
  <2> QED BY <2>2, <2>3
<1>14. ~direction'[n] =>
         s \in {"FINISHED_JOB_AFTER_LAST", "SHOUD_EXIT", "GOOD_BYE"}
         /\ (n = Last => s = "FINISHED_JOB_AFTER_LAST")
  BY <1>1, <1>7, <1>13 DEF TurnsRound
<1>15. TodoInv'
  <2> SUFFICES ASSUME NEW i \in Node, pc'[i] = "send"
               PROVE  /\ \A k \in 1 .. Len(todo'[i]) :
                           todo'[i][k].to = IF todo'[i][k].sig = "GOOD_BYE"
                                              THEN PrevOf(i) ELSE NextOf(i)
                      /\ signal'[i] = "GOOD_BYE" \/ (i = Last /\ ~direction'[i])
                           => todo'[i][Len(todo'[i])].sig = "GOOD_BYE"
    BY DEF TodoInv
  <2>1. CASE i = n
    <3>1. s # "YOUR_TURN"
      BY <1>7, <2>1
    <3>2. \A k \in 1 .. Len(r) : r[k].to = IF r[k].sig = "GOOD_BYE"
                                             THEN PrevOf(n) ELSE NextOf(n)
      BY <1>4, <3>1
    <3>3. s = "GOOD_BYE" \/ (n = Last /\ ~direction'[n]) =>
            r[Len(r)].sig = "GOOD_BYE"
      BY <1>4, <1>14, <3>1
    <3>4. todo'[i] = r
      BY <1>7, <2>1
    <3>5. \A k \in 1 .. Len(todo'[i]) :
            todo'[i][k].to = IF todo'[i][k].sig = "GOOD_BYE" THEN PrevOf(i)
                                                             ELSE NextOf(i)
      BY <2>1, <3>2, <3>4, Zenon
    <3>6. signal'[i] = "GOOD_BYE" \/ (i = Last /\ ~direction'[i])
            => todo'[i][Len(todo'[i])].sig = "GOOD_BYE"
      BY <1>7, <2>1, <3>3, <3>4
    <3> QED BY <3>5, <3>6
  <2>2. CASE i # n
    <3>1. /\ pc[i] = "send" /\ todo'[i] = todo[i]
          /\ signal'[i] = signal[i] /\ direction'[i] = direction[i]
      BY <1>7, <2>2
    <3> QED BY <3>1 DEF TodoInv
  <2> QED BY <2>1, <2>2
<1>16. PipeInv' /\ LeftInv' /\ OrderInv'
  BY <1>3, <1>9, <1>11 DEF PipeInv, LeftInv, OrderInv
<1>17. EndsInv'
  <2>1. \A i \in Node : /\ pc'[i] = "unborn" <=> pc[i] = "unborn"
                        /\ Ended(i)' <=> Ended(i)
    BY <1>1, <1>7 DEF Ended
  <2>2. \A x \in Edge : x[1] \in Node /\ x[2] \in Node
    BY DEF Edge
  <2>3. pc'[0] = "fork" <=> pc[0] = "fork"
    BY <1>1, <1>7
  <2> QED BY <1>3, <2>1, <2>2, <2>3 DEF EndsInv
<1>18. GoodByeInv'
  <2>1. \A i \in Node : Pending(i, "GOOD_BYE")' =>
          \A j \in Node : j > i => j \in Left
    <3>1. Pending(n, "GOOD_BYE")' => s = "GOOD_BYE" \/ n = Last
      BY <1>4, <1>10
    <3> QED BY <1>10, <1>12, <3>1 DEF GoodByeInv
  <2>2. \A i \in Node : Holds(pipe'[<<i, PrevOf(i)>>], "GOOD_BYE") => i \in Left
    BY <1>9 DEF GoodByeInv
  <2>3. ASSUME NEW i \in Node, pc'[i] \in {"close", "exited"}
        PROVE  \/ Holds(pipe'[<<i, PrevOf(i)>>], "GOOD_BYE")
               \/ signal'[PrevOf(i)] = "GOOD_BYE"
               \/ i = 0
    <3>1. pc[i] \in {"close", "exited"} /\ i # n
      BY <1>7, <2>3
    <3>2. signal[PrevOf(i)] = "GOOD_BYE" => signal'[PrevOf(i)] = "GOOD_BYE"
      BY <1>1, <1>7, <1>11 DEF GoodByeInv
    <3>3. CASE <<i, PrevOf(i)>> # e
      BY <1>8, <3>1, <3>2, <3>3 DEF GoodByeInv
    <3>4. CASE <<i, PrevOf(i)>> = e /\ pipe[e] # <<>>
      <4>1. PrevOf(i) = n /\ ~direction[n]
        BY <1>6, <3>4
      <4> QED BY <1>1, <1>7, <3>4, <4>1
    <3>5. CASE <<i, PrevOf(i)>> = e /\ pipe[e] = <<>>
      BY <1>8, <3>1, <3>2, <3>5 DEF GoodByeInv
    <3> QED BY <3>3, <3>4, <3>5
  <2>4. \A i \in Node : signal'[i] = "GOOD_BYE" => pc'[i] = "send" \/ i \in Left
    BY <1>7 DEF GoodByeInv
  <2> QED BY <1>11, <2>1, <2>2, <2>3, <2>4 DEF GoodByeInv
<1>19. DirectionInv'
  <2>1. ~direction'[n] => pc'[n] = "send"
    BY <1>7, <1>14
  <2> QED BY <1>7, <1>11, <1>14, <2>1 DEF DirectionInv
<1>20. RoundInv'
  <2> SUFFICES ASSUME direction'[0]
               PROVE  \A i \in Node :
                        /\ ~Forward(i, "SHOUD_EXIT")'
                        /\ Forward(i, "FINISHED_JOB_AFTER_LAST")' => i = Last
                        /\ ~Pending(i, "GOOD_BYE")'
                        /\ i \notin Left
                        /\ direction'[i]
    BY <1>11 DEF RoundInv
  <2>1. direction[0] /\ \A i \in Node : direction[i]
    BY <1>7 DEF RoundInv
  <2>2. Forward(PrevOf(n), s) /\ s # "GOOD_BYE"
    BY <1>1, <2>1
  <2>3. s # "SHOUD_EXIT" /\ (s = "FINISHED_JOB_AFTER_LAST" => PrevOf(n) = Last)
    BY <2>1, <2>2 DEF RoundInv
  <2>4. s = "FINISHED_JOB_AFTER_LAST" => n = 0
    BY <2>3
  <2>5. s # "FINISHED_JOB_AFTER_LAST"
    BY <1>7, <2>4 DEF TurnsRound
  <2>6. s = "YOUR_TURN" \/ s = "FINISHED_JOB"
    BY <1>1, <2>2, <2>3, <2>5 DEF SignalType
  <2>7. direction'[n]
    BY <1>14, <2>6
  <2>8. \A t : s # "YOUR_TURN" /\ Sends(r, t) =>
          \/ t = "FINISHED_JOB"
          \/ t = "FINISHED_JOB_AFTER_LAST" /\ n = Last
    <3> SUFFICES ASSUME NEW t, s # "YOUR_TURN", Sends(r, t), t # "FINISHED_JOB"
                 PROVE  t = "FINISHED_JOB_AFTER_LAST" /\ n = Last
      OBVIOUS
    <3>1. s = "FINISHED_JOB" /\ ~itsDone[n]
      BY <1>13, <2>6
    <3>2. t # "GOOD_BYE"
      <4>1. ASSUME t = "GOOD_BYE" PROVE FALSE
        BY <1>4, <3>1, <4>1
      <4> QED BY <4>1
    <3> QED BY <1>4, <3>1, <3>2
  <2> QED BY <1>7, <1>10, <2>1, <2>7, <2>8 DEF RoundInv
<1>21. FinishedJobInv'
  <2>1. \A i \in Node : Forward(i, "FINISHED_JOB")' =>
          Forward(i, "FINISHED_JOB") \/ (i = n /\ n # Last /\ s = "FINISHED_JOB")
    BY <1>4, <1>10
  <2> QED BY <1>3, <1>13, <2>1 DEF FinishedJobInv
<1>22. PhaseInv'
  <2>1. CASE Finishing
    <3>1. s # "YOUR_TURN"
      BY <1>1, <2>1 DEF Finishing
    <3>2. \A i \in Node : ~Forward(i, "YOUR_TURN")'
      <4>1. ~Sends(r, "YOUR_TURN")
        BY <1>4, <3>1
      <4> QED BY <1>10, <2>1, <4>1 DEF Finishing
    <3>3. Ready' /\ \A i \in Node : pc'[i] # "print"
      BY <1>7, <2>1, <3>1 DEF Finishing, Ready, Starting
    <3> QED BY <1>3, <2>1, <3>2, <3>3 DEF PhaseInv, Finishing
  <2>2. CASE Turning
    <3>1. direction[n] /\ pipe[e] # <<>> /\ NextTurn \in Node
      BY <1>1, <2>2, NextTurnType
      DEF Turning, AtNode, Leaving, InPipe, Quiet
    <3>2. InPipe(NextTurn) /\ e = <<PrevOf(NextTurn), NextTurn>>
      BY <1>1, <2>2, <3>1 DEF Turning, AtNode, Leaving, InPipe
    <3>3. pipe[e] = <<"YOUR_TURN">> /\ n = NextTurn
      <4>1. e = <<PrevOf(n), n>>
        BY <1>6, <3>1
      <4>2. pipe[<<PrevOf(NextTurn), NextTurn>>] = <<"YOUR_TURN">>
        BY <3>2, Zenon DEF InPipe
      <4> QED BY <3>2, <4>1, <4>2
    <3>4. s = "YOUR_TURN" /\ pipe'[e] = <<>>
      BY <1>5, <1>8, <3>3
    <3>5. pc'[n] = "print" /\ Ready'
      BY <1>7, <3>2, <3>4 DEF InPipe, Ready, Starting
    <3>6. \A x \in Edge : pipe'[x] = <<>>
      BY <1>8, <3>2, <3>4 DEF InPipe
    <3>7. direction'[n]
      BY <1>14, <3>4
    <3>8. Quiet({n})'
      BY <1>3, <1>7, <3>2, <3>7 DEF InPipe, Quiet, Waiting
    <3>9. NextTurn' = NextTurn
      BY <1>3 DEF NextTurn
    <3>10. AtNode(NextTurn)'
      BY <3>3, <3>5, <3>6, <3>8, <3>9 DEF AtNode
    <3> QED BY <1>3, <2>2, <3>9, <3>10 DEF PhaseInv, Turning
  <2> QED BY <2>1, <2>2 DEF PhaseInv
<1> QED
  BY <1>15, <1>16, <1>17, <1>18, <1>19, <1>20, <1>21, <1>22
---------------------------------------------------------------------------
(* The invariant holds of every reachable state, for every ring of at      *)
(* least three nodes and every file.                                       *)
LEMMA StepInv == RingInv /\ [Next]_vars => RingInv'
<1> SUFFICES ASSUME RingInv, [Next]_vars PROVE RingInv'
  OBVIOUS
<1>1. TypeOK'
  BY TypeStep DEF RingInv
<1>2. CASE UNCHANGED vars
  <2> USE <1>2 DEF vars
  <2>1. (TodoInv /\ OrderInv)' <=> TodoInv /\ OrderInv
    BY DEF TodoInv, OrderInv
  <2>2. (PipeInv /\ EndsInv /\ LeftInv)' <=> PipeInv /\ EndsInv /\ LeftInv
    BY DEF PipeInv, EndsInv, LeftInv, Left, Ended
  <2>3. PhaseInv' <=> PhaseInv
    <3>1. Turning' <=> Turning
      BY DEF Turning, AtNode, Leaving, InPipe, Quiet, Waiting, Ready, NextTurn
    <3>2. Finishing' <=> Finishing
      BY DEF Finishing, Forward, Pending, Ready
    <3> QED BY <3>1, <3>2 DEF PhaseInv
  <2>4. (GoodByeInv /\ DirectionInv)' <=> GoodByeInv /\ DirectionInv
    BY DEF GoodByeInv, DirectionInv, Pending, Left
  <2>5. (RoundInv /\ FinishedJobInv)' <=> RoundInv /\ FinishedJobInv
    BY DEF RoundInv, FinishedJobInv, Forward, Pending, Left
  <2> QED BY <1>1, <2>1, <2>2, <2>3, <2>4, <2>5 DEF RingInv
<1>3. CASE \E n \in Node : Step(n)
  <2>1. PICK n \in Node : Step(n)
    BY <1>3
  <2>2. ASSUME NEW i \in Node, Fork(i) PROVE RingInv'
    BY <1>1, <2>2, ForkInv
  <2>3. CASE ClosePipeExcept(n)
    BY <1>1, <2>3, ClosePipeExceptInv
  <2>4. CASE PrintLine(n)
    BY <1>1, <2>4, PrintLineInv
  <2>5. CASE MeetEOF(n)
    BY <1>1, <2>5, MeetEOFInv
  <2>6. CASE Receive(n)
    BY <1>1, <2>6, ReceiveInv
  <2>7. CASE Deliver(n)
    BY <1>1, <2>7, DeliverInv
  <2>8. CASE BrokenPipe(n)
    BY <1>1, <2>8, BrokenPipeInv
  <2>9. CASE ClosePipeAll(n)
    BY <1>1, <2>9, ClosePipeAllInv
  <2> QED
    BY <2>1, <2>2, <2>3, <2>4, <2>5, <2>6, <2>7, <2>8, <2>9 DEF Step, inNode
<1> QED BY <1>2, <1>3 DEF Next, AllOver

(* The strengthened invariant of the ring.                                 *)
THEOREM Invariance == SafeSpec => []RingInv
<1> QED BY InitInv, StepInv, PTL DEF SafeSpec

(* printOneLine never runs in two nodes at a time.                         *)
THEOREM PrinterIsAlone == SafeSpec => []OnePrinter
<1>1. RingInv => OnePrinter
  <2> SUFFICES ASSUME RingInv, NEW m \in Node, NEW n \in Node,
                      pc[m] = "print", pc[n] = "print"
               PROVE  m = n
    BY DEF OnePrinter
  <2> QED BY PrinterHasTurn DEF RingInv
<1> QED BY <1>1, Invariance, PTL

(* The nodes read the lines in turn, and stop at EOF.                      *)
THEOREM LinesInTurn == SafeSpec => []TurnsInOrder
<1>1. RingInv => TurnsInOrder
  <2> SUFFICES ASSUME RingInv PROVE TurnsInOrder
    OBVIOUS
  <2>1. Len(readBy) <= lines + 1
    BY DEF RingInv, PhaseInv, Turning, Finishing, TypeOK
  <2> QED BY <2>1 DEF RingInv, OrderInv, TurnsInOrder
<1> QED BY <1>1, Invariance, PTL

(* A waiting node sees the end of a pipe only when its writer was killed.  *)
THEOREM EndOfPipe == SafeSpec => []EndOfPipeOnlyAfterKill
<1>1. RingInv => EndOfPipeOnlyAfterKill
  <2> USE NodeFacts, EdgeFacts DEF RingInv
  <2> SUFFICES ASSUME RingInv, NEW n \in Node, pc[n] = "recv",
                      Inbox(n) = <<>>, wr[<<Source(n), n>>] = {}
               PROVE  pc[Source(n)] = "killed"
    BY DEF EndOfPipeOnlyAfterKill
  <2>1. Source(n) \in Node /\ <<Source(n), n>> \in Edge
    BY DEF Source
  <2>2. n \notin Left
    BY DEF Left
  <2>3. Ended(Source(n))
    <3>1. pc[Source(n)] = "unborn" \/ Ended(Source(n))
      <4>1. \A e \in Edge : e[1] \in wr[e] \/ pc[e[1]] = "unborn" \/ Ended(e[1])
        BY DEF EndsInv
      <4>2. <<Source(n), n>>[1] = Source(n)
        OBVIOUS
      <4> QED BY <2>1, <4>1, <4>2
    <3>2. pc[Source(n)] # "unborn"
      BY <2>1 DEF EndsInv
    <3> QED BY <3>1, <3>2
  <2>4. Source(n) \in Left
    BY <2>1, <2>3 DEF Left, Ended
  <2>5. ~direction[n]
    <3> SUFFICES ASSUME direction[n] PROVE FALSE
      OBVIOUS
    <3>1. PrevOf(n) \in Left
      BY <2>4 DEF Source
    <3>2. CASE n # 0
      <4>0. n \in Nat /\ PrevOf(n) = n - 1
        BY <3>2
      <4>1. PrevOf(n) \in Node /\ n > PrevOf(n)
        BY <4>0
      <4> QED BY <2>2, <3>1, <4>1 DEF LeftInv
    <3>3. CASE n = 0
      BY <3>1, <3>3 DEF RoundInv
    <3> QED BY <3>2, <3>3
  <2>6. /\ Source(n) = NextOf(n) /\ PrevOf(Source(n)) = n
        /\ NextOf(n) # 0
    BY <2>5 DEF Source, DirectionInv
  <2>7. signal[n] # "GOOD_BYE"
    BY <2>2 DEF GoodByeInv
  <2>8. ~Holds(pipe[<<Source(n), n>>], "GOOD_BYE")
    BY EmptyHolds DEF Inbox
  <2>9. pc[Source(n)] \notin {"close", "exited"}
    BY <2>1, <2>6, <2>7, <2>8 DEF GoodByeInv
  <2> QED BY <2>3, <2>9 DEF Ended
<1> QED BY <1>1, Invariance, PTL

(* FINISHED_JOB never reaches a node that is done.                         *)
THEOREM FinishedJob == SafeSpec => []FinishedJobNeverReturns
<1>1. RingInv => FinishedJobNeverReturns
  <2> USE NodeFacts, EdgeFacts DEF RingInv
  <2> SUFFICES ASSUME RingInv, NEW n \in Node, itsDone[n], NEW e \in Edge,
                      e[2] = n
               PROVE  ~Holds(pipe[e], "FINISHED_JOB")
    BY DEF FinishedJobNeverReturns, Holds
  <2>1. PICK m \in Node : e = <<m, NextOf(m)>> \/ e = <<m, PrevOf(m)>>
    OBVIOUS
  <2>2. CASE e = <<m, PrevOf(m)>>
    BY <2>2 DEF PipeInv, SignalType
  <2>3. CASE e = <<m, NextOf(m)>>
    <3> SUFFICES ASSUME Holds(pipe[e], "FINISHED_JOB") PROVE FALSE
      OBVIOUS
    <3>1. m # Last /\ n <= m
      BY <2>3 DEF FinishedJobInv, Forward
    <3>2. n = m + 1 /\ m \in Nat
      BY <2>3, <3>1
    <3> QED BY ONLY <3>1, <3>2
  <2> QED BY <2>1, <2>2, <2>3
<1> QED BY <1>1, Invariance, PTL

(* GOOD_BYE is not sent before EOF.                                        *)
LEMMA TurningSends ==
  ASSUME TypeOK, Turning, NEW n \in Node
  PROVE  ~Pending(n, "GOOD_BYE")
<1> USE NodeFacts
<1> SUFFICES ASSUME pc[n] = "send" PROVE ~Sends(todo[n], "GOOD_BYE")
  BY DEF Pending
<1>1. NextTurn \in Node
  BY NextTurnType
<1>2. Leaving(NextTurn) /\ n = PrevOf(NextTurn)
  BY <1>1 DEF Turning, AtNode, Leaving, InPipe, Quiet, Waiting
<1>3. todo[n] = <<ToNext(n, "YOUR_TURN")>>
  BY <1>2 DEF Leaving
<1>4. \A t : Sends(todo[n], t) => t = ToNext(n, "YOUR_TURN").sig
  BY <1>3, OneCall
<1>5. ToNext(n, "YOUR_TURN").sig = "YOUR_TURN"
  BY MessageFacts DEF SignalType
<1> QED BY <1>4, <1>5

(* The ring implements TurnTaking, up to fairness: every step takes the    *)
(* turn that is due, lets the next node leave, or changes neither.         *)
THEOREM Refinement == SafeSpec => Turns!SafeSpec
<1>1. Init => Turns!Init
  BY NodeFacts DEF Init, Turns!Init, Left
<1>2. RingInv /\ [Next]_vars => [Turns!Next]_Turns!vars
  <2> USE NodeFacts
  <2> SUFFICES ASSUME RingInv, [Next]_vars
               PROVE  Turns!Next \/ UNCHANGED <<lines, readBy, Left>>
    BY DEF Turns!vars
  <2>1. ASSUME NEW n \in Node, PrintLine(n) \/ MeetEOF(n) PROVE Turns!TakeTurn
    <3>1. pc[n] = "print" /\ offset <= lines
      BY <2>1 DEF PrintLine, MeetEOF, RingInv, TypeOK
    <3>2. /\ n = NextTurn /\ Len(readBy) = offset
          /\ \A i \in Node \ {n} : Waiting(i)
      BY <3>1, PrinterHasTurn DEF RingInv
    <3>3. pc' = [pc EXCEPT ![n] = "send"] /\ pc \in [Node -> PC]
      BY <2>1 DEF PrintLine, MeetEOF, RingInv, TypeOK
    <3>4. Left' = Left
      BY <3>1, <3>3 DEF Left
    <3>5. readBy' = Append(readBy, n) /\ lines' = lines
      BY <2>1 DEF PrintLine, MeetEOF
    <3> QED BY <3>1, <3>2, <3>4, <3>5 DEF Turns!TakeTurn, NextTurn
  <2>2. ASSUME NEW n \in Node, BrokenPipe(n) PROVE Turns!Leave(n)
    <3>1. /\ Finishing /\ \A i \in Node : i > n => i \in Left
      BY <2>2, TypeStep, BrokenPipeLeave
    <3>2. Left' = Left \cup {n} /\ n \notin Left /\ UNCHANGED <<lines, readBy>>
      BY <2>2, BrokenPipeLeave
    <3> QED BY <3>1, <3>2 DEF Turns!Leave, Turns!Node, Node, Finishing
  <2>3. ASSUME NEW n \in Node, Deliver(n)
        PROVE  Turns!Leave(n) \/ UNCHANGED <<lines, readBy, Left>>
    <3> DEFINE m == Head(todo[n])
    <3>1. /\ pc[n] = "send" /\ Pending(n, m.sig) /\ UNCHANGED <<lines, readBy>>
          /\ \A i \in Node \ {n} : pc'[i] = pc[i]
          /\ pc'[n] = IF m.sig = "GOOD_BYE" THEN "close"
                      ELSE IF Tail(todo[n]) # <<>> THEN "send" ELSE "recv"
      BY <2>3, DeliverFacts
    <3> HIDE DEF m
    <3>2. CASE m.sig # "GOOD_BYE"
      <4>1. pc'[n] \in {"send", "recv"}
        BY <3>1, <3>2
      <4>2. Left' = Left
        BY <3>1, <4>1 DEF Left
      <4> QED BY <3>1, <4>2
    <3>3. CASE m.sig = "GOOD_BYE"
      <4>1. \A i \in Node : i > n => i \in Left
        BY <3>1, <3>3 DEF RingInv, GoodByeInv
      <4>2. n \notin Left /\ \A i \in Node : i \in Left' <=> i \in Left \/ i = n
        BY <3>1, <3>3 DEF Left
      <4>3. Left' = Left \cup {n}
        BY <4>2 DEF Left
      <4>4. Finishing
        <5>1. Turning => ~Pending(n, "GOOD_BYE")
          BY <3>1, TurningSends DEF RingInv
        <5> QED BY <3>1, <3>3, <5>1 DEF RingInv, PhaseInv
      <4> QED
        BY <3>1, <4>1, <4>2, <4>3, <4>4
        DEF Turns!Leave, Turns!Node, Node, Finishing
    <3> QED BY <3>2, <3>3
  <2>4. ASSUME NEW n \in Node, Receive(n)
        PROVE  UNCHANGED <<lines, readBy, Left>>
    <3>1. /\ pc[n] = "recv" /\ pc \in [Node -> PC] /\ UNCHANGED <<lines, readBy>>
          /\ pc' = [pc EXCEPT ![n] = IF Received(n) = "YOUR_TURN" THEN "print"
                ELSE IF Reply(n, Received(n)) # <<>> THEN "send" ELSE "recv"]
      BY <2>4 DEF Receive, RingInv, TypeOK
    <3> QED BY <3>1 DEF Left
  <2>5. ASSUME NEW n \in Node, Fork(n) \/ ClosePipeExcept(n) \/ ClosePipeAll(n)
        PROVE  UNCHANGED <<lines, readBy, Left>>
    <3>1. pc \in [Node -> PC] /\ UNCHANGED <<lines, readBy>>
      BY <2>5 DEF Fork, ClosePipeExcept, ClosePipeAll, RingInv, TypeOK
    <3>2. CASE Fork(n)
      BY <3>1, <3>2 DEF Fork, Left
    <3>3. CASE ClosePipeExcept(n)
      BY <3>1, <3>3 DEF ClosePipeExcept, Left
    <3>4. CASE ClosePipeAll(n)
      BY <3>1, <3>4 DEF ClosePipeAll, Left
    <3> QED BY <2>5, <3>1, <3>2, <3>3, <3>4
  <2>6. CASE UNCHANGED vars
    BY <2>6 DEF vars, Left
  <2> QED
    BY <2>1, <2>2, <2>3, <2>4, <2>5, <2>6
    DEF Next, Step, inNode, AllOver, Turns!Next, Turns!Node, Node
<1> QED BY <1>1, <1>2, Invariance, PTL DEF SafeSpec, Turns!SafeSpec
----------------------------------------------------------------------------
(***************************************************************************)
(* The shutdown.  RingInv does not bound what the pipes hold, nor say what *)
(* is left in them at the end: that is ShutdownInv, which takes RingInv    *)
(* for granted.                                                            *)
(***************************************************************************)

(* An edge onwards is no edge backwards, and two of one kind have two      *)
(* different writers.                                                      *)
LEMMA WayFacts ==
    \A m, n \in Node :
        /\ <<m, NextOf(m)>> = <<n, NextOf(n)>> => m = n
        /\ <<m, PrevOf(m)>> = <<n, PrevOf(n)>> => m = n
        /\ <<m, NextOf(m)>> # <<n, PrevOf(n)>>
  BY NodeFacts

(* The types of what a node has under way.                                 *)
LEMMA WayTypes ==
  ASSUME TypeOK, NEW n \in Node
  PROVE  /\ Onward(n) \in Seq(SignalType) /\ Len(Onward(n)) \in Nat
         /\ Backward(n) \in Seq(SignalType) /\ Len(Backward(n)) \in Nat
         /\ todo[n] \in Seq(Message) /\ Len(todo[n]) \in Nat
         /\ pc[n] = "send" => todo[n] # <<>> /\ Len(todo[n]) >= 1
         /\ Load(n) \in Nat
         /\ Load(n) = 0 <=> Onward(n) = <<>> /\ pc[n] # "send"
<1>1. Onward(n) \in Seq(SignalType) /\ Backward(n) \in Seq(SignalType)
  BY EdgeFacts DEF TypeOK, Onward, Backward
<1>2. todo[n] \in Seq(Message) /\ (pc[n] = "send" => todo[n] # <<>>)
  BY DEF TypeOK
<1>3. \A S : \A q \in Seq(S) : Len(q) \in Nat /\ (q # <<>> => Len(q) >= 1)
                                             /\ (q = <<>> => Len(q) = 0)
  OBVIOUS
<1>4. /\ Len(Onward(n)) \in Nat /\ Len(Backward(n)) \in Nat /\ Len(todo[n]) \in Nat
      /\ pc[n] = "send" => Len(todo[n]) >= 1
      /\ Onward(n) # <<>> => Len(Onward(n)) >= 1
      /\ Onward(n) = <<>> => Len(Onward(n)) = 0
  BY <1>1, <1>2, <1>3
<1>5. Load(n) \in Nat /\ (Load(n) = 0 <=> Onward(n) = <<>> /\ pc[n] # "send")
  BY <1>4 DEF Load
<1> QED BY <1>1, <1>2, <1>4, <1>5

(* Nobody turns round before node 0, and node 0 after EOF only.            *)
LEMMA TurnedFacts ==
  ASSUME RingInv
  PROVE  /\ direction[0] => \A n \in Node : direction[n] /\ n \notin Left
         /\ Turning => \A n \in Node : direction[n] /\ n \notin Left
         /\ ~direction[0] => Finishing /\ Len(readBy) > lines
         /\ Len(readBy) > lines => Finishing
<1> USE NodeFacts DEF RingInv
<1>1. direction[0] => \A n \in Node : direction[n] /\ n \notin Left
  BY DEF RoundInv
<1>2. Turning => \A n \in Node : direction[n]
  BY DEF Turning, AtNode, Leaving, InPipe, Quiet
<1>3. lines \in Nat /\ offset \in 0 .. lines
  BY DEF TypeOK
<1>4. ~direction[0] => Finishing /\ Len(readBy) > lines
  BY <1>2, <1>3 DEF PhaseInv, Finishing
<1>5. Len(readBy) > lines => Finishing
  BY <1>3 DEF PhaseInv, Turning
<1> QED BY <1>1, <1>2, <1>4, <1>5

(* The lists of messages that a handler sends.                             *)
LEMMA ReplyLists ==
  ASSUME NEW n \in Node, NEW s \in SignalType, NEW r, r = Reply(n, s)
  PROVE  /\ Len(r) \in Nat /\ Len(r) <= 2
         /\ s = "FINISHED_JOB" => Len(r) = 1
         /\ s = "GOOD_BYE" => r[1].sig = "GOOD_BYE"
         /\ n = Last /\ s = "SHOUD_EXIT" => r = <<ToPrev(n, "GOOD_BYE")>>
         /\ \A k \in 1 .. Len(r) : r[k].sig = "FINISHED_JOB_AFTER_LAST" =>
              \/ s = "FINISHED_JOB_AFTER_LAST" /\ k = 1 /\ ~itsDone[n]
              \/ s = "FINISHED_JOB" /\ n = Last
<1>1. \A x : Len(<<x>>) = 1 /\ <<x>>[1] = x
  OBVIOUS
<1>3. /\ \A u \in SignalType : ToNext(n, u).sig = u /\ ToPrev(n, u).sig = u
      /\ OnShouldExit(n).sig # "FINISHED_JOB_AFTER_LAST"
      /\ n = Last => OnShouldExit(n) = ToPrev(n, "GOOD_BYE")
  BY MessageFacts, NodeFacts DEF OnShouldExit, SignalType
<1>4. CASE s = "FINISHED_JOB"
  <2> DEFINE x == ToNext(n, IF itsDone[n] THEN "SHOUD_EXIT" ELSE FinishedFrom(n))
  <2>1. r = <<x>>
    BY <1>4, ReplyCases
  <2>2. x.sig = "FINISHED_JOB_AFTER_LAST" => n = Last
    BY <1>3, FinishedFacts DEF SignalType
  <2> HIDE DEF x
  <2>3. Len(r) = 1 /\ r[1] = x
    BY <1>1, <2>1, Zenon
  <2>4. \A k \in 1 .. Len(r) : r[k] = x
    BY <2>3
  <2> QED BY <1>4, <2>2, <2>3, <2>4
<1>5. CASE s = "FINISHED_JOB_AFTER_LAST"
  <2> DEFINE x == ToNext(n, IF itsDone[n] THEN "SHOUD_EXIT"
                                          ELSE "FINISHED_JOB_AFTER_LAST")
             y == OnShouldExit(n)
  <2>1. r = <<x, y>>
    BY <1>5, ReplyCases
  <2>2. /\ x.sig = "FINISHED_JOB_AFTER_LAST" => ~itsDone[n]
        /\ y.sig # "FINISHED_JOB_AFTER_LAST"
    BY <1>3 DEF SignalType
  <2> HIDE DEF x, y
  <2>3. Len(r) = 2 /\ r[1] = x /\ r[2] = y
    BY <2>1
  <2>4. \A k \in 1 .. Len(r) : (k = 1 /\ r[k] = x) \/ r[k] = y
    BY <2>3
  <2> QED BY <1>5, <2>2, <2>3, <2>4
<1>6. CASE s = "SHOUD_EXIT"
  <2> DEFINE x == OnShouldExit(n)
  <2>1. r = <<x>>
    BY <1>6, ReplyCases
  <2>2. x.sig # "FINISHED_JOB_AFTER_LAST" /\ (n = Last => x = ToPrev(n, "GOOD_BYE"))
    BY <1>3
  <2> HIDE DEF x
  <2>3. Len(r) = 1 /\ r[1] = x
    BY <1>1, <2>1, Zenon
  <2>4. \A k \in 1 .. Len(r) : r[k] = x
    BY <2>3
  <2> QED BY <1>6, <2>1, <2>2, <2>3, <2>4
<1>7. CASE s = "GOOD_BYE"
  <2> DEFINE x == ToPrev(n, "GOOD_BYE")
  <2>1. r = <<x>>
    BY <1>7, ReplyCases
  <2>2. x.sig = "GOOD_BYE"
    BY <1>3 DEF SignalType
  <2> HIDE DEF x
  <2>3. Len(r) = 1 /\ r[1] = x
    BY <1>1, <2>1, Zenon
  <2>4. \A k \in 1 .. Len(r) : r[k] = x
    BY <2>3
  <2> QED BY <1>7, <2>2, <2>3, <2>4
<1>8. CASE s = "YOUR_TURN"
  <2>1. r = <<>>
    BY <1>8, ReplyCases
  <2> QED BY <1>8, <2>1
<1> QED BY <1>4, <1>5, <1>6, <1>7, <1>8 DEF SignalType

(* What a read does to the signals under way.                              *)
LEMMA ReadFacts ==
  ASSUME RingInv, ReadersInv, StartInv,
         NEW n \in Node, Receive(n), NEW s, s = Received(n)
  PROVE  /\ pc[n] = "recv" /\ s \in SignalType /\ todo'[n] = Reply(n, s)
         /\ pc'[n] = (IF s = "YOUR_TURN" THEN "print" ELSE "send")
         /\ direction'[n] <=> direction[n] /\ ~TurnsRound(n, s)
         /\ \A i \in Node \ {n} : /\ pc'[i] = pc[i] /\ todo'[i] = todo[i]
                                  /\ direction'[i] = direction[i]
         /\ UNCHANGED <<lines, offset, readBy, rd, wr, itsDone>>
         /\ direction[n] =>
              /\ Onward(PrevOf(n)) # <<>> /\ s = Head(Onward(PrevOf(n)))
              /\ Onward(PrevOf(n))' = Tail(Onward(PrevOf(n)))
              /\ \A i \in Node : i # PrevOf(n) => Onward(i)' = Onward(i)
              /\ \A i \in Node : Backward(i)' = Backward(i)
              /\ Forward(PrevOf(n), s) /\ s # "GOOD_BYE"
         /\ ~direction[n] =>
              /\ n # Last /\ s \in {"GOOD_BYE", "FINISHED_JOB_AFTER_LAST",
                                    "SHOUD_EXIT"}
              /\ s # "GOOD_BYE" => ~Heard(n)
              /\ \A i \in Node : Onward(i)' = Onward(i)
              /\ \A i \in Node : \/ Backward(i)' = Backward(i)
                                 \/ Backward(i) # <<>> /\ Backward(i)' = Tail(Backward(i))
<1> DEFINE e == <<Source(n), n>>
           r == Reply(n, s)
<1>1. /\ pc[n] = "recv" /\ s \in SignalType /\ e \in Edge
      /\ direction[n] => /\ pipe[e] # <<>> /\ Forward(PrevOf(n), s)
                         /\ s # "GOOD_BYE"
      /\ ~direction[n] =>
           /\ n # Last
           /\ s \in {"GOOD_BYE", "FINISHED_JOB_AFTER_LAST", "SHOUD_EXIT"}
           /\ pipe[e] # <<>> => s = "GOOD_BYE"
  BY ReceiveFacts DEF Inbox
<1>2. /\ pc \in [Node -> PC] /\ direction \in [Node -> BOOLEAN]
      /\ todo \in [Node -> Seq(Message)] /\ pipe \in [Edge -> Seq(SignalType)]
  BY DEF RingInv, TypeOK
<1>3. /\ pipe' = [pipe EXCEPT ![e] = IF @ = <<>> THEN @ ELSE Tail(@)]
      /\ direction' = [direction EXCEPT ![n] = @ /\ ~TurnsRound(n, s)]
      /\ todo' = [todo EXCEPT ![n] = r]
      /\ pc' = [pc EXCEPT ![n] = IF s = "YOUR_TURN" THEN "print"
                  ELSE IF r # <<>> THEN "send" ELSE "recv"]
      /\ UNCHANGED <<lines, offset, readBy, rd, wr, itsDone>>
      /\ pipe[e] = <<>> => wr[e] = {}
  BY Zenon DEF Receive
<1>4. s # "YOUR_TURN" => r # <<>>
  BY <1>1, ReplyFacts
<1>5. pipe[e] # <<>> => s = Head(pipe[e])
  BY DEF Received, Inbox
<1>6. e = <<IF direction[n] THEN PrevOf(n) ELSE NextOf(n), n>>
  BY DEF Source
<1> HIDE DEF r
<1>7. /\ pc'[n] = (IF s = "YOUR_TURN" THEN "print" ELSE "send")
      /\ todo'[n] = r
      /\ direction'[n] <=> direction[n] /\ ~TurnsRound(n, s)
      /\ \A i \in Node \ {n} : /\ pc'[i] = pc[i] /\ todo'[i] = todo[i]
                               /\ direction'[i] = direction[i]
  BY <1>2, <1>3, <1>4
<1> HIDE DEF e
<1>8. /\ pipe'[e] = IF pipe[e] = <<>> THEN <<>> ELSE Tail(pipe[e])
      /\ \A x \in Edge : x # e => pipe'[x] = pipe[x]
  BY <1>1, <1>2, <1>3
<1>9. \A i \in Node : <<i, NextOf(i)>> \in Edge /\ <<i, PrevOf(i)>> \in Edge
  BY EdgeFacts
<1>10. CASE direction[n]
  <2>1. PrevOf(n) \in Node /\ e = <<PrevOf(n), NextOf(PrevOf(n))>>
    BY <1>6, <1>10, NodeFacts
  <2>2. /\ Onward(PrevOf(n)) = pipe[e] /\ Onward(PrevOf(n))' = pipe'[e]
    BY <2>1 DEF Onward
  <2>3. \A i \in Node : i # PrevOf(n) => <<i, NextOf(i)>> # e
    BY <2>1, WayFacts
  <2>4. \A i \in Node : <<i, PrevOf(i)>> # e
    BY <2>1, WayFacts
  <2>5. /\ \A i \in Node : i # PrevOf(n) => Onward(i)' = Onward(i)
        /\ \A i \in Node : Backward(i)' = Backward(i)
    BY <1>8, <1>9, <2>3, <2>4 DEF Onward, Backward
  <2> QED BY <1>1, <1>3, <1>5, <1>7, <1>8, <1>10, <2>2, <2>5 DEF r
<1>11. CASE ~direction[n]
  <2>1. NextOf(n) \in Node /\ e = <<NextOf(n), PrevOf(NextOf(n))>>
    BY <1>6, <1>11, NodeFacts
  <2>2. \A i \in Node : <<i, NextOf(i)>> # e
    BY <2>1, WayFacts
  <2>3. \A i \in Node : Onward(i)' = Onward(i)
    BY <1>8, <1>9, <2>2 DEF Onward
  <2>4. \A i \in Node : \/ Backward(i)' = Backward(i)
                        \/ Backward(i) # <<>> /\ Backward(i)' = Tail(Backward(i))
    BY <1>8, <1>9 DEF Backward
  <2>5. s # "GOOD_BYE" => ~Heard(n)
    <3> SUFFICES ASSUME s # "GOOD_BYE" PROVE rd[<<n, NextOf(n)>>] = {}
      BY DEF Heard
    <3>1. pipe[e] = <<>> /\ wr[e] = {} /\ e[1] = NextOf(n)
      BY <1>1, <1>3, <1>11, <2>1
    <3>2. pc[NextOf(n)] = "unborn" \/ Ended(NextOf(n))
      BY <1>1, <3>1 DEF RingInv, EndsInv
    <3>3. \A i \in Node : pc[i] \notin Starting
      BY <1>11, TurnedFacts DEF StartInv
    <3>4. Ended(NextOf(n))
      BY <2>1, <3>2, <3>3 DEF Starting
    <3>5. <<n, NextOf(n)>>[2] = NextOf(n) /\ <<n, NextOf(n)>> \in Edge
      BY <1>9
    <3>6. rd[<<n, NextOf(n)>>] \subseteq Node
      BY <3>5 DEF RingInv, TypeOK
    <3> QED BY <3>3, <3>4, <3>5, <3>6 DEF ReadersInv
  <2> QED BY <1>1, <1>3, <1>7, <1>11, <2>3, <2>4, <2>5 DEF r
<1> QED BY <1>10, <1>11

(* What a write does to the signals under way.                             *)
LEMMA WriteFacts ==
  ASSUME RingInv, NEW n \in Node, Deliver(n), NEW m, m = Head(todo[n])
  PROVE  /\ pc[n] = "send" /\ m.sig \in SignalType /\ m = todo[n][1]
         /\ Pending(n, m.sig)
         /\ \A i \in Node \ {n} : pc'[i] = pc[i] /\ todo'[i] = todo[i]
         /\ pc'[n] = (IF m.sig = "GOOD_BYE" THEN "close"
                      ELSE IF Tail(todo[n]) # <<>> THEN "send" ELSE "recv")
         /\ todo'[n] = Tail(todo[n])
         /\ UNCHANGED <<lines, offset, readBy, rd, wr, itsDone, direction>>
         /\ \A i \in Node \ {n} : Onward(i)' = Onward(i) /\ Backward(i)' = Backward(i)
         /\ m.sig = "GOOD_BYE" => /\ Onward(n)' = Onward(n)
                                  /\ Backward(n)' = Append(Backward(n), m.sig)
         /\ m.sig # "GOOD_BYE" => /\ Onward(n)' = Append(Onward(n), m.sig)
                                  /\ Backward(n)' = Backward(n)
                                  /\ Heard(n)
         /\ \A i \in Node : \A s \in SignalType : Forward(i, s)' => Forward(i, s)
<1>1. /\ pc[n] = "send" /\ Pending(n, m.sig) /\ m.sig \in SignalType
      /\ \A i \in Node \ {n} : pc'[i] = pc[i] /\ todo'[i] = todo[i]
      /\ pc'[n] = IF m.sig = "GOOD_BYE" THEN "close"
                  ELSE IF Tail(todo[n]) # <<>> THEN "send" ELSE "recv"
      /\ todo'[n] = Tail(todo[n])
      /\ m.to = IF m.sig = "GOOD_BYE" THEN PrevOf(n) ELSE NextOf(n)
      /\ \A e \in Edge : IF e = <<n, m.to>>
                           THEN pipe'[e] = Append(pipe[e], m.sig)
                           ELSE pipe'[e] = pipe[e]
      /\ UNCHANGED <<lines, offset, readBy, rd, wr, signal, itsDone, direction>>
  BY ONLY RingInv, n \in Node, Deliver(n), m = Head(todo[n]), DeliverFacts, SMT
<1>2. /\ todo[n] \in Seq(Message) /\ todo[n] # <<>> /\ m = todo[n][1]
      /\ pipe \in [Edge -> Seq(SignalType)]
  BY <1>1 DEF RingInv, TypeOK
<1>3. \A i \in Node : <<i, NextOf(i)>> \in Edge /\ <<i, PrevOf(i)>> \in Edge
  BY EdgeFacts
<1>4. \A i \in Node \ {n} : Onward(i)' = Onward(i) /\ Backward(i)' = Backward(i)
  BY <1>1, <1>3 DEF Onward, Backward
<1>5. CASE m.sig = "GOOD_BYE"
  <2>1. <<n, m.to>> = <<n, PrevOf(n)>> /\ <<n, NextOf(n)>> # <<n, m.to>>
    BY <1>1, <1>5, WayFacts
  <2>2. Onward(n)' = Onward(n) /\ Backward(n)' = Append(Backward(n), m.sig)
    BY <1>1, <1>3, <2>1 DEF Onward, Backward
  <2>3. \A i \in Node : Onward(i)' = Onward(i)
    BY <1>4, <2>2
  <2>4. \A i \in Node : \A s \in SignalType : Forward(i, s)' => Forward(i, s)
    BY <1>1, <1>2, <1>5, <2>3 DEF Forward, Pending, Onward
  <2> QED BY <1>1, <1>2, <1>4, <1>5, <2>2, <2>4
<1>6. CASE m.sig # "GOOD_BYE"
  <2>1. <<n, m.to>> = <<n, NextOf(n)>> /\ <<n, PrevOf(n)>> # <<n, m.to>>
    BY <1>1, <1>6, WayFacts
  <2>2. Onward(n)' = Append(Onward(n), m.sig) /\ Backward(n)' = Backward(n)
    BY <1>1, <1>3, <2>1 DEF Onward, Backward
  <2>3. Heard(n)
    BY <2>1 DEF Heard, Deliver
  <2>4. ASSUME NEW i \in Node, NEW s \in SignalType, Forward(i, s)'
        PROVE  Forward(i, s)
    <3>1. CASE i # n
      BY <1>1, <1>4, <2>4, <3>1 DEF Forward, Pending, Onward
    <3>2. CASE i = n /\ Pending(i, s)'
      <4>1. Sends(Tail(todo[n]), s)
        BY <1>1, <3>2 DEF Pending
      <4>2. Sends(todo[n], s)
        BY <1>2, <4>1, SendsFacts
      <4> QED BY <1>1, <3>2, <4>2 DEF Forward, Pending
    <3>3. CASE i = n /\ ~Pending(i, s)'
      <4>1. Holds(Append(Onward(n), m.sig), s)
        BY <2>2, <2>4, <3>3 DEF Forward, Onward
      <4>2. Onward(n) \in Seq(SignalType)
        BY <1>2, <1>3 DEF Onward
      <4>3. Holds(Onward(n), s) \/ s = m.sig
        BY <1>1, <4>1, <4>2, HoldsFacts
      <4> QED BY <1>1, <3>3, <4>3 DEF Forward, Onward
    <3> QED BY <3>1, <3>2, <3>3
  <2> QED BY <1>1, <1>2, <1>4, <1>6, <2>2, <2>3, <2>4
<1> QED BY <1>5, <1>6

(* An appended signal.                                                     *)
LEMMA AppendFacts ==
  ASSUME NEW S, NEW q \in Seq(S), NEW x \in S
  PROVE  /\ Len(Append(q, x)) = Len(q) + 1 /\ Len(q) \in Nat
         /\ \A k \in 1 .. Len(q) : Append(q, x)[k] = q[k]
         /\ Append(q, x)[Len(q) + 1] = x
  OBVIOUS

(* Forking, and closing what was inherited, change nothing under way: some *)
(* node is still starting, so the shutdown has not begun.                  *)
LEMMA StartShutdown ==
  ASSUME RingInv, ShutdownInv, NEW n \in Node, Fork(n) \/ ClosePipeExcept(n)
  PROVE  ShutdownInv'
<1> USE DEF ShutdownInv
<1>1. /\ UNCHANGED <<lines, offset, readBy, pipe, signal, itsDone, direction, todo>>
      /\ pc[n] \in Starting
  BY DEF Fork, ClosePipeExcept, Starting
<1>2. /\ pc \in [Node -> PC] /\ 0 \in Node
      /\ \A e \in Edge : e[1] \in Node /\ e[2] \in Node
      /\ rd \in [Edge -> SUBSET Node]
  BY NodeFacts DEF RingInv, TypeOK, Edge
<1>3. direction[0] /\ direction'[0]
  BY <1>1 DEF StartInv
<1>4. \A i \in Node : /\ pc'[i] = "send" <=> pc[i] = "send"
                      /\ pc'[i] \in Starting => pc[i] \in Starting
                      /\ i \in Left' <=> i \in Left
                      /\ Ended(i)' <=> Ended(i)
  <2>1. CASE Fork(n)
    <3>1. /\ n # 0 /\ pc[0] = "fork" /\ pc[n] = "unborn"
          /\ pc'[n] = "init" /\ pc'[0] \in {"init", "fork"}
          /\ \A i \in Node \ {0, n} : pc'[i] = pc[i]
      BY <1>2, <2>1 DEF Fork
    <3> QED BY <3>1 DEF Starting, Left, Ended
  <2>2. CASE ClosePipeExcept(n)
    <3>1. /\ pc[n] = "init" /\ pc'[n] \in {"print", "recv"}
          /\ \A i \in Node \ {n} : pc'[i] = pc[i]
      BY <1>2, <2>2 DEF ClosePipeExcept
    <3> QED BY <3>1 DEF Starting, Left, Ended
  <2> QED BY <2>1, <2>2
<1>5. ReadersInv'
  <2>1. CASE Fork(n)
    <3>1. /\ rd' = [e \in Edge |-> rd[e] \cup {n}]
          /\ pc[0] = "fork" /\ pc'[n] = "init" /\ n # 0
          /\ pc'[0] \in {"init", "fork"}
          /\ \A i \in Node \ {0, n} : pc'[i] = pc[i]
      BY <1>2, <2>1 DEF Fork
    <3>2. ASSUME NEW e \in Edge, NEW i \in rd'[e]
          PROVE  pc'[i] \in Starting \/ (i = e[2] /\ ~Ended(i)')
      <4>1. i \in rd[e] \/ i = n
        BY <3>1
      <4>2. i \in Node
        BY <1>2, <4>1
      <4>3. CASE i \in {0, n}
        BY <3>1, <4>3 DEF Starting
      <4>4. CASE i \notin {0, n}
        BY <1>4, <3>1, <4>1, <4>2, <4>4 DEF ReadersInv
      <4> QED BY <4>3, <4>4
    <3> QED BY <3>2 DEF ReadersInv
  <2>2. CASE ClosePipeExcept(n)
    <3>1. /\ rd' = [e \in Edge |-> IF e[2] = n THEN rd[e] ELSE rd[e] \ {n}]
          /\ pc'[n] \in {"print", "recv"}
          /\ \A i \in Node \ {n} : pc'[i] = pc[i]
      BY <1>2, <2>2 DEF ClosePipeExcept
    <3>2. ASSUME NEW e \in Edge, NEW i \in rd'[e]
          PROVE  pc'[i] \in Starting \/ (i = e[2] /\ ~Ended(i)')
      <4>1. i \in rd[e] /\ (i = n => e[2] = n) /\ i \in Node
        BY <1>2, <3>1
      <4>2. CASE i = n
        BY <3>1, <4>1, <4>2 DEF Ended
      <4>3. CASE i # n
        BY <1>4, <3>1, <4>1, <4>3 DEF ReadersInv
      <4> QED BY <4>2, <4>3
    <3> QED BY <3>2 DEF ReadersInv
  <2> QED BY <2>1, <2>2
<1>6. \A i \in Node : /\ Onward(i)' = Onward(i) /\ Backward(i)' = Backward(i)
                      /\ Load(i)' = Load(i)
                      /\ \A s : Forward(i, s)' <=> Forward(i, s)
  BY <1>1, <1>4 DEF Onward, Backward, Load, Forward, Pending
<1>7. StartInv'
  BY <1>1, <1>3, <1>4, <1>6 DEF StartInv
<1>8. OneSignalInv'
  BY <1>1, <1>6 DEF OneSignalInv
<1>9. FrontierInv' /\ AfterLastInv'
  BY <1>3 DEF FrontierInv, AfterLastInv
<1>10. BackwardInv'
  BY <1>4, <1>6 DEF BackwardInv
<1>11. \A i \in Node : Heard(i)' => Heard(i)
  <2>1. \A i \in Node : <<i, NextOf(i)>> \in Edge
    BY EdgeFacts
  <2>2. CASE Fork(n)
    BY <2>1, <2>2 DEF Fork, RingInv, EndsInv, Heard
  <2>3. CASE ClosePipeExcept(n)
    BY <2>1, <2>3 DEF ClosePipeExcept, Heard
  <2> QED BY <2>2, <2>3
<1>12. ShortInv'
  BY <1>1, <1>4, <1>6, <1>11 DEF ShortInv
<1> QED BY <1>5, <1>7, <1>8, <1>9, <1>10, <1>12

(* A node that ends changes nothing under way either.                      *)
LEMMA EndShutdown ==
  ASSUME RingInv, ShutdownInv, NEW n \in Node, BrokenPipe(n) \/ ClosePipeAll(n)
  PROVE  ShutdownInv'
<1> USE DEF ShutdownInv
<1>1. /\ UNCHANGED <<lines, offset, readBy, pipe, signal, itsDone, direction, todo>>
      /\ pc[n] \in {"send", "close"}
      /\ rd' = [e \in Edge |-> rd[e] \ {n}]
  BY DEF BrokenPipe, ClosePipeAll
<1>2. /\ pc \in [Node -> PC] /\ rd \in [Edge -> SUBSET Node]
  BY DEF RingInv, TypeOK
<1>3. /\ pc'[n] \in {"killed", "exited"}
      /\ \A i \in Node \ {n} : pc'[i] = pc[i]
  BY <1>2 DEF BrokenPipe, ClosePipeAll
<1>4. ~direction[0] /\ ~direction'[0]
  <2>1. CASE BrokenPipe(n)
    BY <1>1, <2>1, BrokenPipeLeave
  <2>2. CASE ClosePipeAll(n)
    <3>1. n \in Left
      BY <2>2 DEF ClosePipeAll, Left
    <3> QED BY <1>1, <3>1, TurnedFacts
  <2> QED BY <2>1, <2>2
<1>5. \A i \in Node : /\ pc'[i] = "send" => pc[i] = "send"
                      /\ pc'[i] \in Starting => pc[i] \in Starting /\ i # n
                      /\ i \in Left => i \in Left'
                      /\ Ended(i)' => Ended(i) \/ i = n
  BY <1>1, <1>3 DEF Starting, Left, Ended
<1>6. /\ \A i \in Node : Onward(i)' = Onward(i) /\ Backward(i)' = Backward(i)
      /\ \A i \in Node : \A s : Forward(i, s)' => Forward(i, s)
  BY <1>1, <1>5 DEF Onward, Backward, Forward, Pending
<1>7. \A i \in Node : Heard(i)' => Heard(i)
  BY <1>1, EdgeFacts DEF Heard
<1>8. ReadersInv'
  <2>1. ASSUME NEW e \in Edge, NEW i \in rd'[e]
        PROVE  pc'[i] \in Starting \/ (i = e[2] /\ ~Ended(i)')
    <3>1. i \in rd[e] /\ i # n /\ i \in Node
      BY <1>1, <1>2
    <3> QED BY <1>3, <1>5, <3>1 DEF ReadersInv
  <2> QED BY <2>1 DEF ReadersInv
<1>9. StartInv'
  BY <1>1, <1>5, <1>6 DEF StartInv
<1>10. OneSignalInv'
  BY <1>1, <1>4 DEF OneSignalInv
(* Nobody in front of n waits any more to turn round.                      *)
<1>11. \A i \in Node : direction[i] => ~(n > i) /\ (i = n => n = Last)
  BY <1>1, <1>4 DEF FrontierInv
<1>12. FrontierInv'
  <2>1. ASSUME NEW i \in Node, direction[i]
        PROVE  /\ Onward(i)' = <<>>
               /\ \A m \in Node : m > i => direction'[m] /\ pc'[m] = "recv"
               /\ i # Last => pc'[i] = "recv"
               /\ pc'[i] = "send" => todo'[i] = <<ToPrev(i, "GOOD_BYE")>>
    BY <1>1, <1>3, <1>4, <1>5, <1>6, <1>11, <2>1 DEF FrontierInv
  <2>2. \A i \in Node : ~Forward(i, "FINISHED_JOB")'
    BY <1>4, <1>6 DEF FrontierInv
  <2> QED BY <1>1, <2>1, <2>2 DEF FrontierInv
<1>13. AfterLastInv'
  <2>1. \A i \in Node : Awaited(i) => Awaited(i)'
    <3>1. \A i \in Node : Awaited(i) => NextOf(i) # n /\ NextOf(i) \in Node
      BY <1>1, NodeFacts DEF Awaited
    <3> QED BY <1>1, <1>3, <3>1 DEF Awaited
  <2> QED BY <1>1, <1>4, <1>5, <1>6, <1>7, <2>1 DEF AfterLastInv
<1>14. BackwardInv'
  BY <1>5, <1>6 DEF BackwardInv
<1>15. ShortInv'
  BY <1>1, <1>5, <1>6, <1>7 DEF ShortInv
<1> QED BY <1>8, <1>9, <1>10, <1>12, <1>13, <1>14, <1>15

(* printOneLine: its caller is the only one with a signal on its way.      *)
LEMMA PrintShutdown ==
  ASSUME RingInv, ShutdownInv, TypeOK', NEW n \in Node, PrintLine(n) \/ MeetEOF(n)
  PROVE  ShutdownInv'
<1> USE DEF ShutdownInv
<1> DEFINE x == ToNext(n, IF offset < lines THEN "YOUR_TURN" ELSE FinishedFrom(n))
<1>0. lines \in Nat /\ offset \in 0 .. lines
  BY DEF RingInv, TypeOK
<1>1. /\ todo' = [todo EXCEPT ![n] = <<x>>]
      /\ pc' = [pc EXCEPT ![n] = "send"] /\ pc[n] = "print"
      /\ readBy' = Append(readBy, n)
      /\ UNCHANGED <<lines, pipe, rd, wr, direction>>
      /\ offset = lines => itsDone' = [itsDone EXCEPT ![n] = TRUE]
      /\ x.sig = IF offset < lines THEN "YOUR_TURN" ELSE FinishedFrom(n)
  <2>2. FinishedFrom(n) \in SignalType /\ "YOUR_TURN" \in SignalType
    BY FinishedFacts DEF SignalType
  <2>3. x.sig = IF offset < lines THEN "YOUR_TURN" ELSE FinishedFrom(n)
    BY <2>2, MessageFacts
  <2>4. CASE PrintLine(n)
    <3>1. offset < lines /\ offset # lines
      BY <1>0, <2>4 DEF PrintLine
    <3> QED BY <2>3, <2>4, <3>1 DEF PrintLine
  <2>5. CASE MeetEOF(n)
    <3>1. ~(offset < lines)
      BY <1>0, <2>5 DEF MeetEOF
    <3> QED BY <2>3, <2>5, <3>1 DEF MeetEOF
  <2> QED BY <2>4, <2>5
<1> HIDE DEF x
<1>2. /\ Turning /\ NextTurn = n /\ AtNode(n) /\ Len(readBy) = offset
  <2>1. TypeOK /\ PhaseInv /\ pc[n] = "print"
    BY <1>1 DEF RingInv
  <2>2. Turning
    BY <2>1 DEF PhaseInv, Finishing
  <2> QED BY <2>1, <2>2, PrinterHasTurn
<1>3. /\ pc'[n] = "send" /\ \A i \in Node \ {n} : pc'[i] = pc[i]
      /\ todo'[n] = <<x>>
      /\ \A e \in Edge : pipe'[e] = <<>>
      /\ \A i \in Node : \A s : Forward(i, s)' <=> i = n /\ s = x.sig
      /\ Left' = {} /\ \A i \in Node : direction[i] /\ ~itsDone[i]
  <2>1. TypeOK /\ PhaseInv /\ pc[n] = "print" /\ UNCHANGED pipe
    BY <1>1 DEF RingInv
  <2>2. todo' = [todo EXCEPT ![n] = <<x>>] /\ pc' = [pc EXCEPT ![n] = "send"]
    BY <1>1
  <2> HIDE DEF ShutdownInv
  <2> QED BY <2>1, <2>2, CallerSends
<1>4. \A i \in Node : /\ Onward(i)' = <<>> /\ Backward(i)' = <<>>
                      /\ i # n => pc'[i] # "send"
  BY <1>2, <1>3, EdgeFacts DEF Onward, Backward, AtNode, Quiet, Waiting
<1>5. Len(<<x>>) = 1 /\ Len(<<>>) = 0
  OBVIOUS
<1>6. /\ Load(n)' = 1 /\ \A i \in Node : i # n => Load(i)' = 0
  BY <1>3, <1>4, <1>5 DEF Load
<1>7. Len(readBy') = Len(readBy) + 1 /\ Len(readBy) \in Nat
  BY <1>1 DEF RingInv, TypeOK
<1>8. direction'[0] /\ lines \in Nat /\ offset \in 0 .. lines
  BY <1>1, <1>3, NodeFacts DEF RingInv, TypeOK
<1>9. ReadersInv'
  <2>1. ASSUME NEW e \in Edge, NEW i \in rd'[e]
        PROVE  pc'[i] \in Starting \/ (i = e[2] /\ ~Ended(i)')
    <3>1. i \in rd[e] /\ i \in Node
      BY <1>1 DEF RingInv, TypeOK
    <3>2. e[2] = i => ~Ended(i)'
      BY <1>3, <3>1 DEF Ended, Left
    <3> QED BY <1>1, <1>3, <3>1, <3>2 DEF ReadersInv, Starting
  <2> QED BY <2>1 DEF ReadersInv
<1>10. StartInv'
  <2> SUFFICES ASSUME NEW i \in Node, pc'[i] \in Starting
               PROVE  /\ Len(readBy') <= i
                      /\ \A m \in Node : m >= i => ~Forward(m, "FINISHED_JOB")'
                      /\ \A m \in Node : ~Forward(m, "FINISHED_JOB_AFTER_LAST")'
                      /\ direction'[0]
    BY DEF StartInv
  <2>1. i # n /\ pc[i] \in Starting /\ Len(readBy) <= i
    BY <1>3 DEF StartInv, Starting
  <2>2. Len(readBy) % MAX_NODE = n
    BY <1>2 DEF NextTurn
  <2>3. n = Len(readBy)
    <3>1. Len(readBy) \in 0 .. MAX_NODE - 1 /\ MAX_NODE \in Nat
      BY <1>7, <2>1, NodeAssumption DEF Node
    <3> QED BY <2>2, <3>1
  <2>4. n < i /\ n # Last
    BY <1>7, <2>1, <2>3, NodeAssumption DEF Node, Last
  <2>5. x.sig # "FINISHED_JOB_AFTER_LAST"
    BY <1>1, <1>8, <2>4, FinishedFacts
  <2> QED BY <1>3, <1>7, <1>8, <2>1, <2>3, <2>4, <2>5, NodeFacts
<1>11. OneSignalInv'
  <2> SUFFICES ASSUME Len(readBy') > lines
               PROVE  /\ \E d \in Node : itsDone'[d]
                      /\ \E t \in Node : Load(t)' <= 1
                                         /\ \A i \in Node : i # t => Load(i)' = 0
    BY <1>1 DEF OneSignalInv
  <2>1. offset = lines
    BY <1>2, <1>7, <1>8
  <2>2. itsDone'[n]
    BY <1>1, <2>1 DEF RingInv, TypeOK
  <2>3. Load(n)' <= 1
    BY <1>6
  <2> QED BY <1>6, <2>2, <2>3
<1>12. FrontierInv' /\ AfterLastInv'
  BY <1>8 DEF FrontierInv, AfterLastInv
<1>13. BackwardInv'
  BY <1>4, <1>5 DEF BackwardInv
<1>14. ShortInv'
  <2>1. ASSUME NEW i \in Node
        PROVE  /\ Len(Onward(i)') <= 2
               /\ pc'[i] = "send" => Len(Onward(i)') + Len(todo'[i]) <= 2
    <3>1. Len(Onward(i)') = 0
      BY <1>4, <1>5
    <3>2. pc'[i] = "send" => Len(todo'[i]) = 1
      BY <1>3, <1>4, <1>5
    <3>3. 0 <= 2 /\ 0 + 1 <= 2
      OBVIOUS
    <3> QED BY <3>1, <3>2, <3>3
  <2> QED BY <2>1 DEF ShortInv
<1> QED BY <1>9, <1>10, <1>11, <1>12, <1>13, <1>14

(* A write moves a signal, which was under way before.                     *)
LEMMA WriteShutdown ==
  ASSUME RingInv, ShutdownInv, NEW n \in Node, Deliver(n)
  PROVE  ShutdownInv'
<1> USE DEF ShutdownInv
<1>0. PICK m : m = Head(todo[n])
  OBVIOUS
<1>1. /\ pc[n] = "send" /\ m.sig \in SignalType /\ m = todo[n][1]
      /\ Pending(n, m.sig)
      /\ \A i \in Node \ {n} : pc'[i] = pc[i] /\ todo'[i] = todo[i]
      /\ pc'[n] = (IF m.sig = "GOOD_BYE" THEN "close"
                   ELSE IF Tail(todo[n]) # <<>> THEN "send" ELSE "recv")
      /\ todo'[n] = Tail(todo[n])
      /\ UNCHANGED <<lines, offset, readBy, rd, wr, itsDone, direction>>
      /\ \A i \in Node \ {n} : Onward(i)' = Onward(i) /\ Backward(i)' = Backward(i)
      /\ m.sig = "GOOD_BYE" => /\ Onward(n)' = Onward(n)
                               /\ Backward(n)' = Append(Backward(n), m.sig)
      /\ m.sig # "GOOD_BYE" => /\ Onward(n)' = Append(Onward(n), m.sig)
                               /\ Backward(n)' = Backward(n)
                               /\ Heard(n)
      /\ \A i \in Node : \A s \in SignalType : Forward(i, s)' => Forward(i, s)
  BY ONLY RingInv, n \in Node, Deliver(n), <1>0, WriteFacts, SMT
<1>2. /\ Onward(n) \in Seq(SignalType) /\ Len(Onward(n)) \in Nat
      /\ Backward(n) \in Seq(SignalType) /\ Len(Backward(n)) \in Nat
      /\ todo[n] \in Seq(Message) /\ todo[n] # <<>>
      /\ \A i \in Node : Load(i) \in Nat
      /\ Load(n) # 0
  BY <1>1, WayTypes DEF RingInv
<1>3. /\ Len(todo[n]) \in Nat /\ Len(todo[n]) >= 1
      /\ Len(Tail(todo[n])) = Len(todo[n]) - 1
      /\ \A k \in 1 .. Len(todo[n]) - 1 : Tail(todo[n])[k] = todo[n][k + 1]
      /\ Tail(todo[n]) = <<>> => Len(todo[n]) = 1
  <2>1. /\ Len(todo[n]) \in Nat /\ Len(todo[n]) >= 1
        /\ Len(Tail(todo[n])) = Len(todo[n]) - 1
        /\ \A k \in 1 .. Len(todo[n]) - 1 : Tail(todo[n])[k] = todo[n][k + 1]
    BY <1>2, QueueFacts
  <2>2. \A q : q = <<>> => Len(q) = 0
    OBVIOUS
  <2>3. Tail(todo[n]) = <<>> => Len(Tail(todo[n])) = 0
    BY <2>2
  <2>4. Tail(todo[n]) = <<>> => Len(todo[n]) = 1
    BY <2>1, <2>3
  <2> QED BY <2>1, <2>4
<1>4. m.sig # "GOOD_BYE" =>
        /\ Len(Onward(n)') = Len(Onward(n)) + 1
        /\ \A k \in 1 .. Len(Onward(n)) : Onward(n)'[k] = Onward(n)[k]
        /\ Onward(n)'[Len(Onward(n)) + 1] = m.sig
  <2>1. /\ Len(Append(Onward(n), m.sig)) = Len(Onward(n)) + 1
        /\ \A k \in 1 .. Len(Onward(n)) : Append(Onward(n), m.sig)[k] = Onward(n)[k]
        /\ Append(Onward(n), m.sig)[Len(Onward(n)) + 1] = m.sig
    BY <1>1, <1>2, AppendFacts
  <2> QED BY <1>1, <2>1
<1>5. /\ pc \in [Node -> PC]
      /\ \A i \in Node : /\ pc'[i] \in Starting => pc[i] \in Starting
                         /\ pc'[i] = "send" => pc[i] = "send"
                         /\ i \in Left => i \in Left'
                         /\ ~Ended(i) => ~Ended(i)'
                         /\ Heard(i)' <=> Heard(i)
  BY <1>1 DEF RingInv, TypeOK, Starting, Left, Ended, Heard
<1>6. {"FINISHED_JOB", "FINISHED_JOB_AFTER_LAST"} \subseteq SignalType
  BY DEF SignalType
<1>7. ReadersInv'
  <2>1. \A e \in Edge : rd[e] \subseteq Node
    BY DEF RingInv, TypeOK
  <2>2. \A i \in Node : pc[i] \in Starting => pc'[i] \in Starting
    BY <1>1 DEF Starting
  <2> QED BY <1>1, <1>5, <2>1, <2>2 DEF ReadersInv
<1>8. StartInv'
  BY <1>1, <1>5, <1>6 DEF StartInv
<1>9. OneSignalInv'
  <2> SUFFICES ASSUME Len(readBy) > lines, direction[0]
               PROVE  \E t \in Node : Load(t)' <= 1
                                     /\ \A i \in Node : i # t => Load(i)' = 0
    BY <1>1 DEF OneSignalInv
  <2>1. PICK t \in Node : Load(t) <= 1 /\ \A i \in Node : i # t => Load(i) = 0
    BY DEF OneSignalInv
  <2>2. t = n
    BY <1>2, <2>1
  <2>3. m.sig # "GOOD_BYE"
    BY <1>1 DEF RingInv, RoundInv
  <2>4. \A i \in Node : i # n => Load(i)' = 0
    <3>1. \A i \in Node : i # n => Load(i)' = Load(i)
      BY <1>1 DEF Load
    <3> QED BY <2>1, <2>2, <3>1
  <2>5. Load(n)' <= 1
    <3>1. Load(n) = Len(Onward(n)) + Len(todo[n])
      BY <1>1 DEF Load
    <3>2. Len(Onward(n)) = 0 /\ Len(todo[n]) = 1
      BY <1>2, <1>3, <2>1, <2>2, <3>1
    <3>3. Len(Tail(todo[n])) = 0
      BY <1>3, <3>2
    <3>4. Tail(todo[n]) = <<>>
      <4>1. Tail(todo[n]) \in Seq(Message)
        BY <1>2, QueueFacts
      <4>2. \A q \in Seq(Message) : Len(q) = 0 => q = <<>>
        OBVIOUS
      <4> QED BY <3>3, <4>1, <4>2
    <3>5. pc'[n] # "send" /\ Len(Onward(n)') = 1
      BY <1>1, <1>4, <2>3, <3>2, <3>4
    <3> QED BY <3>5 DEF Load
  <2> QED BY <2>4, <2>5
(* Nobody in front of n waits to turn round.                               *)
<1>10. ~direction[0] => \A i \in Node : direction[i] =>
          /\ ~(n > i)
          /\ i = n => n = Last /\ m.sig = "GOOD_BYE"
  <2> SUFFICES ASSUME ~direction[0], NEW i \in Node, direction[i]
               PROVE  ~(n > i) /\ (i = n => n = Last /\ m.sig = "GOOD_BYE")
    OBVIOUS
  <2>1. ~(n > i) /\ (i = n => n = Last)
    BY <1>1 DEF FrontierInv
  <2>2. i = n => todo[n] = <<ToPrev(n, "GOOD_BYE")>>
    BY <1>1 DEF FrontierInv
  <2>3. i = n => m = ToPrev(n, "GOOD_BYE")
    BY <1>1, <2>2
  <2>4. ToPrev(n, "GOOD_BYE").sig = "GOOD_BYE"
    BY MessageFacts DEF SignalType
  <2> QED BY <2>1, <2>3, <2>4
<1>11. FrontierInv'
  <2> SUFFICES ASSUME ~direction[0] PROVE FrontierInv'
    BY <1>1 DEF FrontierInv
  <2>1. ASSUME NEW i \in Node, direction[i]
        PROVE  /\ Onward(i)' = <<>>
               /\ \A j \in Node : j > i => direction'[j] /\ pc'[j] = "recv"
               /\ i # Last => pc'[i] = "recv"
               /\ pc'[i] = "send" => todo'[i] = <<ToPrev(i, "GOOD_BYE")>>
    <3>1. Onward(i)' = Onward(i) /\ Onward(i) = <<>>
      BY <1>1, <1>10, <2>1 DEF FrontierInv
    <3>2. \A j \in Node : j > i => direction'[j] /\ pc'[j] = "recv"
      BY <1>1, <1>10, <2>1 DEF FrontierInv
    <3>3. CASE i = n
      BY <1>1, <1>10, <2>1, <3>1, <3>2, <3>3
    <3>4. CASE i # n
      BY <1>1, <2>1, <3>1, <3>2, <3>4 DEF FrontierInv
    <3> QED BY <3>3, <3>4
  <2>2. \A i \in Node : ~Forward(i, "FINISHED_JOB")'
    BY <1>1, <1>6 DEF FrontierInv
  <2> QED BY <1>1, <2>1, <2>2 DEF FrontierInv
<1>12. AfterLastInv'
  <2> SUFFICES ASSUME ~direction[0], NEW i \in Node
               PROVE  /\ \A k \in 1 .. Len(Onward(i)') :
                            Onward(i)'[k] = "FINISHED_JOB_AFTER_LAST" =>
                                k = 1 /\ Awaited(i)'
                      /\ pc'[i] = "send" /\ Heard(i)' => \A k \in 1 .. Len(todo'[i]) :
                            todo'[i][k].sig = "FINISHED_JOB_AFTER_LAST" =>
                                k = 1 /\ Onward(i)' = <<>> /\ Awaited(i)'
    BY <1>1 DEF AfterLastInv
  <2>1. Awaited(i) => Awaited(i)'
    <3>1. Awaited(i) => NextOf(i) # n /\ NextOf(i) \in Node
      BY <1>1, NodeFacts DEF Awaited
    <3> QED BY <1>1, <3>1 DEF Awaited
  <2>2. CASE i # n
    BY <1>1, <1>5, <2>1, <2>2 DEF AfterLastInv
  <2>3. CASE i = n
    <3>1. \A k \in 1 .. Len(Onward(n)) :
            Onward(n)[k] = "FINISHED_JOB_AFTER_LAST" => k = 1 /\ Awaited(n)
      BY DEF AfterLastInv
    <3>2. Heard(n) => \A k \in 1 .. Len(todo[n]) :
            todo[n][k].sig = "FINISHED_JOB_AFTER_LAST" =>
                k = 1 /\ Onward(n) = <<>> /\ Awaited(n)
      BY <1>1 DEF AfterLastInv
    <3>3. ASSUME NEW k \in 1 .. Len(Onward(n)'),
                 Onward(n)'[k] = "FINISHED_JOB_AFTER_LAST"
          PROVE  k = 1 /\ Awaited(n)
      <4>1. CASE m.sig = "GOOD_BYE"
        BY <1>1, <3>1, <3>3, <4>1
      <4>2. CASE m.sig # "GOOD_BYE" /\ k \in 1 .. Len(Onward(n))
        BY <1>4, <3>1, <3>3, <4>2
      <4>3. CASE m.sig # "GOOD_BYE" /\ k = Len(Onward(n)) + 1
        <5>1. todo[n][1].sig = "FINISHED_JOB_AFTER_LAST" /\ Heard(n)
          BY <1>1, <1>4, <3>3, <4>3
        <5>2. Onward(n) = <<>> /\ Awaited(n)
          BY <1>3, <3>2, <5>1
        <5>3. Len(Onward(n)) = 0
          BY <5>2
        <5> QED BY <4>3, <5>2, <5>3
      <4> QED BY <1>2, <1>4, <3>3, <4>1, <4>2, <4>3
    <3>4. ASSUME Heard(n), NEW k \in 1 .. Len(todo'[n]),
                 todo'[n][k].sig = "FINISHED_JOB_AFTER_LAST"
          PROVE  FALSE
      <4>1. k + 1 \in 1 .. Len(todo[n]) /\ todo'[n][k] = todo[n][k + 1]
        BY <1>1, <1>3, <3>4
      <4>2. k + 1 = 1
        BY <3>2, <3>4, <4>1
      <4> QED BY <3>4, <4>2
    <3> QED BY <1>5, <2>1, <2>3, <3>3, <3>4
  <2> QED BY <2>2, <2>3
<1>13. BackwardInv'
  <2>1. \A i \in Node : i # n => (i \notin Left' => Backward(i)' = <<>>)
                               /\ Len(Backward(i)') <= 1
    BY <1>1, <1>5 DEF BackwardInv
  <2>2. n \notin Left
    BY <1>1 DEF Left
  <2>3. Backward(n) = <<>>
    BY <2>2 DEF BackwardInv
  <2>4. CASE m.sig = "GOOD_BYE"
    <3>1. n \in Left'
      BY <1>1, <2>4 DEF Left
    <3>2. Len(Backward(n)) = 0
      BY <2>3
    <3>3. Len(Backward(n)') = 1
      BY <1>1, <1>2, <2>4, <3>2, AppendFacts
    <3>4. Len(Backward(n)') <= 1
      BY <3>3
    <3> QED BY <2>1, <3>1, <3>4 DEF BackwardInv
  <2>5. CASE m.sig # "GOOD_BYE"
    <3>1. Backward(n)' = <<>> /\ Len(Backward(n)') = 0
      BY <1>1, <2>3, <2>5
    <3> QED BY <2>1, <3>1 DEF BackwardInv
  <2> QED BY <2>4, <2>5
<1>14. ShortInv'
  <2>1. \A i \in Node : i # n =>
          /\ Len(Onward(i)') <= 2
          /\ pc'[i] = "send" /\ Heard(i)' =>
                \/ Len(Onward(i)') + Len(todo'[i]) <= 2
                \/ todo'[i][1].sig = "GOOD_BYE"
    BY <1>1, <1>5 DEF ShortInv
  <2>2. /\ Len(Onward(n)) <= 2
        /\ Heard(n) => \/ Len(Onward(n)) + Len(todo[n]) <= 2
                       \/ m.sig = "GOOD_BYE"
    BY <1>1 DEF ShortInv
  <2>3. CASE m.sig = "GOOD_BYE"
    <3>1. Len(Onward(n)') <= 2 /\ pc'[n] # "send"
      BY <1>1, <2>2, <2>3
    <3> QED BY <2>1, <3>1 DEF ShortInv
  <2>4. CASE m.sig # "GOOD_BYE"
    <3>1. Len(Onward(n)) + Len(todo[n]) <= 2
      BY <1>1, <2>2, <2>4
    <3>2. Len(Onward(n)') = Len(Onward(n)) + 1 /\ Len(todo'[n]) = Len(todo[n]) - 1
      BY <1>1, <1>3, <1>4, <2>4
    <3>3. \A a, b \in Nat : a + b <= 2 /\ b >= 1 => a + 1 <= 2 /\ (a + 1) + (b - 1) <= 2
      OBVIOUS
    <3>4. Len(Onward(n)) + 1 <= 2 /\ (Len(Onward(n)) + 1) + (Len(todo[n]) - 1) <= 2
      BY <1>2, <1>3, <3>1, <3>3
    <3>5. Len(Onward(n)') <= 2 /\ Len(Onward(n)') + Len(todo'[n]) <= 2
      BY <3>2, <3>4
    <3> QED BY <2>1, <3>5 DEF ShortInv
  <2> QED BY <2>3, <2>4
<1> QED BY <1>7, <1>8, <1>9, <1>11, <1>12, <1>13, <1>14

(* What a read may find, by the state of the shutdown.                     *)
LEMMA ReadPhases ==
  ASSUME RingInv, ShutdownInv, NEW n \in Node, Receive(n), NEW s, s = Received(n)
  PROVE  /\ direction[n] => Onward(n) = <<>>
         /\ Len(readBy) > lines => s # "YOUR_TURN"
         /\ direction[0] => s \in {"YOUR_TURN", "FINISHED_JOB",
                                  "FINISHED_JOB_AFTER_LAST"}
         /\ direction[0] /\ s = "FINISHED_JOB_AFTER_LAST" => n = 0
         /\ s = "FINISHED_JOB" => direction[0] /\ n # 0 /\ ~itsDone[n]
         /\ ~direction[0] /\ direction[n] =>
              s \in {"FINISHED_JOB_AFTER_LAST", "SHOUD_EXIT"}
<1> USE DEF ShutdownInv
<1>1. /\ pc[n] = "recv" /\ s \in SignalType
      /\ direction[n] => /\ Onward(PrevOf(n)) # <<>>
                         /\ Forward(PrevOf(n), s) /\ s # "GOOD_BYE"
      /\ ~direction[n] =>
            s \in {"GOOD_BYE", "FINISHED_JOB_AFTER_LAST", "SHOUD_EXIT"}
  BY ONLY RingInv, ReadersInv, StartInv, n \in Node, Receive(n), s = Received(n),
          ReadFacts, SMT
<1>2. PrevOf(n) \in Node /\ NextOf(PrevOf(n)) = n /\ PrevOf(n) # n /\ 0 \in Node
      /\ (PrevOf(n) = Last <=> n = 0)
  BY NodeFacts
<1>3. direction[0] => direction[n]
  BY TurnedFacts
<1>4. Len(readBy) > lines => s # "YOUR_TURN"
  BY <1>1, <1>2, TurnedFacts DEF Finishing
<1>5. direction[0] => s # "SHOUD_EXIT"
  BY <1>1, <1>2, <1>3 DEF RingInv, RoundInv
<1>6. direction[0] /\ s = "FINISHED_JOB_AFTER_LAST" => n = 0
  BY <1>1, <1>2, <1>3 DEF RingInv, RoundInv
<1>7. s = "FINISHED_JOB" => direction[0]
  BY <1>1, <1>2 DEF FrontierInv
<1>8. s = "FINISHED_JOB" => n # 0 /\ ~itsDone[n]
  <2> SUFFICES ASSUME s = "FINISHED_JOB" PROVE n # 0 /\ ~itsDone[n]
    OBVIOUS
  <2>1. /\ PrevOf(n) # Last
        /\ \A d \in Node : itsDone[d] => d <= PrevOf(n)
    BY <1>1, <1>2 DEF RingInv, FinishedJobInv
  <2>2. n # 0 /\ PrevOf(n) = n - 1 /\ n \in Nat
    BY <1>2, <2>1, NodeFacts
  <2> QED BY <2>1, <2>2
<1>9. direction[n] => Onward(n) = <<>>
  <2> SUFFICES ASSUME direction[n] PROVE Onward(n) = <<>>
    OBVIOUS
  <2>1. CASE ~direction[0]
    BY <2>1 DEF FrontierInv
  <2>2. CASE Len(readBy) > lines /\ direction[0]
    <3>1. PICK t \in Node : \A i \in Node : i # t => Load(i) = 0
      BY <2>2 DEF OneSignalInv
    <3>2. Load(PrevOf(n)) # 0
      BY <1>1, <1>2, WayTypes DEF RingInv
    <3>3. Load(n) = 0
      BY <1>2, <3>1, <3>2
    <3> QED BY <3>3, WayTypes DEF RingInv
  <2>3. CASE Turning
    <3>1. InPipe(NextTurn) /\ NextTurn \in Node
      <4>1. <<PrevOf(n), n>> \in Edge /\ pipe[<<PrevOf(n), n>>] # <<>>
        BY <1>1, <1>2, EdgeFacts DEF Onward
      <4> QED BY <2>3, <4>1, NextTurnType DEF RingInv, Turning, AtNode, Leaving
    <3>2. <<PrevOf(n), n>> = <<PrevOf(NextTurn), NextTurn>>
      BY <1>1, <1>2, <3>1, EdgeFacts DEF InPipe, Onward
    <3>3. <<n, NextOf(n)>> # <<PrevOf(n), n>>
      BY <1>2
    <3> QED BY <3>1, <3>2, <3>3, EdgeFacts DEF InPipe, Onward
  <2>4. Turning \/ Len(readBy) > lines
    <3>1. lines \in Nat
      BY DEF RingInv, TypeOK
    <3> QED BY <3>1 DEF RingInv, PhaseInv, Finishing
  <2> QED BY <2>1, <2>2, <2>3, <2>4
<1>10. ~direction[0] => s # "YOUR_TURN"
  BY <1>4, TurnedFacts
<1> QED BY <1>1, <1>3, <1>4, <1>5, <1>6, <1>7, <1>8, <1>9, <1>10 DEF SignalType

(* After a read the handler's signals are under way as well.               *)
LEMMA ReadForward ==
  ASSUME RingInv, ReadersInv, StartInv,
         NEW n \in Node, Receive(n), NEW s, s = Received(n), s # "YOUR_TURN"
  PROVE  /\ \A i \in Node : \A t \in SignalType :
              Forward(i, t)' => Forward(i, t) \/ (i = n /\ Sends(Reply(n, s), t))
         /\ Sends(Reply(n, s), "FINISHED_JOB") => s = "FINISHED_JOB" /\ n # Last
         /\ Sends(Reply(n, s), "FINISHED_JOB_AFTER_LAST") =>
                s = "FINISHED_JOB_AFTER_LAST" \/ n = Last
<1>1. /\ s \in SignalType /\ todo'[n] = Reply(n, s)
      /\ \A i \in Node \ {n} : pc'[i] = pc[i] /\ todo'[i] = todo[i]
      /\ \A i \in Node : \/ Onward(i)' = Onward(i)
                         \/ Onward(i) # <<>> /\ Onward(i)' = Tail(Onward(i))
  <2> HIDE DEF Node
  <2>1. /\ s \in SignalType /\ todo'[n] = Reply(n, s)
        /\ \A i \in Node \ {n} : pc'[i] = pc[i] /\ todo'[i] = todo[i]
        /\ direction[n] =>
              /\ Onward(PrevOf(n)) # <<>>
              /\ Onward(PrevOf(n))' = Tail(Onward(PrevOf(n)))
              /\ \A i \in Node : i # PrevOf(n) => Onward(i)' = Onward(i)
        /\ ~direction[n] => \A i \in Node : Onward(i)' = Onward(i)
    BY ONLY RingInv, ReadersInv, StartInv, n \in Node, Receive(n), s = Received(n),
            ReadFacts, SMT
  <2>2. CASE direction[n]
    <3>1. ASSUME NEW i \in Node
          PROVE  \/ Onward(i)' = Onward(i)
                 \/ Onward(i) # <<>> /\ Onward(i)' = Tail(Onward(i))
      BY <2>1, <2>2
    <3> QED BY <2>1, <3>1
  <2>3. CASE ~direction[n]
    BY <2>1, <2>3
  <2> QED BY <2>2, <2>3
<1>2. ASSUME NEW i \in Node, NEW t \in SignalType, Holds(Onward(i)', t)
      PROVE  Holds(Onward(i), t)
  <2>1. Onward(i) \in Seq(SignalType)
    BY WayTypes DEF RingInv
  <2>2. CASE Onward(i)' = Onward(i)
    BY <1>2, <2>2
  <2>3. CASE Onward(i) # <<>> /\ Onward(i)' = Tail(Onward(i))
    <3>1. Holds(Tail(Onward(i)), t)
      BY <1>2, <2>3
    <3> QED BY <2>1, <2>3, <3>1, HoldsFacts
  <2> QED BY <1>1, <2>2, <2>3
<1>3. \A i \in Node : \A t \in SignalType :
        Forward(i, t)' => Forward(i, t) \/ (i = n /\ Sends(Reply(n, s), t))
  <2> SUFFICES ASSUME NEW i \in Node, NEW t \in SignalType, Forward(i, t)'
               PROVE  Forward(i, t) \/ (i = n /\ Sends(Reply(n, s), t))
    OBVIOUS
  <2>1. Pending(i, t)' \/ Holds(Onward(i)', t)
    BY DEF Forward, Onward
  <2>2. CASE Holds(Onward(i)', t)
    BY <1>2, <2>2 DEF Forward, Onward
  <2>3. CASE Pending(i, t)' /\ i # n
    BY <1>1, <2>3 DEF Forward, Pending
  <2>4. CASE Pending(i, t)' /\ i = n
    BY <1>1, <2>4 DEF Pending
  <2> QED BY <2>1, <2>2, <2>3, <2>4
<1>4. s \in SignalType \ {"YOUR_TURN"}
  BY <1>1
<1>5. \A t : Sends(Reply(n, s), t) =>
              \/ t = "FINISHED_JOB" /\ s = t /\ n # Last
              \/ t = "FINISHED_JOB_AFTER_LAST" /\ (s = t \/ n = Last)
              \/ t = "SHOUD_EXIT" \/ t = "GOOD_BYE"
  BY <1>4, ReplyFacts
<1> QED BY <1>3, <1>5

(* A read keeps one signal under way before node 0 turns round.            *)
LEMMA ReadOneSignal ==
  ASSUME RingInv, ShutdownInv, NEW n \in Node, Receive(n)
  PROVE  OneSignalInv'
<1> USE DEF ShutdownInv
<1>0. PICK s : s = Received(n)
  OBVIOUS
<1>1. /\ pc[n] = "recv" /\ s \in SignalType /\ todo'[n] = Reply(n, s)
      /\ pc'[n] = (IF s = "YOUR_TURN" THEN "print" ELSE "send")
      /\ direction'[n] <=> direction[n] /\ ~TurnsRound(n, s)
      /\ \A i \in Node \ {n} : /\ pc'[i] = pc[i] /\ todo'[i] = todo[i]
                               /\ direction'[i] = direction[i]
      /\ UNCHANGED <<lines, readBy, itsDone>>
      /\ direction[n] =>
            /\ Onward(PrevOf(n)) # <<>>
            /\ Onward(PrevOf(n))' = Tail(Onward(PrevOf(n)))
            /\ \A i \in Node : i # PrevOf(n) => Onward(i)' = Onward(i)
  BY ONLY RingInv, ReadersInv, StartInv, ShutdownInv, n \in Node, Receive(n),
          <1>0, ReadFacts, SMT
<1> SUFFICES ASSUME Len(readBy) > lines, direction'[0]
             PROVE  \E t \in Node : Load(t)' <= 1
                                   /\ \A i \in Node : i # t => Load(i)' = 0
  BY <1>1 DEF OneSignalInv
<1>2. direction[0] /\ \A i \in Node : direction[i]
  <2>1. direction[0]
    BY <1>1, NodeFacts
  <2> QED BY <2>1, TurnedFacts
<1>3. s = "FINISHED_JOB"
  <2>1. s \in {"FINISHED_JOB", "FINISHED_JOB_AFTER_LAST"}
        /\ (s = "FINISHED_JOB_AFTER_LAST" => n = 0)
    BY <1>0, <1>2, ReadPhases
  <2>2. s # "FINISHED_JOB_AFTER_LAST"
    BY <1>1, <2>1 DEF TurnsRound
  <2> QED BY <2>1, <2>2
<1>4. PICK t \in Node : Load(t) <= 1 /\ \A i \in Node : i # t => Load(i) = 0
  BY <1>2 DEF OneSignalInv
<1> DEFINE p == PrevOf(n)
<1>5. p \in Node /\ p # n
  BY NodeFacts
<1>6. \A i \in Node : /\ Load(i) \in Nat
                      /\ Load(i) = 0 <=> Onward(i) = <<>> /\ pc[i] # "send"
                      /\ Onward(i) \in Seq(SignalType) /\ Len(Onward(i)) \in Nat
                      /\ pc[i] = "send" => Len(todo[i]) \in Nat /\ Len(todo[i]) >= 1
  BY WayTypes DEF RingInv
<1>7. t = p /\ Onward(p) # <<>>
  BY <1>1, <1>2, <1>4, <1>5, <1>6
<1>8. Len(Onward(p)) = 1 /\ pc[p] # "send"
  <2>1. Len(Onward(p)) >= 1
    <3>1. \A q \in Seq(SignalType) : q # <<>> => Len(q) >= 1
      OBVIOUS
    <3> QED BY <1>5, <1>6, <1>7, <3>1
  <2>2. /\ Load(p) <= 1 /\ Len(Onward(p)) \in Nat
        /\ pc[p] = "send" => Len(todo[p]) \in Nat /\ Len(todo[p]) >= 1
    BY <1>4, <1>5, <1>6, <1>7
  <2>3. pc[p] # "send"
    <3> SUFFICES ASSUME pc[p] = "send" PROVE FALSE
      OBVIOUS
    <3>1. Load(p) = Len(Onward(p)) + Len(todo[p])
      BY DEF Load
    <3> QED BY <2>1, <2>2, <3>1
  <2>4. Load(p) = Len(Onward(p)) + 0
    BY <2>3 DEF Load
  <2> QED BY <2>1, <2>2, <2>3, <2>4
<1> HIDE DEF p
<1>9. Len(Onward(p)') = 0 /\ pc'[p] # "send"
  <2>1. Onward(p)' = Tail(Onward(p))
    BY <1>1, <1>2 DEF p
  <2>2. Len(Tail(Onward(p))) = Len(Onward(p)) - 1
    BY <1>5, <1>6, <1>7, QueueFacts
  <2> QED BY <1>1, <1>5, <1>8, <2>1, <2>2
<1>10. Load(p)' = 0
  BY <1>9 DEF Load
<1>11. Load(n)' = 1
  <2>1. Len(todo'[n]) = 1 /\ pc'[n] = "send"
    BY <1>1, <1>3, ReplyLists
  <2>2. Onward(n)' = Onward(n) /\ Onward(n) = <<>>
    BY <1>1, <1>2, <1>4, <1>5, <1>6, <1>7 DEF p
  <2>3. Len(Onward(n)') = 0
    BY <2>2
  <2> QED BY <2>1, <2>3 DEF Load
<1>12. ASSUME NEW i \in Node, i # n, i # p PROVE Load(i)' = 0
  <2>1. Onward(i)' = Onward(i) /\ pc'[i] = pc[i] /\ todo'[i] = todo[i]
    BY <1>1, <1>2, <1>12 DEF p
  <2>2. Load(i) = 0
    BY <1>4, <1>7, <1>12
  <2> QED BY <2>1, <2>2 DEF Load
<1>13. Load(n)' <= 1
  BY <1>11
<1> QED BY <1>10, <1>12, <1>13

(* When node 0 turns round the others wait with empty pipes.               *)
LEMMA TurnOfFirst ==
  ASSUME RingInv, ShutdownInv, Receive(0), direction[0], ~direction'[0]
  PROVE  /\ Received(0) = "FINISHED_JOB_AFTER_LAST"
         /\ \A i \in Node : i # 0 => pc[i] = "recv"
         /\ \A i \in Node : Onward(i)' = <<>>
         /\ \A i \in Node : ~Forward(i, "FINISHED_JOB")
         /\ \E d \in Node : itsDone[d]
<1> USE DEF ShutdownInv
<1>0. PICK s : s = Received(0)
  OBVIOUS
<1>1. /\ 0 \in Node /\ Last \in Node /\ PrevOf(0) = Last /\ Last # 0
      /\ NextOf(Last) = 0
  BY NodeFacts
<1>2. /\ direction'[0] <=> direction[0] /\ ~TurnsRound(0, s)
      /\ Onward(Last) # <<>> /\ s = Head(Onward(Last))
      /\ Onward(Last)' = Tail(Onward(Last))
      /\ \A i \in Node : i # Last => Onward(i)' = Onward(i)
      /\ Forward(Last, s)
  <2>1. /\ direction'[0] <=> direction[0] /\ ~TurnsRound(0, s)
        /\ direction[0] =>
              /\ Onward(PrevOf(0)) # <<>> /\ s = Head(Onward(PrevOf(0)))
              /\ Onward(PrevOf(0))' = Tail(Onward(PrevOf(0)))
              /\ \A i \in Node : i # PrevOf(0) => Onward(i)' = Onward(i)
              /\ Forward(PrevOf(0), s)
    BY ONLY RingInv, ReadersInv, StartInv, ShutdownInv, <1>1, Receive(0),
          <1>0, ReadFacts, SMT
  <2> QED BY <1>1, <2>1
<1>3. s = "FINISHED_JOB_AFTER_LAST"
  <2>1. /\ s \in {"YOUR_TURN", "FINISHED_JOB", "FINISHED_JOB_AFTER_LAST"}
        /\ s # "FINISHED_JOB"
    BY <1>0, <1>1, ReadPhases
  <2> QED BY <1>2, <2>1 DEF TurnsRound
<1>4. \A i \in Node : direction[i] /\ i \notin Left
  BY TurnedFacts
<1>5. Finishing /\ Len(readBy) > lines
  <2>1. ~Turning
    <3>1. s = "YOUR_TURN" \/ ~Turning
      <4> SUFFICES ASSUME Turning PROVE s = "YOUR_TURN"
        OBVIOUS
      <4>1. <<Last, 0>> \in Edge /\ pipe[<<Last, 0>>] # <<>>
        BY <1>1, <1>2, EdgeFacts DEF Onward
      <4>2. InPipe(NextTurn) /\ NextTurn \in Node
        BY <4>1, NextTurnType DEF RingInv, Turning, AtNode, Leaving
      <4>3. <<Last, 0>> = <<PrevOf(NextTurn), NextTurn>>
        BY <4>1, <4>2 DEF InPipe
      <4>4. Onward(Last) = <<"YOUR_TURN">>
        BY <1>1, <4>2, <4>3, Zenon DEF InPipe, Onward
      <4> QED BY <1>2, <4>4
    <3> QED BY <1>3, <3>1
  <2>2. Finishing
    BY <2>1 DEF RingInv, PhaseInv
  <2>3. lines \in Nat
    BY DEF RingInv, TypeOK
  <2> QED BY <2>2, <2>3 DEF Finishing
<1>6. PICK t \in Node : Load(t) <= 1 /\ \A i \in Node : i # t => Load(i) = 0
  BY <1>5 DEF OneSignalInv
<1>7. \A i \in Node : /\ Load(i) \in Nat
                      /\ Load(i) = 0 <=> Onward(i) = <<>> /\ pc[i] # "send"
                      /\ Onward(i) \in Seq(SignalType) /\ Len(Onward(i)) \in Nat
                      /\ pc[i] = "send" => Len(todo[i]) \in Nat /\ Len(todo[i]) >= 1
  BY WayTypes DEF RingInv
<1>8. t = Last
  BY <1>1, <1>2, <1>6, <1>7
<1>9. Len(Onward(Last)) = 1 /\ pc[Last] # "send"
  <2>1. Len(Onward(Last)) >= 1
    <3>1. \A q \in Seq(SignalType) : q # <<>> => Len(q) >= 1
      OBVIOUS
    <3> QED BY <1>1, <1>2, <1>7, <3>1
  <2>2. /\ Load(Last) <= 1 /\ Len(Onward(Last)) \in Nat
        /\ pc[Last] = "send" => Len(todo[Last]) \in Nat /\ Len(todo[Last]) >= 1
    BY <1>1, <1>6, <1>7, <1>8
  <2>3. pc[Last] # "send"
    <3> SUFFICES ASSUME pc[Last] = "send" PROVE FALSE
      OBVIOUS
    <3>1. Load(Last) = Len(Onward(Last)) + Len(todo[Last])
      BY DEF Load
    <3> QED BY <2>1, <2>2, <3>1
  <2>4. Load(Last) = Len(Onward(Last)) + 0
    BY <2>3 DEF Load
  <2> QED BY <2>1, <2>2, <2>3, <2>4
<1>10. Onward(Last)' = <<>>
  <2>1. /\ Tail(Onward(Last)) \in Seq(SignalType)
        /\ Len(Tail(Onward(Last))) = Len(Onward(Last)) - 1
    BY <1>1, <1>2, <1>7, QueueFacts
  <2>2. \A q \in Seq(SignalType) : Len(q) = 0 => q = <<>>
    OBVIOUS
  <2>3. Len(Tail(Onward(Last))) = 0
    BY <1>9, <2>1
  <2> QED BY <1>2, <2>1, <2>2, <2>3
<1>11. \A i \in Node : i # Last => Onward(i)' = <<>> /\ pc[i] # "send"
  BY <1>2, <1>6, <1>7, <1>8
<1>12. \A i \in Node : pc[i] \notin Starting
  BY <1>1, <1>2, <1>3 DEF StartInv
<1>13. \A i \in Node : pc[i] # "send" /\ pc[i] # "print"
  BY <1>5, <1>9, <1>11 DEF Finishing
<1>14. \A i \in Node : i # 0 => pc[i] = "recv"
  <2>1. \A i \in Node : pc[i] \in PC
    BY DEF RingInv, TypeOK
  <2> QED BY <1>4, <1>12, <1>13, <2>1 DEF PC, Starting, Left
<1>15. ASSUME NEW i \in Node PROVE ~Forward(i, "FINISHED_JOB")
  <2>1. CASE i # Last
    <3>1. Onward(i) = <<>> /\ pc[i] # "send"
      BY <1>6, <1>7, <1>8, <2>1
    <3> QED BY <3>1, EmptyHolds DEF Forward, Pending, Onward
  <2>2. CASE i = Last
    BY <1>1, <2>2 DEF RingInv, FinishedJobInv
  <2> QED BY <2>1, <2>2
<1> QED BY <1>0, <1>3, <1>5, <1>10, <1>11, <1>14, <1>15 DEF OneSignalInv

(* A read leaves who is still starting alone.                              *)
LEMMA ReadStart ==
  ASSUME RingInv, ShutdownInv, NEW n \in Node, Receive(n)
  PROVE  ReadersInv' /\ StartInv'
<1> USE DEF ShutdownInv
<1>0. PICK s : s = Received(n)
  OBVIOUS
<1>1. /\ pc[n] = "recv" /\ s \in SignalType /\ todo'[n] = Reply(n, s)
      /\ pc'[n] = (IF s = "YOUR_TURN" THEN "print" ELSE "send")
      /\ direction'[n] <=> direction[n] /\ ~TurnsRound(n, s)
      /\ \A i \in Node \ {n} : /\ pc'[i] = pc[i] /\ todo'[i] = todo[i]
                               /\ direction'[i] = direction[i]
      /\ UNCHANGED <<lines, readBy, rd, itsDone>>
      /\ direction[n] =>
            /\ Onward(PrevOf(n)) # <<>> /\ s = Head(Onward(PrevOf(n)))
            /\ Onward(PrevOf(n))' = Tail(Onward(PrevOf(n)))
            /\ \A i \in Node : i # PrevOf(n) => Onward(i)' = Onward(i)
            /\ \A i \in Node : Backward(i)' = Backward(i)
            /\ Forward(PrevOf(n), s)
      /\ ~direction[n] =>
            /\ n # Last /\ s \in {"GOOD_BYE", "FINISHED_JOB_AFTER_LAST",
                                  "SHOUD_EXIT"}
            /\ s # "GOOD_BYE" => ~Heard(n)
            /\ \A i \in Node : Onward(i)' = Onward(i)
            /\ \A i \in Node : \/ Backward(i)' = Backward(i)
                               \/ Backward(i) # <<>> /\ Backward(i)' = Tail(Backward(i))
  BY ONLY RingInv, ReadersInv, StartInv, ShutdownInv, n \in Node, Receive(n),
          <1>0, ReadFacts, SMT
<1>2. /\ direction[n] => Onward(n) = <<>>
      /\ direction[0] => s \in {"YOUR_TURN", "FINISHED_JOB",
                               "FINISHED_JOB_AFTER_LAST"}
      /\ direction[0] /\ s = "FINISHED_JOB_AFTER_LAST" => n = 0
      /\ s = "FINISHED_JOB" => direction[0] /\ n # 0 /\ ~itsDone[n]
      /\ ~direction[0] /\ direction[n] =>
           s \in {"FINISHED_JOB_AFTER_LAST", "SHOUD_EXIT"}
      /\ Len(readBy) > lines => s # "YOUR_TURN"
  BY ONLY RingInv, ShutdownInv, n \in Node, Receive(n), <1>0, ReadPhases, SMT
<1>3. s # "YOUR_TURN" =>
        /\ \A i \in Node : \A t \in SignalType :
              Forward(i, t)' => Forward(i, t) \/ (i = n /\ Sends(Reply(n, s), t))
        /\ Sends(Reply(n, s), "FINISHED_JOB") => s = "FINISHED_JOB" /\ n # Last
        /\ Sends(Reply(n, s), "FINISHED_JOB_AFTER_LAST") =>
                s = "FINISHED_JOB_AFTER_LAST" \/ n = Last
  BY ONLY RingInv, ReadersInv, StartInv, ShutdownInv, n \in Node, Receive(n),
          <1>0, ReadForward, SMT
<1>4. \A i \in Node : /\ pc'[i] \in Starting <=> pc[i] \in Starting
                      /\ Ended(i)' <=> Ended(i)
  BY <1>1 DEF Starting, Ended
<1>5. ReadersInv'
  <2>1. \A e \in Edge : rd[e] \subseteq Node
    BY DEF RingInv, TypeOK
  <2> QED BY <1>1, <1>4, <2>1 DEF ReadersInv
<1>6. StartInv'
  <2> SUFFICES ASSUME NEW i \in Node, pc[i] \in Starting
               PROVE  /\ Len(readBy) <= i
                      /\ \A m \in Node : m >= i => ~Forward(m, "FINISHED_JOB")'
                      /\ \A m \in Node : ~Forward(m, "FINISHED_JOB_AFTER_LAST")'
                      /\ direction'[0]
    BY <1>1, <1>4 DEF StartInv
  <2>1. /\ Len(readBy) <= i
        /\ \A m \in Node : m >= i => ~Forward(m, "FINISHED_JOB")
        /\ \A m \in Node : ~Forward(m, "FINISHED_JOB_AFTER_LAST")
        /\ direction[0] /\ direction[n]
    BY TurnedFacts DEF StartInv
  <2>2. PrevOf(n) \in Node /\ i # n
    BY <1>1, NodeFacts DEF Starting
  <2>3. s \in {"YOUR_TURN", "FINISHED_JOB"}
    BY <1>1, <1>2, <2>1, <2>2
  <2>4. direction'[0]
    <3>1. ~TurnsRound(n, s) /\ 0 \in Node
      BY <1>2, <2>3, NodeFacts DEF TurnsRound
    <3> QED BY <1>1, <2>1, <3>1
  <2>5. CASE s = "YOUR_TURN"
    <3>1. \A m \in Node : pc'[m] = "send" => pc[m] = "send" /\ todo'[m] = todo[m]
      BY <1>1, <2>5
    <3>2. ASSUME NEW m \in Node, NEW t, Forward(m, t)' PROVE Forward(m, t)
      <4>1. CASE Pending(m, t)'
        BY <3>1, <4>1 DEF Pending, Forward
      <4>2. CASE Holds(Onward(m)', t)
        <5>1. CASE m # PrevOf(n)
          BY <1>1, <2>1, <4>2, <5>1 DEF Forward, Onward
        <5>2. CASE m = PrevOf(n)
          <6>1. Onward(m) \in Seq(SignalType) /\ Onward(m) # <<>>
            BY <1>1, <2>1, <5>2, WayTypes DEF RingInv
          <6>2. Holds(Tail(Onward(m)), t)
            BY <1>1, <2>1, <4>2, <5>2
          <6> QED BY <6>1, <6>2, HoldsFacts DEF Forward, Onward
        <5> QED BY <5>1, <5>2
      <4> QED BY <3>2, <4>1, <4>2 DEF Forward, Onward
    <3> QED BY <2>1, <2>4, <3>2
  <2>6. CASE s = "FINISHED_JOB"
    <3>1. PrevOf(n) < i
      BY <1>1, <2>1, <2>2, <2>6, NodeFacts
    <3>2. n # 0 /\ PrevOf(n) = n - 1 /\ n < i
      BY <1>2, <2>2, <2>6, <3>1, NodeFacts
    <3>3. n # Last
      BY <3>2, NodeAssumption DEF Node, Last
    <3>4. {"FINISHED_JOB", "FINISHED_JOB_AFTER_LAST"} \subseteq SignalType
      BY DEF SignalType
    <3>5. ~Sends(Reply(n, s), "FINISHED_JOB_AFTER_LAST")
      BY <1>3, <2>6, <3>3
    <3>6. \A m \in Node : m >= i => m # n
      BY <3>2, NodeFacts
    <3> QED BY <1>3, <2>1, <2>4, <2>6, <3>4, <3>5, <3>6
  <2> QED BY <2>3, <2>5, <2>6
<1> QED BY <1>5, <1>6

(* A read moves the frontier by one node.                                  *)
LEMMA ReadFrontier ==
  ASSUME RingInv, ShutdownInv, NEW n \in Node, Receive(n)
  PROVE  FrontierInv'
<1> USE DEF ShutdownInv
<1>0. PICK s : s = Received(n)
  OBVIOUS
<1>1. /\ pc[n] = "recv" /\ s \in SignalType /\ todo'[n] = Reply(n, s)
      /\ pc'[n] = (IF s = "YOUR_TURN" THEN "print" ELSE "send")
      /\ direction'[n] <=> direction[n] /\ ~TurnsRound(n, s)
      /\ \A i \in Node \ {n} : /\ pc'[i] = pc[i] /\ todo'[i] = todo[i]
                               /\ direction'[i] = direction[i]
      /\ UNCHANGED <<lines, readBy, rd, itsDone>>
      /\ direction[n] =>
            /\ Onward(PrevOf(n)) # <<>> /\ s = Head(Onward(PrevOf(n)))
            /\ Onward(PrevOf(n))' = Tail(Onward(PrevOf(n)))
            /\ \A i \in Node : i # PrevOf(n) => Onward(i)' = Onward(i)
            /\ \A i \in Node : Backward(i)' = Backward(i)
            /\ Forward(PrevOf(n), s)
      /\ ~direction[n] =>
            /\ n # Last /\ s \in {"GOOD_BYE", "FINISHED_JOB_AFTER_LAST",
                                  "SHOUD_EXIT"}
            /\ s # "GOOD_BYE" => ~Heard(n)
            /\ \A i \in Node : Onward(i)' = Onward(i)
            /\ \A i \in Node : \/ Backward(i)' = Backward(i)
                               \/ Backward(i) # <<>> /\ Backward(i)' = Tail(Backward(i))
  BY ONLY RingInv, ReadersInv, StartInv, ShutdownInv, n \in Node, Receive(n),
          <1>0, ReadFacts, SMT
<1>2. /\ direction[n] => Onward(n) = <<>>
      /\ direction[0] => s \in {"YOUR_TURN", "FINISHED_JOB",
                               "FINISHED_JOB_AFTER_LAST"}
      /\ direction[0] /\ s = "FINISHED_JOB_AFTER_LAST" => n = 0
      /\ s = "FINISHED_JOB" => direction[0] /\ n # 0 /\ ~itsDone[n]
      /\ ~direction[0] /\ direction[n] =>
           s \in {"FINISHED_JOB_AFTER_LAST", "SHOUD_EXIT"}
      /\ Len(readBy) > lines => s # "YOUR_TURN"
  BY ONLY RingInv, ShutdownInv, n \in Node, Receive(n), <1>0, ReadPhases, SMT
<1>3. s # "YOUR_TURN" =>
        /\ \A i \in Node : \A t \in SignalType :
              Forward(i, t)' => Forward(i, t) \/ (i = n /\ Sends(Reply(n, s), t))
        /\ Sends(Reply(n, s), "FINISHED_JOB") => s = "FINISHED_JOB" /\ n # Last
        /\ Sends(Reply(n, s), "FINISHED_JOB_AFTER_LAST") =>
                s = "FINISHED_JOB_AFTER_LAST" \/ n = Last
  BY ONLY RingInv, ReadersInv, StartInv, ShutdownInv, n \in Node, Receive(n),
          <1>0, ReadForward, SMT
<1> SUFFICES ASSUME ~direction'[0]
             PROVE  /\ \A i \in Node : ~Forward(i, "FINISHED_JOB")'
                    /\ \A i \in Node : direction'[i] =>
                          /\ Onward(i)' = <<>>
                          /\ \A m \in Node : m > i => direction'[m] /\ pc'[m] = "recv"
                          /\ i # Last => pc'[i] = "recv"
                          /\ pc'[i] = "send" => todo'[i] = <<ToPrev(i, "GOOD_BYE")>>
  BY DEF FrontierInv
<1>4. 0 \in Node /\ "FINISHED_JOB" \in SignalType
  BY NodeFacts DEF SignalType
<1>5. CASE direction[0]
  <2>1. n = 0
    BY <1>1, <1>4, <1>5
  <2>2. /\ s = "FINISHED_JOB_AFTER_LAST"
        /\ \A i \in Node : i # 0 => pc[i] = "recv"
        /\ \A i \in Node : Onward(i)' = <<>>
        /\ \A i \in Node : ~Forward(i, "FINISHED_JOB")
    BY <1>0, <1>5, <2>1, TurnOfFirst
  <2>3. \A i \in Node : direction[i]
    BY <1>5, TurnedFacts
  <2>4. \A i \in Node : i # 0 => direction'[i] /\ pc'[i] = "recv"
    BY <1>1, <2>1, <2>2, <2>3
  <2>5. \A i \in Node : ~Forward(i, "FINISHED_JOB")'
    BY <1>3, <1>4, <2>2
  <2>6. \A i, m \in Node : m > i => m # 0
    BY NodeFacts
  <2> QED BY <2>2, <2>4, <2>5, <2>6
<1>6. CASE ~direction[0]
  <2>1. s # "YOUR_TURN" /\ s # "FINISHED_JOB"
    BY <1>2, <1>6, TurnedFacts
  <2>2. \A i \in Node : ~Forward(i, "FINISHED_JOB")'
    BY <1>3, <1>4, <1>6, <2>1 DEF FrontierInv
  <2> SUFFICES ASSUME NEW i \in Node, direction'[i]
               PROVE  /\ Onward(i)' = <<>>
                      /\ \A m \in Node : m > i => direction'[m] /\ pc'[m] = "recv"
                      /\ i # Last => pc'[i] = "recv"
                      /\ pc'[i] = "send" => todo'[i] = <<ToPrev(i, "GOOD_BYE")>>
    BY <2>2
  <2>3. direction[i]
    BY <1>1
  <2>4. /\ Onward(i) = <<>>
        /\ \A m \in Node : m > i => direction[m] /\ pc[m] = "recv"
        /\ i # Last => pc[i] = "recv"
        /\ pc[i] = "send" => todo[i] = <<ToPrev(i, "GOOD_BYE")>>
    BY <1>6, <2>3 DEF FrontierInv
  (* What n reads comes from a node that has turned.                       *)
  <2>5. ~(n > i)
    <3> SUFFICES ASSUME n > i PROVE FALSE
      OBVIOUS
    <3>1. direction[n] /\ Onward(PrevOf(n)) # <<>>
      BY <1>1, <2>4
    <3>2. PrevOf(n) \in Node /\ PrevOf(n) = n - 1 /\ n \in Nat /\ i \in Nat
      BY NodeFacts
    <3>3. PrevOf(n) = i \/ PrevOf(n) > i
      BY <3>2
    <3>4. direction[PrevOf(n)]
      BY <2>3, <2>4, <3>2, <3>3
    <3> QED BY <1>6, <3>1, <3>2, <3>4 DEF FrontierInv
  <2>6. Onward(i)' = <<>>
    BY <1>1, <2>4
  <2>7. \A m \in Node : m > i => direction'[m] /\ pc'[m] = "recv"
    BY <1>1, <2>4, <2>5
  <2>8. CASE i # n
    BY <1>1, <2>4, <2>6, <2>7, <2>8
  <2>9. CASE i = n
    <3>1. s = "SHOUD_EXIT" /\ n = Last
      BY <1>1, <1>2, <1>6, <2>3, <2>9, NodeFacts DEF TurnsRound
    <3>2. todo'[n] = <<ToPrev(n, "GOOD_BYE")>>
      BY <1>1, <3>1, ReplyLists
    <3> QED BY <2>6, <2>7, <2>9, <3>1, <3>2
  <2> QED BY <2>8, <2>9
<1> QED BY <1>5, <1>6

(* A read passes FINISHED_JOB_AFTER_LAST on to a node that waits for it.   *)
LEMMA ReadAfterLast ==
  ASSUME RingInv, ShutdownInv, FrontierInv', NEW n \in Node, Receive(n)
  PROVE  AfterLastInv'
<1> USE DEF ShutdownInv
<1>0. PICK s : s = Received(n)
  OBVIOUS
<1>1. /\ pc[n] = "recv" /\ s \in SignalType /\ todo'[n] = Reply(n, s)
      /\ pc'[n] = (IF s = "YOUR_TURN" THEN "print" ELSE "send")
      /\ direction'[n] <=> direction[n] /\ ~TurnsRound(n, s)
      /\ \A i \in Node \ {n} : /\ pc'[i] = pc[i] /\ todo'[i] = todo[i]
                               /\ direction'[i] = direction[i]
      /\ UNCHANGED <<lines, readBy, rd, itsDone>>
      /\ direction[n] =>
            /\ Onward(PrevOf(n)) # <<>> /\ s = Head(Onward(PrevOf(n)))
            /\ Onward(PrevOf(n))' = Tail(Onward(PrevOf(n)))
            /\ \A i \in Node : i # PrevOf(n) => Onward(i)' = Onward(i)
            /\ \A i \in Node : Backward(i)' = Backward(i)
            /\ Forward(PrevOf(n), s)
      /\ ~direction[n] =>
            /\ n # Last /\ s \in {"GOOD_BYE", "FINISHED_JOB_AFTER_LAST",
                                  "SHOUD_EXIT"}
            /\ s # "GOOD_BYE" => ~Heard(n)
            /\ \A i \in Node : Onward(i)' = Onward(i)
            /\ \A i \in Node : \/ Backward(i)' = Backward(i)
                               \/ Backward(i) # <<>> /\ Backward(i)' = Tail(Backward(i))
  BY ONLY RingInv, ReadersInv, StartInv, ShutdownInv, n \in Node, Receive(n),
          <1>0, ReadFacts, SMT
<1>2. /\ direction[n] => Onward(n) = <<>>
      /\ direction[0] => s \in {"YOUR_TURN", "FINISHED_JOB",
                               "FINISHED_JOB_AFTER_LAST"}
      /\ direction[0] /\ s = "FINISHED_JOB_AFTER_LAST" => n = 0
      /\ s = "FINISHED_JOB" => direction[0] /\ n # 0 /\ ~itsDone[n]
      /\ ~direction[0] /\ direction[n] =>
           s \in {"FINISHED_JOB_AFTER_LAST", "SHOUD_EXIT"}
      /\ Len(readBy) > lines => s # "YOUR_TURN"
  BY ONLY RingInv, ShutdownInv, n \in Node, Receive(n), <1>0, ReadPhases, SMT
<1>3. s # "YOUR_TURN" =>
        /\ \A i \in Node : \A t \in SignalType :
              Forward(i, t)' => Forward(i, t) \/ (i = n /\ Sends(Reply(n, s), t))
        /\ Sends(Reply(n, s), "FINISHED_JOB") => s = "FINISHED_JOB" /\ n # Last
        /\ Sends(Reply(n, s), "FINISHED_JOB_AFTER_LAST") =>
                s = "FINISHED_JOB_AFTER_LAST" \/ n = Last
  BY ONLY RingInv, ReadersInv, StartInv, ShutdownInv, n \in Node, Receive(n),
          <1>0, ReadForward, SMT
<1> DEFINE FJ == "FINISHED_JOB_AFTER_LAST"
<1>4. /\ 0 \in Node /\ 0 + 1 = 1 /\ FJ \in SignalType
      /\ PrevOf(n) \in Node /\ NextOf(PrevOf(n)) = n /\ PrevOf(n) # n
      /\ NextOf(n) \in Node /\ NextOf(n) # n
  BY NodeFacts DEF SignalType
<1>5. /\ Len(todo'[n]) \in Nat
      /\ s = "GOOD_BYE" => \A k \in 1 .. Len(todo'[n]) : todo'[n][k].sig # FJ
      /\ \A k \in 1 .. Len(todo'[n]) : todo'[n][k].sig = FJ =>
            \/ s = FJ /\ k = 1 /\ ~itsDone[n]
            \/ s = "FINISHED_JOB" /\ n = Last
  BY <1>1, ReplyLists
<1> SUFFICES ASSUME ~direction'[0], NEW i \in Node
             PROVE  /\ \A k \in 1 .. Len(Onward(i)') :
                          Onward(i)'[k] = FJ => k = 1 /\ Awaited(i)'
                    /\ pc'[i] = "send" /\ Heard(i)' =>
                          \A k \in 1 .. Len(todo'[i]) : todo'[i][k].sig = FJ =>
                              k = 1 /\ Onward(i)' = <<>> /\ Awaited(i)'
  BY DEF AfterLastInv
<1>6. \A q \in Seq(SignalType) : Len(q) = 0 => q = <<>>
  OBVIOUS
<1>7. CASE direction[0]
  <2>1. n = 0
    BY <1>1, <1>4, <1>7
  <2>2. /\ s = FJ
        /\ \A j \in Node : j # 0 => pc[j] = "recv"
        /\ \A j \in Node : Onward(j)' = <<>>
        /\ \E d \in Node : itsDone[d]
    BY <1>0, <1>7, <2>1, TurnOfFirst
  <2>3. \A j \in Node : direction[j]
    BY <1>7, TurnedFacts
  <2>4. \A k \in 1 .. Len(Onward(i)') : FALSE
    BY <2>2
  <2>5. CASE i # 0
    BY <1>1, <2>1, <2>2, <2>4, <2>5
  <2>6. CASE i = 0
    <3> SUFFICES ASSUME NEW k \in 1 .. Len(todo'[0]), todo'[0][k].sig = FJ
                 PROVE  k = 1 /\ Awaited(0)'
      BY <2>2, <2>4, <2>6
    <3>1. k = 1 /\ ~itsDone[0]
      BY <1>5, <2>1, <2>2
    <3>2. PICK d \in Node : itsDone[d]
      BY <2>2
    <3>3. d > 0
      BY <3>1, <3>2, NodeFacts
    <3>4. direction'[NextOf(0)] /\ pc'[NextOf(0)] = "recv"
      BY <1>1, <1>4, <2>1, <2>2, <2>3
    <3> QED BY <1>1, <3>1, <3>2, <3>3, <3>4 DEF Awaited
  <2> QED BY <2>5, <2>6
<1>8. CASE ~direction[0]
  <2> DEFINE p == PrevOf(n)
  <2>0. s # "FINISHED_JOB"
    BY <1>2, <1>8
  <2>1. /\ \A k \in 1 .. Len(Onward(i)) : Onward(i)[k] = FJ => k = 1 /\ Awaited(i)
        /\ pc[i] = "send" /\ Heard(i) =>
              \A k \in 1 .. Len(todo[i]) : todo[i][k].sig = FJ =>
                  k = 1 /\ Onward(i) = <<>> /\ Awaited(i)
    BY <1>8 DEF AfterLastInv
  (* Who waits for another node's signal goes on waiting.                  *)
  <2>2. \A j \in Node : Awaited(j) /\ NextOf(j) # n => Awaited(j)'
    BY <1>1, NodeFacts DEF Awaited
  <2>3. Heard(i)' <=> Heard(i)
    BY <1>1 DEF Heard
  <2>4. CASE direction[n]
    <3>1. CASE i = p
      <4>1. /\ Onward(p) \in Seq(SignalType) /\ Onward(p) # <<>>
            /\ Onward(p)' = Tail(Onward(p))
            /\ pc'[p] = pc[p] /\ todo'[p] = todo[p]
        BY <1>1, <1>4, <2>4, WayTypes DEF RingInv
      <4>2. /\ Len(Onward(p)') = Len(Onward(p)) - 1 /\ Len(Onward(p)) \in Nat
            /\ \A k \in 1 .. Len(Onward(p)') :
                  Onward(p)'[k] = Onward(p)[k + 1] /\ k + 1 \in 1 .. Len(Onward(p))
                  /\ k + 1 # 1
        BY <4>1
      <4>3. \A k \in 1 .. Len(Onward(p)') : Onward(p)'[k] # FJ
        BY <2>1, <3>1, <4>2
      <4> QED BY <2>1, <2>3, <3>1, <4>1, <4>3
    <3>2. CASE i = n
      <4>1. Onward(n)' = <<>> /\ pc'[n] \in {"print", "send"}
        BY <1>1, <1>2, <1>4, <2>4
      <4> SUFFICES ASSUME NEW k \in 1 .. Len(todo'[n]), todo'[n][k].sig = FJ
                   PROVE  k = 1 /\ Awaited(n)'
        BY <3>2, <4>1
      <4>2. k = 1 /\ s = FJ /\ ~itsDone[n]
        BY <1>5, <2>0
      <4>3. Awaited(p)
        <5>1. Onward(p) \in Seq(SignalType) /\ Onward(p) # <<>> /\ s = Head(Onward(p))
          BY <1>1, <1>4, <2>4, WayTypes DEF RingInv
        <5>2. 1 \in 1 .. Len(Onward(p)) /\ Onward(p)[1] = FJ
          BY <4>2, <5>1
        <5> QED BY <1>4, <1>8, <5>2 DEF AfterLastInv
      <4>4. n # 0
        BY <1>8, <2>4
      <4>5. PICK d \in Node : d > p /\ itsDone[d]
        BY <4>3 DEF Awaited
      <4>6. d > n
        <5>1. p = n - 1 /\ n \in Nat /\ d \in Nat /\ d # n
          BY <4>2, <4>4, <4>5, NodeFacts
        <5> QED BY <4>5, <5>1
      <4>7. n # Last /\ NextOf(n) > n
        BY <4>6, NodeFacts, NodeAssumption DEF Node, Last, NextOf
      <4>8. direction[NextOf(n)] /\ pc[NextOf(n)] = "recv"
        BY <1>4, <1>8, <2>4, <4>7 DEF FrontierInv
      <4>9. Awaited(n)'
        BY <1>1, <1>4, <4>5, <4>6, <4>8 DEF Awaited
      <4> QED BY <4>2, <4>9
    <3>3. CASE i # p /\ i # n
      <4>1. NextOf(i) # n /\ Onward(i)' = Onward(i)
            /\ pc'[i] = pc[i] /\ todo'[i] = todo[i]
        BY <1>1, <2>4, <3>3, NodeFacts
      <4> QED BY <2>1, <2>2, <2>3, <4>1
    <3> QED BY <3>1, <3>2, <3>3
  <2>5. CASE ~direction[n]
    <3>1. \A j \in Node : NextOf(j) = n => ~Awaited(j)
      BY <2>5 DEF Awaited
    <3>2. \A k \in 1 .. Len(Onward(i)') :
             Onward(i)'[k] = FJ => k = 1 /\ Awaited(i)'
      BY <1>1, <2>1, <2>2, <2>5, <3>1
    <3>3. CASE i # n
      BY <1>1, <2>1, <2>2, <2>3, <2>5, <3>1, <3>2, <3>3
    <3>4. CASE i = n
      BY <1>1, <1>5, <2>3, <2>5, <3>2, <3>4
    <3> QED BY <3>3, <3>4
  <2> QED BY <2>4, <2>5
<1> QED BY <1>7, <1>8

(* A read lengthens no pipe, and the list of a node that is heard fits.    *)
LEMMA ReadShort ==
  ASSUME RingInv, ShutdownInv, NEW n \in Node, Receive(n)
  PROVE  BackwardInv' /\ ShortInv'
<1> USE DEF ShutdownInv
<1>0. PICK s : s = Received(n)
  OBVIOUS
<1>1. /\ pc[n] = "recv" /\ s \in SignalType /\ todo'[n] = Reply(n, s)
      /\ pc'[n] = (IF s = "YOUR_TURN" THEN "print" ELSE "send")
      /\ direction'[n] <=> direction[n] /\ ~TurnsRound(n, s)
      /\ \A i \in Node \ {n} : /\ pc'[i] = pc[i] /\ todo'[i] = todo[i]
                               /\ direction'[i] = direction[i]
      /\ UNCHANGED <<lines, readBy, rd, itsDone>>
      /\ direction[n] =>
            /\ Onward(PrevOf(n)) # <<>> /\ s = Head(Onward(PrevOf(n)))
            /\ Onward(PrevOf(n))' = Tail(Onward(PrevOf(n)))
            /\ \A i \in Node : i # PrevOf(n) => Onward(i)' = Onward(i)
            /\ \A i \in Node : Backward(i)' = Backward(i)
            /\ Forward(PrevOf(n), s)
      /\ ~direction[n] =>
            /\ n # Last /\ s \in {"GOOD_BYE", "FINISHED_JOB_AFTER_LAST",
                                  "SHOUD_EXIT"}
            /\ s # "GOOD_BYE" => ~Heard(n)
            /\ \A i \in Node : Onward(i)' = Onward(i)
            /\ \A i \in Node : \/ Backward(i)' = Backward(i)
                               \/ Backward(i) # <<>> /\ Backward(i)' = Tail(Backward(i))
  BY ONLY RingInv, ReadersInv, StartInv, ShutdownInv, n \in Node, Receive(n),
          <1>0, ReadFacts, SMT
<1>2. /\ direction[n] => Onward(n) = <<>>
      /\ direction[0] => s \in {"YOUR_TURN", "FINISHED_JOB",
                               "FINISHED_JOB_AFTER_LAST"}
      /\ direction[0] /\ s = "FINISHED_JOB_AFTER_LAST" => n = 0
      /\ s = "FINISHED_JOB" => direction[0] /\ n # 0 /\ ~itsDone[n]
      /\ ~direction[0] /\ direction[n] =>
           s \in {"FINISHED_JOB_AFTER_LAST", "SHOUD_EXIT"}
      /\ Len(readBy) > lines => s # "YOUR_TURN"
  BY ONLY RingInv, ShutdownInv, n \in Node, Receive(n), <1>0, ReadPhases, SMT
<1>3. s # "YOUR_TURN" =>
        /\ \A i \in Node : \A t \in SignalType :
              Forward(i, t)' => Forward(i, t) \/ (i = n /\ Sends(Reply(n, s), t))
        /\ Sends(Reply(n, s), "FINISHED_JOB") => s = "FINISHED_JOB" /\ n # Last
        /\ Sends(Reply(n, s), "FINISHED_JOB_AFTER_LAST") =>
                s = "FINISHED_JOB_AFTER_LAST" \/ n = Last
  BY ONLY RingInv, ReadersInv, StartInv, ShutdownInv, n \in Node, Receive(n),
          <1>0, ReadForward, SMT
<1>4. \A i \in Node : /\ Onward(i) \in Seq(SignalType) /\ Len(Onward(i)) \in Nat
                      /\ Backward(i) \in Seq(SignalType) /\ Len(Backward(i)) \in Nat
  BY WayTypes DEF RingInv
<1>5. \A q \in Seq(SignalType) : q # <<>> => Len(Tail(q)) = Len(q) - 1
  OBVIOUS
<1>6. ASSUME NEW i \in Node
      PROVE  /\ Len(Backward(i)') <= Len(Backward(i)) /\ Len(Backward(i)') \in Nat
             /\ Backward(i) = <<>> => Backward(i)' = <<>>
  <2>1. \/ Backward(i)' = Backward(i)
        \/ Backward(i) # <<>> /\ Backward(i)' = Tail(Backward(i))
    BY <1>1
  <2>2. CASE Backward(i)' = Backward(i)
    BY <1>4, <2>2
  <2>3. CASE Backward(i) # <<>> /\ Backward(i)' = Tail(Backward(i))
    <3>1. Len(Backward(i)') = Len(Backward(i)) - 1 /\ Len(Backward(i)') \in Nat
      BY <1>4, <1>5, <2>3, QueueFacts
    <3> QED BY <1>4, <2>3, <3>1
  <2> QED BY <2>1, <2>2, <2>3
<1>7. ASSUME NEW i \in Node
      PROVE  Len(Onward(i)') <= Len(Onward(i)) /\ Len(Onward(i)') \in Nat
  <2>1. \/ Onward(i)' = Onward(i)
        \/ Onward(i) # <<>> /\ Onward(i)' = Tail(Onward(i))
    <3>1. CASE direction[n] /\ i = PrevOf(n)
      BY <1>1, <3>1
    <3>2. CASE direction[n] /\ i # PrevOf(n)
      BY <1>1, <3>2
    <3>3. CASE ~direction[n]
      BY <1>1, <3>3
    <3> QED BY <3>1, <3>2, <3>3
  <2>2. CASE Onward(i)' = Onward(i)
    BY <1>4, <2>2
  <2>3. CASE Onward(i) # <<>> /\ Onward(i)' = Tail(Onward(i))
    <3>1. Len(Onward(i)') = Len(Onward(i)) - 1 /\ Len(Onward(i)') \in Nat
      BY <1>4, <1>5, <2>3, QueueFacts
    <3> QED BY <1>4, <2>3, <3>1
  <2> QED BY <2>1, <2>2, <2>3
<1>8. BackwardInv'
  <2>1. \A i \in Node : i \in Left' <=> i \in Left
    BY <1>1 DEF Left
  <2> SUFFICES ASSUME NEW i \in Node
               PROVE  /\ i \notin Left => Backward(i)' = <<>>
                      /\ Len(Backward(i)') <= 1
    BY <2>1 DEF BackwardInv
  <2>2. (i \notin Left => Backward(i) = <<>>) /\ Len(Backward(i)) <= 1
    BY DEF BackwardInv
  <2> QED BY <1>4, <1>6, <2>2
<1>9. ShortInv'
  <2>0. \A i \in Node : Heard(i)' <=> Heard(i)
    BY <1>1 DEF Heard
  <2> SUFFICES ASSUME NEW i \in Node
               PROVE  /\ Len(Onward(i)') <= 2
                      /\ pc'[i] = "send" /\ Heard(i) =>
                            \/ Len(Onward(i)') + Len(todo'[i]) <= 2
                            \/ todo'[i][1].sig = "GOOD_BYE"
    BY <2>0 DEF ShortInv
  <2>1. /\ Len(Onward(i)) <= 2
        /\ pc[i] = "send" /\ Heard(i) =>
              \/ Len(Onward(i)) + Len(todo[i]) <= 2
              \/ todo[i][1].sig = "GOOD_BYE"
    BY DEF ShortInv
  <2>2. Len(Onward(i)') <= 2
    BY <1>4, <1>7, <2>1
  <2>3. CASE i # n
    <3>1. pc'[i] = pc[i] /\ todo'[i] = todo[i]
      BY <1>1, <2>3
    <3>2. pc[i] = "send" => Len(todo[i]) \in Nat
      BY WayTypes DEF RingInv
    <3>3. \A a, b, c \in Nat : a <= b /\ b + c <= 2 => a + c <= 2
      OBVIOUS
    <3> QED BY <1>4, <1>7, <2>1, <2>2, <3>1, <3>2, <3>3
  <2>4. CASE i = n /\ direction[n]
    <3>1. Len(todo'[n]) \in Nat /\ Len(todo'[n]) <= 2
      BY <1>1, ReplyLists
    <3>2. Len(Onward(n)') = 0
      <4>1. Onward(n)' = Onward(n)
        BY <1>1, <2>4, NodeFacts
      <4> QED BY <1>2, <2>4, <4>1
    <3> QED BY <2>2, <2>4, <3>1, <3>2
  <2>5. CASE i = n /\ ~direction[n]
    <3>1. s = "GOOD_BYE" => todo'[n][1].sig = "GOOD_BYE"
      BY <1>1, ReplyLists
    <3> QED BY <1>1, <2>2, <2>5, <3>1
  <2> QED BY <2>3, <2>4, <2>5
<1> QED BY <1>8, <1>9

(* When node 0 starts nothing is under way.                                *)
LEMMA InitShutdown == Init => ShutdownInv
<1> SUFFICES ASSUME Init PROVE ShutdownInv
  OBVIOUS
<1>1. /\ lines \in Nat /\ readBy = <<>> /\ direction[0]
      /\ \A e \in Edge : pipe[e] = <<>> /\ rd[e] = {0}
      /\ pc[0] = "fork" /\ \A n \in Node : pc[n] \in {"fork", "unborn"}
  BY NodeFacts, FileAssumption DEF Init
<1>2. \A n \in Node : Onward(n) = <<>> /\ Backward(n) = <<>>
  BY <1>1, EdgeFacts DEF Onward, Backward
<1>3. \A n \in Node : \A s : ~Forward(n, s)
  BY <1>1, <1>2, EmptyHolds DEF Forward, Pending, Onward
<1>4. Len(readBy) = 0 /\ \A n \in Node : Len(Onward(n)) = 0 /\ Len(Backward(n)) = 0
  BY <1>1, <1>2
<1>5. ReadersInv /\ FrontierInv /\ AfterLastInv
  BY <1>1 DEF ReadersInv, FrontierInv, AfterLastInv, Starting
<1>6. StartInv
  BY <1>1, <1>3, <1>4, NodeFacts DEF StartInv
<1>7. OneSignalInv
  BY <1>1, <1>4 DEF OneSignalInv
<1>8. BackwardInv /\ ShortInv
  BY <1>1, <1>2, <1>4 DEF BackwardInv, ShortInv
<1> QED BY <1>5, <1>6, <1>7, <1>8 DEF ShutdownInv

(* Every step preserves the second invariant, given the first one.         *)
LEMMA StepShutdown == RingInv /\ ShutdownInv /\ [Next]_vars => ShutdownInv'
<1> SUFFICES ASSUME RingInv, ShutdownInv, [Next]_vars PROVE ShutdownInv'
  OBVIOUS
<1>1. TypeOK'
  BY TypeStep DEF RingInv
<1>2. CASE UNCHANGED vars
  <2>1. UNCHANGED <<lines, readBy, pipe, rd, pc, itsDone, direction, todo>>
    BY <1>2 DEF vars
  <2>2. \A n : \A t : Forward(n, t)' <=> Forward(n, t)
    BY <2>1 DEF Forward, Pending
  <2>3. \A n : Onward(n)' = Onward(n) /\ Backward(n)' = Backward(n)
    BY <2>1 DEF Onward, Backward
  <2>4. \A n : Load(n)' = Load(n)
    BY <2>1, <2>3 DEF Load
  <2>5. \A n : (Heard(n)' <=> Heard(n)) /\ (Awaited(n)' <=> Awaited(n))
    BY <2>1 DEF Heard, Awaited
  <2>6. \A n : Ended(n)' <=> Ended(n)
    BY <2>1 DEF Ended
  <2>7. Left' = Left
    BY <2>1 DEF Left
  <2>8. ReadersInv'
    BY <2>1, <2>6 DEF ShutdownInv, ReadersInv
  <2>9. StartInv'
    BY <2>1, <2>2 DEF ShutdownInv, StartInv
  <2>10. OneSignalInv'
    BY <2>1, <2>4 DEF ShutdownInv, OneSignalInv
  <2>11. FrontierInv'
    BY <2>1, <2>2, <2>3 DEF ShutdownInv, FrontierInv
  <2>12. AfterLastInv'
    BY <2>1, <2>3, <2>5 DEF ShutdownInv, AfterLastInv
  <2>13. BackwardInv'
    BY <2>3, <2>7 DEF ShutdownInv, BackwardInv
  <2>14. ShortInv'
    BY <2>1, <2>3, <2>5 DEF ShutdownInv, ShortInv
  <2> QED BY <2>8, <2>9, <2>10, <2>11, <2>12, <2>13, <2>14 DEF ShutdownInv
<1>3. ASSUME NEW n \in Node, Step(n) PROVE ShutdownInv'
  <2>1. ASSUME NEW i \in Node, Fork(i) PROVE ShutdownInv'
    BY <2>1, StartShutdown
  <2>2. CASE ClosePipeExcept(n)
    BY <2>2, StartShutdown
  <2>3. CASE PrintLine(n) \/ MeetEOF(n)
    BY <1>1, <2>3, PrintShutdown
  <2>4. CASE Receive(n)
    <3>1. ReadersInv' /\ StartInv'
      BY <2>4, ReadStart
    <3>2. OneSignalInv'
      BY <2>4, ReadOneSignal
    <3>3. FrontierInv'
      BY <2>4, ReadFrontier
    <3>4. AfterLastInv'
      BY <2>4, <3>3, ReadAfterLast
    <3>5. BackwardInv' /\ ShortInv'
      BY <2>4, ReadShort
    <3> QED BY <3>1, <3>2, <3>3, <3>4, <3>5 DEF ShutdownInv
  <2>5. CASE Deliver(n)
    BY <2>5, WriteShutdown
  <2>6. CASE BrokenPipe(n) \/ ClosePipeAll(n)
    BY <2>6, EndShutdown
  <2> QED BY <1>3, <2>1, <2>2, <2>3, <2>4, <2>5, <2>6 DEF Step, inNode
<1> QED BY <1>2, <1>3 DEF Next, AllOver

(* The invariant of the shutdown: one signal until node 0 turns round,     *)
(* then a frontier behind which every node waits.                          *)
THEOREM ShutdownInvariance == SafeSpec => []ShutdownInv
<1> QED BY InitShutdown, StepShutdown, Invariance, PTL DEF SafeSpec

(* No pipe ever holds more than two signals: the double signals of the     *)
(* fall-through from FINISHED_JOB_AFTER_LAST never pile up.                *)
THEOREM PipesNeverFill == SafeSpec => []PipesStayShort
<1>1. RingInv /\ ShutdownInv => PipesStayShort
  <2> SUFFICES ASSUME RingInv, ShutdownInv, NEW e \in Edge
               PROVE  Len(pipe[e]) <= 2
    BY DEF PipesStayShort
  <2>1. PICK n \in Node : e = <<n, NextOf(n)>> \/ e = <<n, PrevOf(n)>>
    BY EdgeFacts
  <2>2. Len(Onward(n)) <= 2 /\ Len(Backward(n)) <= 1 /\ Len(Backward(n)) \in Nat
    BY WayTypes DEF RingInv, ShutdownInv, ShortInv, BackwardInv
  <2> QED BY <2>1, <2>2 DEF Onward, Backward
<1> QED BY <1>1, Invariance, ShutdownInvariance, PTL

(* When every node has come to its end, what nobody has read are surplus   *)
(* SHOUD_EXITs and GOOD_BYEs: no turn is lost, and the notice of the       *)
(* finished job was heard by everyone it was for.                          *)
THEOREM OnlyFarewells == SafeSpec => []OnlyFarewellsUnread
<1>1. RingInv /\ ShutdownInv => OnlyFarewellsUnread
  <2> SUFFICES ASSUME RingInv, ShutdownInv, \A n \in Node : Ended(n),
                      NEW e \in Edge, NEW k \in 1 .. Len(pipe[e])
               PROVE  pipe[e][k] \in {"SHOUD_EXIT", "GOOD_BYE"}
    BY DEF OnlyFarewellsUnread
  <2>1. pipe[e] \in Seq(SignalType) /\ pipe[e][k] \in SignalType
    BY DEF RingInv, TypeOK
  <2>2. Holds(pipe[e], pipe[e][k])
    BY DEF Holds
  <2>3. PICK n \in Node : e = <<n, NextOf(n)>> \/ e = <<n, PrevOf(n)>>
    BY EdgeFacts
  <2>4. ~direction[0] /\ Finishing
    <3>1. 0 \in Node /\ 0 \in Left
      BY NodeFacts DEF Ended, Left
    <3> QED BY <3>1, TurnedFacts
  <2>5. CASE e = <<n, PrevOf(n)>>
    BY <2>1, <2>2, <2>5 DEF RingInv, PipeInv
  <2>6. CASE e = <<n, NextOf(n)>>
    <3>1. pipe[e][k] # "YOUR_TURN"
      BY <2>2, <2>4, <2>6 DEF Finishing, Forward
    <3>2. pipe[e][k] # "FINISHED_JOB"
      BY <2>2, <2>4, <2>6 DEF ShutdownInv, FrontierInv, Forward
    <3>3. pipe[e][k] # "FINISHED_JOB_AFTER_LAST"
      <4>1. ~Awaited(n)
        BY NodeFacts DEF Awaited, Ended
      <4> QED BY <2>4, <2>6, <4>1 DEF ShutdownInv, AfterLastInv, Onward
    <3> QED BY <2>1, <3>1, <3>2, <3>3 DEF SignalType
  <2> QED BY <2>3, <2>5, <2>6
<1> QED BY <1>1, Invariance, ShutdownInvariance, PTL
=============================================================================
