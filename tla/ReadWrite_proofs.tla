-------------------------- MODULE ReadWrite_proofs --------------------------
(***************************************************************************)
(* The program of assignment6 prints the lines of its file in their order  *)
(* and its threads take turns, for every number of threads and every file; *)
(* with its own four threads it loses at most two lines.                   *)
(***************************************************************************)
EXTENDS ReadWrite, UThread_proofs, SequenceTheorems

(* Type correctness of the data, and the property.                         *)
DataOK ==
    /\ file \in Files
    /\ fpos \in 0 .. Lines
    /\ eof \in BOOLEAN
    /\ str \in Seq(Nat) /\ out \in Seq(Nat)
    /\ ended \in {"no", "File END", "no more Write"}

RWInv == Counted /\ DataOK /\ LinesInOrder

(* Every step of the program is one of the thread library or leaves the    *)
(* threads alone.                                                          *)
LEMMA LibraryStep == [RWNext]_rwvars => [Next]_vars
<1> SUFFICES ASSUME [RWNext]_rwvars PROVE [Next]_vars
  OBVIOUS
<1>1. CASE UNCHANGED rwvars
  BY <1>1 DEF rwvars, library, vars
<1>2. CASE Prepare
  BY <1>2 DEF Prepare, Next
<1>3. ASSUME NEW t \in Thread, Enter(t) PROVE [Next]_vars
  BY <1>3 DEF Enter, Next, Call
<1>4. ASSUME NEW t \in Thread, reader(t) \/ writer(t) PROVE [Next]_vars
  <2>1. CASE ReadLine(t) \/ WriteLines(t)
    BY <2>1 DEF ReadLine, WriteLines, Next, Call
  <2>2. CASE FileEnd(t) \/ NoMoreWrite(t)
    BY <2>2 DEF FileEnd, NoMoreWrite, library, vars
  <2> QED
    BY <1>4, <2>1, <2>2 DEF reader, writer
<1>5. CASE Over
  BY <1>5 DEF Over, rwvars, library, vars
<1> QED
  BY <1>1, <1>2, <1>3, <1>4, <1>5 DEF RWNext

(* The number of lines of the file is a number.                            *)
LEMMA LinesType == file \in Files => Lines \in Nat
<1> SUFFICES ASSUME file \in Files PROVE Lines \in Nat
  OBVIOUS
<1>1. file.length \in Seq(Nat \ {0})
  BY FilesAssumption
<1> QED
  BY <1>1, LenProperties DEF Lines

(* One more number behind the numbers up to n.                             *)
LEMMA Count ==
    ASSUME NEW n \in Nat
    PROVE  Append([k \in 1 .. n |-> k], n + 1) = [k \in 1 .. n + 1 |-> k]
<1> DEFINE c == [k \in 1 .. n |-> k]
           d == [k \in 1 .. n + 1 |-> k]
<1>1. c \in Seq(Nat) /\ Len(c) = n /\ \A i \in 1 .. n : c[i] = i
  OBVIOUS
<1>2. d \in Seq(Nat) /\ Len(d) = n + 1 /\ \A i \in 1 .. n + 1 : d[i] = i
  OBVIOUS
<1> HIDE DEF c, d
<1>3. /\ Append(c, n + 1) \in Seq(Nat) /\ Len(Append(c, n + 1)) = n + 1
      /\ \A i \in 1 .. n : Append(c, n + 1)[i] = i
      /\ Append(c, n + 1)[n + 1] = n + 1
  BY <1>1
<1>4. \A i \in 1 .. n + 1 : Append(c, n + 1)[i] = d[i]
  BY <1>2, <1>3
<1>5. Append(c, n + 1) = d
  BY <1>2, <1>3, <1>4, SeqEqual
<1> QED
  BY <1>5 DEF c, d

(* Concatenation of sequences of numbers is associative.                   *)
LEMMA Regroup ==
    ASSUME NEW r \in Seq(Nat), NEW s \in Seq(Nat), NEW u \in Seq(Nat)
    PROVE  (r \o s) \o u = r \o (s \o u)
BY ConcatAssociative

(* The same number at the end of what waits behind what was printed.       *)
LEMMA OneMore ==
    ASSUME NEW o \in Seq(Nat), NEW s \in Seq(Nat), NEW n \in Nat,
           o \o s = [k \in 1 .. n |-> k]
    PROVE  /\ Append(s, n + 1) \in Seq(Nat)
           /\ o \o Append(s, n + 1) = [k \in 1 .. n + 1 |-> k]
<1>1. o \o s \in Seq(Nat) /\ <<n + 1>> \in Seq(Nat) /\ Append(s, n + 1) \in Seq(Nat)
  BY ConcatProperties
<1>2. Append(s, n + 1) = s \o <<n + 1>>
  BY AppendIsConcat
<1>3. o \o (s \o <<n + 1>>) = (o \o s) \o <<n + 1>>
  <2> DEFINE z == <<n + 1>>
  <2>1. z \in Seq(Nat)
    OBVIOUS
  <2> HIDE DEF z
  <2>2. \A q \in Seq(Nat) : (o \o s) \o q = o \o (s \o q)
    BY Regroup
  <2>3. o \o (s \o z) = (o \o s) \o z
    BY <2>1, <2>2
  <2> QED
    BY <2>3 DEF z
<1>4. Append(o \o s, n + 1) = (o \o s) \o <<n + 1>>
  <2> DEFINE z == o \o s
  <2>1. z \in Seq(Nat)
    BY <1>1
  <2> HIDE DEF z
  <2>2. Append(z, n + 1) = z \o <<n + 1>>
    BY <2>1, AppendIsConcat
  <2> QED
    BY <2>2 DEF z
<1> QED
  BY <1>1, <1>2, <1>3, <1>4, Count

(* The invariant holds at the start.                                       *)
LEMMA RWInitInv == RWInit => RWInv
<1> SUFFICES ASSUME RWInit PROVE RWInv
  OBVIOUS
<1>1. Counted
  BY InitCounted DEF RWInit
<1>2. Lines \in Nat
  BY LinesType DEF RWInit
<1>3. DataOK
  <2>1. fpos \in 0 .. Lines
    <3> HIDE DEF Lines
    <3> QED
      BY <1>2 DEF RWInit
  <2>2. str \in Seq(Nat) /\ out \in Seq(Nat)
    BY EmptySeq DEF RWInit
  <2>3. file \in Files /\ eof \in BOOLEAN /\ ended = "no"
    BY DEF RWInit
  <2> QED
    BY <2>1, <2>2, <2>3 DEF DataOK
<1>4. LinesInOrder
  BY DEF RWInit, LinesInOrder
<1> QED
  BY <1>1, <1>3, <1>4 DEF RWInv

(* fgets appends the line that follows those printed and those buffered.   *)
LEMMA ReadLineInOrder ==
    ASSUME DataOK, LinesInOrder, NEW t \in Thread, ReadLine(t)
    PROVE  DataOK' /\ LinesInOrder'
<1>1. Lines \in Nat /\ Lines' = Lines
  BY LinesType DEF ReadLine, Lines, DataOK
<1>2. CASE fpos < Lines
  <2>1. fpos' = fpos + 1 /\ str' = Append(str, fpos + 1) /\ out' = out
    BY <1>2 DEF ReadLine
  <2>2. /\ str' \in Seq(Nat)
        /\ out \o Append(str, fpos + 1) = [k \in 1 .. fpos + 1 |-> k]
    <3>A. fpos \in 0 .. Lines
      BY DEF DataOK
    <3>1. fpos \in Nat
      BY <1>1, <3>A
    <3>0. out \o str = [k \in 1 .. fpos |-> k]
      BY DEF LinesInOrder
    <3>2. out \in Seq(Nat) /\ str \in Seq(Nat)
      BY DEF DataOK
    <3> QED
      BY <2>1, <3>0, <3>1, <3>2, OneMore
  <2>3. eof' \in BOOLEAN
    BY <1>2 DEF ReadLine
  <2>4. fpos' \in 0 .. Lines'
    <3>1. Lines \in Nat /\ fpos \in 0 .. Lines
      BY <1>1 DEF DataOK
    <3> HIDE DEF Lines
    <3> QED
      BY <1>1, <1>2, <2>1, <3>1
  <2>5. DataOK'
    BY <2>1, <2>2, <2>3, <2>4 DEF DataOK, ReadLine
  <2> QED
    BY <2>1, <2>2, <2>5 DEF LinesInOrder
<1>3. CASE ~(fpos < Lines)
  BY <1>1, <1>3 DEF ReadLine, DataOK, LinesInOrder
<1> QED
  BY <1>2, <1>3

(* The writer moves what is in the buffer behind what was printed.         *)
LEMMA WriteLinesInOrder ==
    ASSUME DataOK, LinesInOrder, NEW t \in Thread, WriteLines(t)
    PROVE  DataOK' /\ LinesInOrder'
<1>1. Lines' = Lines
  BY DEF WriteLines, Lines
<1>2. out' = out \o str /\ str' = <<>>
  BY DEF WriteLines
<1>3. out \o str \in Seq(Nat) /\ <<>> \in Seq(Nat)
  BY ConcatProperties, EmptySeq DEF DataOK
<1>4. (out \o str) \o <<>> = out \o str
  BY <1>3, ConcatEmptySeq
<1>5. fpos' = fpos
  BY DEF WriteLines
<1>6. DataOK'
  BY <1>1, <1>2, <1>3, <1>5 DEF WriteLines, DataOK
<1> QED
  BY <1>2, <1>4, <1>5, <1>6 DEF LinesInOrder

(* Every step of the program preserves it.                                 *)
LEMMA RWStepInv == RWInv /\ [RWNext]_rwvars => RWInv'
<1> SUFFICES ASSUME RWInv, [RWNext]_rwvars PROVE RWInv'
  OBVIOUS
<1>1. Counted'
  BY LibraryStep, StepCounted DEF RWInv
<1>2. DataOK' /\ LinesInOrder'
  <2> USE DEF RWInv
  <2>1. CASE UNCHANGED data
    BY <2>1 DEF data, DataOK, Lines, LinesInOrder
  <2>2. ASSUME NEW t \in Thread, FileEnd(t) \/ NoMoreWrite(t)
        PROVE  DataOK' /\ LinesInOrder'
    BY <2>2 DEF FileEnd, NoMoreWrite, DataOK, Lines, LinesInOrder
  <2>3. CASE UNCHANGED rwvars
    BY <2>1, <2>3 DEF rwvars
  <2>4. CASE RWNext
    <3>1. CASE Prepare \/ Over
      BY <2>1, <3>1 DEF Prepare, Over, rwvars
    <3>2. ASSUME NEW t \in Thread, Enter(t) \/ reader(t) \/ writer(t)
          PROVE  DataOK' /\ LinesInOrder'
      BY <2>1, <2>2, <3>2, ReadLineInOrder, WriteLinesInOrder
         DEF Enter, reader, writer
    <3> QED
      BY <2>4, <3>1, <3>2 DEF RWNext
  <2> QED
    BY <2>3, <2>4
<1> QED
  BY <1>1, <1>2 DEF RWInv

---------------------------------------------------------------------------
(* Between two steps only the running thread can be inside.                *)
OnlyRunnerInside == NobodyWaits /\ Inside \subseteq {curr_thread}

AloneInv == RWInv /\ OnlyRunnerInside

(* With nobody else inside, the running thread finds a positive counter.   *)
LEMMA CounterPositive ==
    ASSUME AloneInv, NEW t \in Thread, t = curr_thread, pc[t] # "in"
    PROVE  counter > 0
<1>1. Inside = {}
  BY DEF AloneInv, OnlyRunnerInside, Inside
<1>2. counter = SemValue
  BY <1>1, EmptyInside DEF AloneInv, RWInv
<1> QED
  BY <1>2, SemAssumption

(* The steps of the library that the program takes keep the runner alone.  *)
LEMMA AloneStep ==
    ASSUME AloneInv, [RWNext]_rwvars
    PROVE  OnlyRunnerInside'
<1> USE DEF OnlyRunnerInside, NobodyWaits, Inside
<1>1. pc \in [Thread -> {"out", "P", "in"}] /\ NULL \notin Thread
  BY ThreadAssumption DEF AloneInv, RWInv, Counted, TypeOK
<1>2. CASE UNCHANGED library
  BY <1>2 DEF AloneInv, library
<1>3. CASE Prepare
  BY <1>1, <1>3 DEF AloneInv, Prepare, Main, create_thread, run
<1>4. ASSUME NEW t \in Thread, Enter(t) PROVE OnlyRunnerInside'
  <2>1. pc[t] # "in" /\ t = curr_thread
    BY <1>4 DEF Enter, P_Take, P_Wait, Runs
  <2>2. P_Take(t)
    BY <1>4, <2>1, CounterPositive
       DEF Enter, P_Wait, AloneInv, RWInv, Counted, TypeOK
  <2> QED
    BY <1>1, <2>1, <2>2 DEF P_Take, queues, AloneInv
<1>5. ASSUME NEW t \in Thread, V(t) PROVE OnlyRunnerInside'
  <2>1. t = curr_thread /\ pc[t] = "in" /\ pc' = [pc EXCEPT ![t] = "out"]
    BY <1>5 DEF V, Runs
  <2>2. Inside' = {}
    BY <1>1, <2>1 DEF AloneInv
  <2>3. sem_q' = NULL
    BY <1>5 DEF V, AloneInv, DelHead
  <2> QED
    BY <1>1, <2>1, <2>2, <2>3 DEF AloneInv
<1>6. ASSUME NEW t \in Thread, reader(t) \/ writer(t) PROVE OnlyRunnerInside'
  BY <1>2, <1>5, <1>6
     DEF reader, writer, FileEnd, ReadLine, NoMoreWrite, WriteLines
<1>7. CASE Over \/ UNCHANGED rwvars
  BY <1>2, <1>7 DEF Over, rwvars
<1> QED
  BY <1>3, <1>4, <1>6, <1>7 DEF RWNext

(* At most one thread is between P and V, and it is the one that runs.     *)
LEMMA AloneInvariant == RWSafeSpec => []AloneInv
<1>1. RWInit => AloneInv
  BY RWInitInv DEF RWInit, Init, AloneInv, OnlyRunnerInside, NobodyWaits, Inside
<1>2. AloneInv /\ [RWNext]_rwvars => AloneInv'
  BY RWStepInv, AloneStep DEF AloneInv
<1> QED
  BY <1>1, <1>2, PTL DEF RWSafeSpec

---------------------------------------------------------------------------
(* Type correctness of the program.                                        *)
THEOREM RWTypeCorrect == RWSafeSpec => []RWTypeOK
<1>1. RWInv => RWTypeOK
  BY DEF RWInv, DataOK, Counted, RWTypeOK
<1> QED
  BY RWInitInv, RWStepInv, <1>1, PTL DEF RWSafeSpec

(* However many readers and writers there are, and in whatever order they  *)
(* are created, the lines leave in the order in which they are in the      *)
(* file, none twice and none left out.                                     *)
THEOREM InOrder == RWSafeSpec => []LinesInOrder
<1>1. RWInv => LinesInOrder
  BY DEF RWInv
<1> QED
  BY RWInitInv, RWStepInv, <1>1, PTL DEF RWSafeSpec

(* However many threads read and write, and whatever the value of the      *)
(* semaphore, P never waits: the program does not depend on what becomes   *)
(* of a thread that does.                                                  *)
THEOREM NeverWaits == RWSafeSpec => []NobodyWaits
<1>1. AloneInv => NobodyWaits
  BY DEF AloneInv, OnlyRunnerInside
<1> QED
  BY AloneInvariant, <1>1, PTL

---------------------------------------------------------------------------
(* The queue of the runnable threads is a plain list: main puts the new    *)
(* threads into it, yield takes one off and puts one on.                   *)
Ready == Listing(next, thread_queue)

TidyList(nx, h, c, q) ==
    /\ IsList(nx, h, q)
    /\ c \notin Elements(q)
    /\ \A t \in Thread \ Elements(q) : nx[t] = NULL

Tidy ==
    /\ ~hung
    /\ TidyList(next, thread_queue, curr_thread, Ready)
    /\ curr_thread = NULL => Ready = SubSeq(Creation, 1, g_tid - 1)
    /\ curr_thread # NULL => g_tid > Len(Creation)

TidyInv == AloneInv /\ Tidy

(* The listing of a plain list.                                            *)
LEMMA ReadyIs ==
    ASSUME NEW q
    PROVE  /\ next \in Links /\ IsList(next, thread_queue, q) => Ready = q
           /\ next' \in Links /\ IsList(next', thread_queue', q) => Ready' = q
  BY ListOperators DEF Ready

(* yield moves the running thread behind the others.                       *)
LEMMA SwitchList ==
    ASSUME next \in Links, curr_thread \in Thread, NEW q,
           TidyList(next, thread_queue, curr_thread, q),
           YieldWith(next, thread_queue)
    PROVE  LET r == Append(q, curr_thread)
           IN  /\ next' \in Links /\ hung' = hung
               /\ curr_thread' \in Thread /\ curr_thread' = Head(r)
               /\ TidyList(next', thread_queue', curr_thread', Tail(r))
<1> DEFINE c == curr_thread
           r == Append(q, c)
           h == AddHead(thread_queue, c)
           l == AddLinks(next, thread_queue, c)
<1>1. c \notin Elements(q) /\ next[c] = NULL /\ IsList(next, thread_queue, q)
  BY DEF TidyList
<1>2. /\ ~AddHangs(next, thread_queue, c)
      /\ l \in Links /\ IsList(l, h, r)
      /\ \A x \in Thread : x \notin Elements(q) => l[x] = next[x]
  BY <1>1, AddToList
<1>3. /\ hung' = hung /\ curr_thread' = h
      /\ thread_queue' = DelHead(l, h) /\ next' = DelLinks(l, h)
  BY <1>2 DEF YieldWith
<1>4. r # <<>> /\ Elements(r) = Elements(q) \cup {c}
  <2>1. q \in Seq(Thread) /\ Len(q) \in Nat
    BY <1>1 DEF IsList
  <2>2. /\ Len(r) = Len(q) + 1 /\ r[Len(q) + 1] = c
        /\ \A i \in 1 .. Len(q) : r[i] = q[i]
    BY <2>1
  <2>3. Len(<<>>) = 0
    OBVIOUS
  <2> HIDE DEF r
  <2>4. \A i : i \in 1 .. Len(q) + 1 <=> i \in 1 .. Len(q) \/ i = Len(q) + 1
    BY <2>1
  <2> QED
    BY <2>1, <2>2, <2>3, <2>4 DEF Elements
<1> HIDE DEF l, h, r
<1>5. /\ h = Head(r) /\ h \in Elements(r) /\ h \in Thread
      /\ DelLinks(l, h) \in Links
      /\ IsList(DelLinks(l, h), DelHead(l, h), Tail(r))
      /\ DelLinks(l, h)[h] = NULL
      /\ \A x \in Thread : x # h => DelLinks(l, h)[x] = l[x]
      /\ Elements(Tail(r)) = Elements(r) \ {h}
  BY <1>2, <1>4, DelFromList
<1>6. ASSUME NEW x \in Thread \ Elements(Tail(r)) PROVE next'[x] = NULL
  <2>1. CASE x = h
    BY <1>3, <1>5, <2>1
  <2>2. CASE x # h
    <3>1. x \notin Elements(q) /\ l[x] = next[x] /\ next'[x] = l[x]
      BY <1>2, <1>3, <1>4, <1>5, <2>2
    <3> QED
      BY <3>1 DEF TidyList
  <2> QED
    BY <2>1, <2>2
<1>7. TidyList(next', thread_queue', curr_thread', Tail(r))
  BY <1>3, <1>5, <1>6 DEF TidyList
<1> QED
  BY <1>3, <1>5, <1>7 DEF r

(* While nobody waits V is no more than yield to the queues.               *)
LEMMA V_OnlyYields ==
    ASSUME AloneInv, NEW t \in Thread, V(t)
    PROVE  /\ t = curr_thread /\ pc[t] = "in"
           /\ YieldWith(next, thread_queue) /\ g_tid' = g_tid
<1>1. sem_q = NULL /\ counter' >= 1
  BY SemAssumption
     DEF V, AloneInv, OnlyRunnerInside, NobodyWaits, RWInv, Counted, TypeOK
<1>2. /\ DelLinks(next, sem_q) = next
      /\ ~AddHangs(next, thread_queue, sem_q)
      /\ AddLinks(next, thread_queue, sem_q) = next
      /\ AddHead(thread_queue, sem_q) = thread_queue
  BY <1>1 DEF DelLinks, AddHangs, AddLinks, AddHead
<1> QED
  BY <1>1, <1>2 DEF V, Runs

(* The types of the queue.                                                 *)
LEMMA TidyTypes ==
    ASSUME TidyInv
    PROVE  /\ next \in Links /\ curr_thread \in Pointer /\ NULL \notin Thread
           /\ g_tid \in 1 .. Len(Creation) + 1
  BY ThreadAssumption DEF TidyInv, AloneInv, RWInv, Counted, TypeOK, Links

---------------------------------------------------------------------------
(* What each step does to the running thread and to the listing.           *)
LEMMA TidyCreate ==
    ASSUME TidyInv, create_thread
    PROVE  /\ Tidy'
           /\ Creation[g_tid] \in Thread /\ Creation[g_tid] \notin Elements(Ready)
           /\ curr_thread = NULL /\ curr_thread' = NULL
           /\ Ready' = Append(Ready, Creation[g_tid])
<1> DEFINE q == Ready
           t == Creation[g_tid]
           n == g_tid - 1
<1>1. /\ next \in Links /\ g_tid \in 1 .. Len(Creation) + 1 /\ NULL \notin Thread
      /\ curr_thread = NULL /\ curr_thread' = NULL
      /\ g_tid <= Len(Creation) /\ g_tid' = g_tid + 1 /\ hung' = hung /\ ~hung
      /\ thread_queue' = AddHead(thread_queue, t)
      /\ next' = AddLinks(next, thread_queue, t)
      /\ TidyList(next, thread_queue, curr_thread, q)
      /\ q = SubSeq(Creation, 1, n)
  BY TidyTypes DEF create_thread, TidyInv, Tidy
<1>2. /\ Creation \in Seq(Thread) /\ Len(Creation) \in Nat
      /\ \A i, j \in 1 .. Len(Creation) : Creation[i] = Creation[j] => i = j
  BY CreationAssumption
<1>3. n \in 0 .. Len(Creation) /\ g_tid \in 1 .. Len(Creation) /\ n + 1 = g_tid
  BY <1>1, <1>2
<1>4. t \in Thread /\ t \notin Elements(q)
  <2>1. Elements(q) = {Creation[i] : i \in 1 .. n}
    BY <1>1, <1>3, FirstThreads
  <2>2. \A i \in 1 .. n : i \in 1 .. Len(Creation) /\ i # g_tid
    BY <1>2, <1>3
  <2> HIDE DEF q
  <2> QED
    BY <1>2, <1>3, <2>1, <2>2
<1> HIDE DEF q, t
<1>5. IsList(next, thread_queue, q) /\ next[t] = NULL
  BY <1>1, <1>4 DEF TidyList
<1>6. /\ next' \in Links
      /\ IsList(next', thread_queue', Append(q, t))
      /\ \A x \in Thread : x \notin Elements(q) => next'[x] = next[x]
  BY <1>1, <1>4, <1>5, AddToList
<1>7. Elements(q) \subseteq Elements(Append(q, t))
  <2>1. q \in Seq(Thread)
    BY <1>5 DEF IsList
  <2> QED
    BY <2>1 DEF Elements
<1>8. NULL \notin Elements(Append(q, t))
  BY <1>1, <1>6 DEF IsList, Elements
<1>9. TidyList(next', thread_queue', curr_thread', Append(q, t))
  BY <1>1, <1>6, <1>7, <1>8 DEF TidyList
<1>10. Ready' = Append(q, t)
  BY <1>6, ReadyIs
<1>11. Append(q, t) = SubSeq(Creation, 1, g_tid' - 1)
  BY <1>1, <1>2, <1>3 DEF t
<1>12. Tidy'
  BY <1>1, <1>9, <1>10, <1>11 DEF Tidy
<1> QED
  BY <1>1, <1>4, <1>10, <1>12 DEF q, t

(* run starts the first of the threads that were created.                  *)
LEMMA TidyRun ==
    ASSUME TidyInv, run
    PROVE  /\ Tidy'
           /\ curr_thread = NULL /\ curr_thread' \in Thread
           /\ Ready = Creation
           /\ curr_thread' = Head(Ready) /\ Ready' = Tail(Ready)
<1> DEFINE h == thread_queue
           q == Ready
<1>1. /\ next \in Links /\ g_tid \in 1 .. Len(Creation) + 1
      /\ curr_thread = NULL /\ g_tid > Len(Creation)
      /\ g_tid' = g_tid /\ hung' = hung /\ ~hung
      /\ curr_thread' = h /\ thread_queue' = DelHead(next, h)
      /\ next' = DelLinks(next, h)
      /\ TidyList(next, thread_queue, curr_thread, q)
      /\ q = SubSeq(Creation, 1, g_tid - 1)
  BY TidyTypes DEF run, TidyInv, Tidy
<1>2. Creation \in Seq(Thread) /\ Len(Creation) \in Nat /\ Creation # <<>>
  BY CreationAssumption
<1>3. g_tid - 1 = Len(Creation)
  BY <1>1, <1>2
<1>4. q = Creation
  BY <1>1, <1>2, <1>3
<1>5. IsList(next, h, q)
  BY <1>1 DEF TidyList
<1> HIDE DEF q
<1>6. /\ h = Head(q) /\ h \in Thread
      /\ next' \in Links
      /\ IsList(next', thread_queue', Tail(q))
      /\ next'[h] = NULL
      /\ \A x \in Thread : x # h => next'[x] = next[x]
      /\ Elements(Tail(q)) = Elements(q) \ {h}
  <2>1. q # <<>>
    BY <1>2, <1>4
  <2> HIDE DEF h
  <2>0. next \in Links /\ IsList(next, h, q)
    BY <1>1, <1>5
  <2>2. /\ h = Head(q) /\ h \in Elements(q) /\ h \in Thread
        /\ DelLinks(next, h) \in Links
        /\ IsList(DelLinks(next, h), DelHead(next, h), Tail(q))
        /\ DelLinks(next, h)[h] = NULL
        /\ \A x \in Thread : x # h => DelLinks(next, h)[x] = next[x]
        /\ Elements(Tail(q)) = Elements(q) \ {h}
    BY <2>0, <2>1, DelFromList
  <2> QED
    BY <1>1, <2>2
<1>7. \A x \in Thread \ Elements(Tail(q)) : next'[x] = NULL
  BY <1>1, <1>6 DEF TidyList
<1>8. TidyList(next', thread_queue', curr_thread', Tail(q))
  BY <1>1, <1>6, <1>7 DEF TidyList
<1>9. Ready' = Tail(q)
  BY <1>6, ReadyIs
<1>10. curr_thread' # NULL
  BY <1>1, <1>6, ThreadAssumption
<1>11. Tidy'
  BY <1>1, <1>8, <1>9, <1>10 DEF Tidy
<1> QED
  BY <1>1, <1>4, <1>6, <1>9, <1>11 DEF q

(* V yields: the running thread goes to the end of the list, its first     *)
(* thread runs.                                                            *)
LEMMA TidyV ==
    ASSUME TidyInv, NEW t \in Thread, V(t)
    PROVE  LET r == Append(Ready, curr_thread)
           IN  /\ Tidy'
               /\ curr_thread \in Thread /\ curr_thread # NULL
               /\ curr_thread' = Head(r) /\ Ready' = Tail(r)
<1>1. /\ next \in Links /\ curr_thread \in Thread /\ curr_thread # NULL
      /\ YieldWith(next, thread_queue) /\ g_tid' = g_tid
      /\ ~hung /\ TidyList(next, thread_queue, curr_thread, Ready)
      /\ g_tid > Len(Creation)
  BY TidyTypes, V_OnlyYields, ThreadAssumption DEF TidyInv, Tidy
<1> DEFINE q == Ready
           r == Append(q, curr_thread)
<1> HIDE DEF q
<1>2. /\ next' \in Links /\ hung' = hung
      /\ curr_thread' \in Thread /\ curr_thread' = Head(r)
      /\ TidyList(next', thread_queue', curr_thread', Tail(r))
  BY <1>1, SwitchList DEF q
<1> HIDE DEF r
<1>3. Ready' = Tail(r)
  BY <1>2, ReadyIs DEF TidyList
<1>4. Tidy'
  BY <1>1, <1>2, <1>3, ThreadAssumption DEF Tidy
<1> QED
  BY <1>1, <1>2, <1>3, <1>4 DEF r, q

(* Every other step leaves the threads where they are.                     *)
LEMMA TidyOther ==
    ASSUME TidyInv, UNCHANGED <<queues, g_tid>>
    PROVE  Tidy' /\ curr_thread' = curr_thread /\ Ready' = Ready
  BY DEF queues, TidyInv, Tidy, TidyList, Ready

(* The steps of the program, as the scheduler sees them.                   *)
LEMMA ProgramSteps ==
    ASSUME TidyInv, [RWNext]_rwvars
    PROVE  \/ Prepare /\ create_thread
           \/ Prepare /\ run
           \/ \E t \in Thread : V(t) /\ (ReadLine(t) \/ WriteLines(t))
           \/ \E t \in Thread : FileEnd(t) \/ NoMoreWrite(t)
           \/ UNCHANGED <<queues, g_tid>> /\ UNCHANGED data
<1>1. CASE UNCHANGED rwvars
  BY <1>1 DEF rwvars, library, queues
<1>2. CASE Prepare
  BY <1>2 DEF Prepare, Main
<1>3. ASSUME NEW t \in Thread, Enter(t) PROVE UNCHANGED <<queues, g_tid, data>>
  <2>1. pc[t] # "in" /\ t = curr_thread
    BY <1>3 DEF Enter, P_Take, P_Wait, Runs
  <2>2. P_Take(t)
    BY <1>3, <2>1, CounterPositive
       DEF Enter, P_Wait, TidyInv, AloneInv, RWInv, Counted, TypeOK
  <2> QED
    BY <1>3, <2>2 DEF P_Take, Enter
<1>4. ASSUME NEW t \in Thread, reader(t) \/ writer(t)
      PROVE  \/ V(t) /\ (ReadLine(t) \/ WriteLines(t))
             \/ FileEnd(t) \/ NoMoreWrite(t)
  BY <1>4 DEF reader, writer, ReadLine, WriteLines
<1>5. CASE Over
  BY <1>5 DEF Over, rwvars, library, queues
<1> QED
  BY <1>1, <1>2, <1>3, <1>4, <1>5 DEF RWNext

(* Every step of the program keeps the list plain.                         *)
LEMMA TidyStep == TidyInv /\ [RWNext]_rwvars => Tidy'
<1> SUFFICES ASSUME TidyInv, [RWNext]_rwvars PROVE Tidy'
  OBVIOUS
<1>1. ASSUME NEW t \in Thread, FileEnd(t) \/ NoMoreWrite(t)
      PROVE  UNCHANGED <<queues, g_tid>>
  BY <1>1 DEF FileEnd, NoMoreWrite, library, queues
<1> QED
  BY <1>1, ProgramSteps, TidyCreate, TidyRun, TidyV, TidyOther

(* It is plain and empty at the start,                                     *)
LEMMA TidyInit == RWInit => TidyInv /\ Ready = <<>> /\ curr_thread = NULL
<1> SUFFICES ASSUME RWInit
             PROVE  TidyInv /\ Ready = <<>> /\ curr_thread = NULL
  OBVIOUS
<1>1. AloneInv
  BY RWInitInv DEF RWInit, Init, AloneInv, OnlyRunnerInside, NobodyWaits, Inside
<1>2. /\ next \in Links /\ curr_thread = NULL /\ ~hung
      /\ \A t \in Thread : next[t] = NULL
  BY DEF RWInit, Init, Links, Pointer
<1>3. IsList(next, thread_queue, <<>>) /\ Elements(<<>>) = {}
  BY DEF IsList, Elements, RWInit, Init
<1>4. Ready = <<>>
  BY <1>2, <1>3, ReadyIs
<1>5. SubSeq(Creation, 1, g_tid - 1) = <<>>
  BY CreationAssumption DEF RWInit, Init
<1>6. TidyList(next, thread_queue, curr_thread, Ready)
  BY <1>2, <1>3, <1>4 DEF TidyList
<1> QED
  BY <1>1, <1>2, <1>4, <1>5, <1>6 DEF TidyInv, Tidy

(* ... and always plain.                                                   *)
LEMMA TidyInvariance == RWSafeSpec => []TidyInv
<1>1. RWInit => TidyInv
  BY TidyInit
<1>2. TidyInv => AloneInv
  BY DEF TidyInv
<1>3. TidyInv /\ AloneInv' /\ [RWNext]_rwvars => TidyInv'
  BY TidyStep DEF TidyInv
<1> QED
  BY <1>1, <1>2, <1>3, AloneInvariant, PTL DEF RWSafeSpec

(* Under the invariant every step of the program is a step of the          *)
(* scheduler, or none.                                                     *)
LEMMA SchedulerStep ==
    TidyInv /\ [RWNext]_rwvars => [Scheduler!Next]_(Scheduler!vars)
<1> SUFFICES ASSUME TidyInv, [RWNext]_rwvars
             PROVE  [Scheduler!Next]_(Scheduler!vars)
  OBVIOUS
<1>1. ASSUME UNCHANGED <<queues, g_tid>> PROVE UNCHANGED Scheduler!vars
  BY <1>1 DEF queues, Scheduler!vars
<1>2. CASE create_thread
  <2>1. \A k \in 1 .. Len(Ready) : Ready[k] # Creation[g_tid]
    BY <1>2, TidyCreate DEF Elements
  <2>2. Scheduler!Create(Creation[g_tid])
    BY <1>2, <2>1, TidyCreate DEF Scheduler!Create, Ready
  <2> QED
    BY <1>2, <2>2, TidyCreate DEF Scheduler!Next
<1>3. CASE run
  <2>1. Scheduler!Start
    BY <1>3, TidyRun, CreationAssumption DEF Scheduler!Start, Ready
  <2> QED
    BY <2>1 DEF Scheduler!Next
<1>4. ASSUME NEW t \in Thread, V(t) PROVE Scheduler!Next
  <2>1. Scheduler!Switch
    BY <1>4, TidyV DEF Scheduler!Switch, Ready
  <2> QED
    BY <2>1 DEF Scheduler!Next
<1>5. ASSUME NEW t \in Thread, FileEnd(t) \/ NoMoreWrite(t)
      PROVE  UNCHANGED <<queues, g_tid>>
  BY <1>5 DEF FileEnd, NoMoreWrite, library, queues
<1> QED
  BY <1>1, <1>2, <1>3, <1>4, <1>5, ProgramSteps

(* The links between the tcbs, and addQueue and delQueue that follow and   *)
(* change them, implement a queue: the threads of the program take turns   *)
(* in the order in which they were created, however many there are.        *)
THEOREM TakesTurns == RWSafeSpec => ImplementsRoundRobin
<1>1. RWInit => Scheduler!Init
  BY TidyInit DEF Scheduler!Init, Ready
<1> QED
  BY <1>1, SchedulerStep, TidyInvariance, PTL
     DEF RWSafeSpec, ImplementsRoundRobin, Scheduler!Spec

---------------------------------------------------------------------------
(* The threads that main creates: three readers, then a writer.            *)
ProgramThreads ==
    /\ Len(Creation) = 4
    /\ Readers = {Creation[1], Creation[2], Creation[3]}

(* The k-th of them runs and the others follow in their order.             *)
TurnOf(k) ==
    LET a == Creation[1]  b == Creation[2]  c == Creation[3]  d == Creation[4]
    IN  \/ k = 1 /\ curr_thread = a /\ Ready = <<b, c, d>>
        \/ k = 2 /\ curr_thread = b /\ Ready = <<c, d, a>>
        \/ k = 3 /\ curr_thread = c /\ Ready = <<d, a, b>>
        \/ k = 4 /\ curr_thread = d /\ Ready = <<a, b, c>>

(* A round: while the file has lines the buffer has as many as readers had *)
(* their turn.                                                             *)
Buffered(k) ==
    /\ eof \/ Len(str) = k - 1
    /\ eof => fpos = Lines /\ Len(str) <= k - 1

RoundInv ==
    /\ IF curr_thread = NULL THEN Alive /\ ~eof /\ str = <<>>
       ELSE \E k \in 1 .. 4 : TurnOf(k) /\ Buffered(k)
    /\ AtMostTwoLinesLost

(* A list of four, rotated.                                                *)
LEMMA Rotate ==
    ASSUME NEW a \in Thread, NEW b \in Thread, NEW c \in Thread, NEW d \in Thread
    PROVE  /\ Head(Append(<<a, b, c>>, d)) = a
           /\ Tail(Append(<<a, b, c>>, d)) = <<b, c, d>>
           /\ Head(<<a, b, c, d>>) = a
           /\ Tail(<<a, b, c, d>>) = <<b, c, d>>
<1>1. Append(<<a, b, c>>, d) = <<a, b, c, d>>
  <2> DEFINE s == <<a, b, c>>
             u == <<a, b, c, d>>
  <2>1. /\ s \in Seq(Thread) /\ Len(s) = 3
        /\ s[1] = a /\ s[2] = b /\ s[3] = c
    OBVIOUS
  <2>2. /\ u \in Seq(Thread) /\ Len(u) = 4
        /\ u[1] = a /\ u[2] = b /\ u[3] = c /\ u[4] = d
    OBVIOUS
  <2> HIDE DEF s, u
  <2>3. /\ Append(s, d) \in Seq(Thread) /\ Len(Append(s, d)) = 4
        /\ \A i \in 1 .. 3 : Append(s, d)[i] = s[i]
        /\ Append(s, d)[4] = d
    <3>1. /\ Append(s, d) \in Seq(Thread) /\ Len(Append(s, d)) = Len(s) + 1
          /\ \A i \in 1 .. Len(s) : Append(s, d)[i] = s[i]
          /\ Append(s, d)[Len(s) + 1] = d
      BY <2>1, AppendProperties
    <3>2. Len(s) + 1 = 4
      BY <2>1
    <3> QED
      BY <2>1, <3>1, <3>2
  <2>4. /\ Append(s, d)[1] = a /\ Append(s, d)[2] = b /\ Append(s, d)[3] = c
    BY <2>1, <2>3
  <2>5. \A i \in 1 .. 4 : i = 1 \/ i = 2 \/ i = 3 \/ i = 4
    OBVIOUS
  <2>6. \A i \in 1 .. 4 : Append(s, d)[i] = u[i]
    BY <2>2, <2>3, <2>4, <2>5
  <2>7. Append(s, d) = u
    BY <2>2, <2>3, <2>6, SeqEqual
  <2> QED
    BY <2>7 DEF s, u
<1>2. Head(<<a, b, c, d>>) = a /\ Tail(<<a, b, c, d>>) = <<b, c, d>>
  <2> DEFINE s == <<a, b, c, d>>
             u == <<b, c, d>>
  <2>1. /\ s \in Seq(Thread) /\ Len(s) = 4
        /\ s[1] = a /\ s[2] = b /\ s[3] = c /\ s[4] = d
    OBVIOUS
  <2>2. /\ u \in Seq(Thread) /\ Len(u) = 3
        /\ u[1] = b /\ u[2] = c /\ u[3] = d
    OBVIOUS
  <2>3. Len(<<>>) = 0
    OBVIOUS
  <2> HIDE DEF s, u
  <2>0. s # <<>>
    BY <2>1, <2>3
  <2>4. /\ Head(s) = a /\ Tail(s) \in Seq(Thread) /\ Len(Tail(s)) = 3
        /\ \A i \in 1 .. 3 : Tail(s)[i] = s[i + 1]
    <3>1. /\ Tail(s) \in Seq(Thread) /\ Len(Tail(s)) = Len(s) - 1
          /\ \A i \in 1 .. Len(Tail(s)) : Tail(s)[i] = s[i + 1]
      BY <2>0, <2>1, HeadTailProperties
    <3>2. Len(s) - 1 = 3
      BY <2>1
    <3>3. Head(s) = s[1]
      BY <2>0, <2>1
    <3> QED
      BY <2>1, <3>1, <3>2, <3>3
  <2>5. \A i \in 1 .. 3 : Tail(s)[i] = u[i]
    <3>1. Tail(s)[1] = s[2] /\ Tail(s)[2] = s[3] /\ Tail(s)[3] = s[4]
      <4>1. 1 \in 1 .. 3 /\ 2 \in 1 .. 3 /\ 3 \in 1 .. 3
        OBVIOUS
      <4>2. Tail(s)[1] = s[1 + 1] /\ Tail(s)[2] = s[2 + 1] /\ Tail(s)[3] = s[3 + 1]
        BY <2>4, <4>1, Zenon
      <4>3. 1 + 1 = 2 /\ 2 + 1 = 3 /\ 3 + 1 = 4
        OBVIOUS
      <4> QED
        BY <4>2, <4>3, Zenon
    <3>2. \A i \in 1 .. 3 : i = 1 \/ i = 2 \/ i = 3
      OBVIOUS
    <3> QED
      BY <2>1, <2>2, <3>1, <3>2
  <2>6. Tail(s) = u
    BY <2>2, <2>4, <2>5, SeqEqual
  <2> QED
    BY <2>4, <2>6 DEF s, u
<1> QED
  BY <1>1, <1>2

(* The program's threads by name.                                          *)
LEMMA FourThreads ==
    ASSUME ProgramThreads
    PROVE  /\ \A i \in 1 .. 4 : Creation[i] \in Thread
           /\ Creation = <<Creation[1], Creation[2], Creation[3], Creation[4]>>
           /\ Thread = {Creation[1], Creation[2], Creation[3], Creation[4]}
           /\ Creation[4] \notin Readers
<1>1. /\ Creation \in Seq(Thread) /\ Len(Creation) = 4
      /\ \A i, j \in 1 .. 4 : Creation[i] = Creation[j] => i = j
      /\ Thread = {Creation[i] : i \in 1 .. 4}
  BY CreationAssumption DEF ProgramThreads
<1>2. 1 .. 4 = {1, 2, 3, 4}
  OBVIOUS
<1>3. \A i \in 1 .. 4 : Creation[i] \in Thread
  BY <1>1
<1>4. Creation = <<Creation[1], Creation[2], Creation[3], Creation[4]>>
  BY <1>1, <1>3
<1>5. Thread = {Creation[1], Creation[2], Creation[3], Creation[4]}
  BY <1>1, <1>2
<1> QED
  BY <1>1, <1>2, <1>3, <1>4, <1>5 DEF ProgramThreads

(* strlen(str) is at least the number of lines in str: no line is empty.   *)
LEMMA StrlenFacts ==
    ASSUME DataOK, LinesInOrder
    PROVE  strlen(str) \in Nat /\ strlen(str) >= Len(str) /\ Len(str) \in Nat
<1> DEFINE g == [k \in 1 .. Len(str) |-> file.length[str[k]]]
<1>1. /\ out \in Seq(Nat) /\ str \in Seq(Nat) /\ fpos \in 0 .. Lines
      /\ out \o str = [k \in 1 .. fpos |-> k]
  BY DEF DataOK, LinesInOrder
<1>2. Len(out) \in Nat /\ Len(str) \in Nat /\ Lines \in Nat
  <2>1. Lines \in Nat
    BY LinesType DEF DataOK
  <2>2. Len(out) \in Nat /\ Len(str) \in Nat
    BY <1>1
  <2> QED
    BY <2>1, <2>2
<1>3. Len(out \o str) = fpos
  <2>1. Len([k \in 1 .. fpos |-> k]) = fpos
    BY <1>1, <1>2
  <2> QED
    BY <1>1, <2>1
<1>4. ASSUME NEW k \in 1 .. Len(str) PROVE str[k] \in 1 .. Lines
  <2>1. Len(out) + Len(str) = fpos
    BY <1>1, <1>3, ConcatProperties
  <2>2. Len(out) + k \in 1 .. fpos
    BY <1>2, <2>1
  <2>3. (out \o str)[Len(out) + k] = Len(out) + k
    BY <1>1, <2>2
  <2>4. (out \o str)[Len(out) + k] = str[k]
    <3>1. /\ Len(out) + k \in 1 .. Len(out) + Len(str)
          /\ ~(Len(out) + k <= Len(out)) /\ (Len(out) + k) - Len(out) = k
      BY <1>2
    <3>2. \A i \in 1 .. Len(out) + Len(str) :
             (out \o str)[i] = IF i <= Len(out) THEN out[i] ELSE str[i - Len(out)]
      BY <1>1, ConcatProperties
    <3> QED
      BY <3>1, <3>2
  <2> HIDE DEF Lines
  <2> QED
    BY <1>1, <1>2, <2>2, <2>3, <2>4
<1>5. file.length \in Seq(Nat \ {0}) /\ Lines = Len(file.length)
  BY FilesAssumption DEF DataOK, Lines
<1>6. \A k \in 1 .. Len(str) : g[k] \in Nat /\ g[k] >= 1
  BY <1>4, <1>5
<1>7. g \in Seq(Nat) /\ Len(g) = Len(str)
  BY <1>2, <1>6
<1> HIDE DEF g
<1>8. Total(g) \in Nat /\ Total(g) >= Len(g)
  BY <1>6, <1>7, TotalAtLeast
<1> QED
  BY <1>2, <1>7, <1>8 DEF strlen, g

Following(k) == IF k = 4 THEN 1 ELSE k + 1

(* Who has which turn, and who has the next one.                           *)
LEMMA TurnFacts ==
    ASSUME ProgramThreads, TidyInv, NEW k \in 1 .. 4, TurnOf(k)
    PROVE  /\ k \in 1 .. 3 <=> curr_thread \in Readers
           /\ \A t \in Thread : V(t) => t = curr_thread /\ TurnOf(Following(k))'
<1> DEFINE a == Creation[1]
           b == Creation[2]
           c == Creation[3]
           d == Creation[4]
<1>1. /\ a \in Thread /\ b \in Thread /\ c \in Thread /\ d \in Thread
      /\ d \notin Readers /\ Readers = {a, b, c}
  BY FourThreads DEF ProgramThreads
<1> HIDE DEF a, b, c, d
<1>2. \/ k = 1 /\ curr_thread = a /\ Ready = <<b, c, d>>
      \/ k = 2 /\ curr_thread = b /\ Ready = <<c, d, a>>
      \/ k = 3 /\ curr_thread = c /\ Ready = <<d, a, b>>
      \/ k = 4 /\ curr_thread = d /\ Ready = <<a, b, c>>
  BY DEF TurnOf, a, b, c, d
<1>3. k \in 1 .. 3 <=> curr_thread \in Readers
  BY <1>1, <1>2
<1>4. ASSUME NEW t \in Thread, V(t)
      PROVE  t = curr_thread /\ TurnOf(Following(k))'
  <2>1. /\ t = curr_thread
        /\ curr_thread' = Head(Append(Ready, curr_thread))
        /\ Ready' = Tail(Append(Ready, curr_thread))
    BY <1>4, TidyV, V_OnlyYields DEF TidyInv
  <2>2. \/ Following(k) = 2 /\ curr_thread' = b /\ Ready' = <<c, d, a>>
        \/ Following(k) = 3 /\ curr_thread' = c /\ Ready' = <<d, a, b>>
        \/ Following(k) = 4 /\ curr_thread' = d /\ Ready' = <<a, b, c>>
        \/ Following(k) = 1 /\ curr_thread' = a /\ Ready' = <<b, c, d>>
    <3>1. CASE k = 1 /\ curr_thread = a /\ Ready = <<b, c, d>>
      BY <1>1, <2>1, <3>1, Rotate DEF Following
    <3>2. CASE k = 2 /\ curr_thread = b /\ Ready = <<c, d, a>>
      BY <1>1, <2>1, <3>2, Rotate DEF Following
    <3>3. CASE k = 3 /\ curr_thread = c /\ Ready = <<d, a, b>>
      BY <1>1, <2>1, <3>3, Rotate DEF Following
    <3>4. CASE k = 4 /\ curr_thread = d /\ Ready = <<a, b, c>>
      BY <1>1, <2>1, <3>4, Rotate DEF Following
    <3> QED
      BY <1>2, <3>1, <3>2, <3>3, <3>4
  <2> QED
    BY <2>1, <2>2 DEF TurnOf, a, b, c, d
<1> QED
  BY <1>3, <1>4

(* A turn of a reader or of the writer keeps the count.                    *)
LEMMA RoundTurn ==
    ASSUME ProgramThreads, TidyInv, TidyInv', RoundInv,
           NEW t \in Thread, V(t), ReadLine(t) \/ WriteLines(t)
    PROVE  RoundInv'
<1>1. /\ t = curr_thread /\ curr_thread # NULL /\ Alive /\ ended' = ended
      /\ Lines' = Lines /\ curr_thread' # NULL
  <2>1. t = curr_thread
    BY V_OnlyYields DEF TidyInv
  <2>2. ended' = ended /\ file' = file /\ Alive
    BY DEF ReadLine, WriteLines
  <2>3. curr_thread' # NULL
    <3>1. curr_thread' \in Thread
      <4>1. YieldWith(next, thread_queue) /\ TidyList(next, thread_queue, curr_thread, Ready)
        BY V_OnlyYields DEF TidyInv, Tidy
      <4>2. next \in Links /\ curr_thread \in Thread
        BY <2>1, TidyTypes
      <4> QED
        BY <4>1, <4>2, SwitchList
    <3> QED
      BY <3>1, ThreadAssumption
  <2> QED
    BY <2>1, <2>2, <2>3, ThreadAssumption DEF Lines
<1>2. PICK k \in 1 .. 4 : TurnOf(k) /\ Buffered(k)
  BY <1>1 DEF RoundInv
<1>3. /\ k \in 1 .. 3 <=> t \in Readers
      /\ TurnOf(Following(k))' /\ Following(k) \in 1 .. 4
  <2>1. Following(k) \in 1 .. 4
    BY DEF Following
  <2> QED
    BY <1>1, <1>2, <2>1, TurnFacts
<1>4. /\ str \in Seq(Nat) /\ Len(str) \in Nat
      /\ fpos \in Nat /\ Lines \in Nat /\ fpos <= Lines
  <2>1. Lines \in Nat /\ fpos \in 0 .. Lines /\ str \in Seq(Nat)
    BY LinesType DEF TidyInv, AloneInv, RWInv, DataOK
  <2> HIDE DEF Lines
  <2> QED
    BY <2>1
<1>5. AtMostTwoLinesLost'
  BY <1>1 DEF AtMostTwoLinesLost, Alive
<1> HIDE DEF Lines
<1>6. Buffered(Following(k))'
  <2>1. CASE ReadLine(t)
    <3>1. /\ k \in 1 .. 3 /\ ~eof /\ Len(str) = k - 1 /\ Following(k) = k + 1
      BY <1>2, <1>3, <2>1 DEF ReadLine, Buffered, Following
    <3>2. CASE fpos < Lines
      <4>1. /\ fpos' = fpos + 1 /\ str' = Append(str, fpos + 1)
            /\ eof' => fpos' = Lines
        BY <2>1, <3>2 DEF ReadLine
      <4>2. Len(str') = Len(str) + 1
        BY <1>4, <4>1
      <4> QED
        BY <1>1, <1>4, <3>1, <4>1, <4>2 DEF Buffered
    <3>3. CASE ~(fpos < Lines)
      <4>1. eof' = TRUE /\ fpos' = fpos /\ str' = str
        BY <2>1, <3>3 DEF ReadLine
      <4> QED
        BY <1>1, <1>4, <3>1, <3>3, <4>1 DEF Buffered
    <3> QED
      BY <3>2, <3>3
  <2>2. CASE WriteLines(t)
    <3>1. k = 4 /\ Following(k) = 1
      BY <1>3, <2>2 DEF WriteLines, Following
    <3>2. str' = <<>> /\ eof' = eof /\ fpos' = fpos /\ Len(<<>>) = 0
      BY <2>2 DEF WriteLines
    <3> QED
      BY <1>1, <1>2, <3>1, <3>2 DEF Buffered
  <2> QED
    BY <2>1, <2>2
<1> QED
  BY <1>1, <1>3, <1>5, <1>6 DEF RoundInv

(* The process ends in the turn of a reader that meets the end of the file *)
(* or in that of the writer.                                               *)
LEMMA RoundEnd ==
    ASSUME ProgramThreads, TidyInv, RoundInv,
           NEW t \in Thread, FileEnd(t) \/ NoMoreWrite(t)
    PROVE  RoundInv'
<1>1. /\ t = curr_thread /\ curr_thread # NULL /\ curr_thread' = curr_thread
      /\ UNCHANGED <<queues, g_tid, file, fpos, eof, str>> /\ Lines' = Lines
  BY ThreadAssumption DEF FileEnd, NoMoreWrite, Runs, library, queues, Lines
<1>2. PICK k \in 1 .. 4 : TurnOf(k) /\ Buffered(k)
  BY <1>1 DEF RoundInv
<1>3. k \in 1 .. 3 <=> t \in Readers
  BY <1>1, <1>2, TurnFacts
<1>4. strlen(str) \in Nat /\ strlen(str) >= Len(str) /\ Len(str) \in Nat
  BY StrlenFacts DEF TidyInv, AloneInv, RWInv
<1> HIDE DEF Lines
<1>5. fpos = Lines /\ Len(str) <= 2
  <2>1. CASE FileEnd(t)
    <3>1. k \in 1 .. 3 /\ eof
      BY <1>3, <2>1 DEF FileEnd
    <3>2. fpos = Lines /\ Len(str) <= k - 1
      BY <1>2, <3>1 DEF Buffered
    <3> QED
      BY <1>4, <3>1, <3>2
  <2>2. CASE NoMoreWrite(t)
    <3>0. k \notin 1 .. 3 /\ strlen(str) < 3
      BY <1>3, <2>2 DEF NoMoreWrite
    <3>1. k = 4 /\ strlen(str) < 3
      <4> HIDE DEF strlen
      <4> QED
        BY <3>0
    <3>2. Len(str) <= 2
      BY <1>4, <3>1
    <3> QED
      BY <1>2, <3>1, <3>2 DEF Buffered
  <2> QED
    BY <2>1, <2>2
<1>6. AtMostTwoLinesLost'
  BY <1>1, <1>5 DEF AtMostTwoLinesLost
<1>7. TurnOf(k)' /\ Buffered(k)'
  BY <1>1, <1>2, TidyOther DEF TurnOf, Buffered
<1> QED
  BY <1>1, <1>6, <1>7 DEF RoundInv

(* Every step of the program keeps the round.                              *)
LEMMA RoundStep ==
    ASSUME ProgramThreads, TidyInv, TidyInv', RoundInv, [RWNext]_rwvars
    PROVE  RoundInv'
<1>1. CASE Prepare /\ create_thread
  <2>1. curr_thread = NULL /\ curr_thread' = NULL
    BY <1>1, TidyCreate
  <2> QED
    BY <1>1, <2>1
       DEF Prepare, data, RoundInv, AtMostTwoLinesLost, Alive, Lines
<1>2. CASE Prepare /\ run
  <2>1. /\ curr_thread = NULL /\ curr_thread' \in Thread
        /\ Ready = Creation /\ curr_thread' = Head(Ready) /\ Ready' = Tail(Ready)
    BY <1>2, TidyRun
  <2>2. TurnOf(1)'
    <3>1. /\ Creation = <<Creation[1], Creation[2], Creation[3], Creation[4]>>
          /\ \A i \in 1 .. 4 : Creation[i] \in Thread
      BY FourThreads
    <3>2. /\ Head(Creation) = Creation[1]
          /\ Tail(Creation) = <<Creation[2], Creation[3], Creation[4]>>
      <4> DEFINE a == Creation[1]
                 b == Creation[2]
                 c == Creation[3]
                 d == Creation[4]
      <4>1. Creation = <<a, b, c, d>>
        BY <3>1
      <4>2. a \in Thread /\ b \in Thread /\ c \in Thread /\ d \in Thread
        BY <3>1
      <4> HIDE DEF a, b, c, d
      <4>3. Head(<<a, b, c, d>>) = a /\ Tail(<<a, b, c, d>>) = <<b, c, d>>
        BY <4>2, Rotate
      <4>4. Head(Creation) = a /\ Tail(Creation) = <<b, c, d>>
        BY <4>1, <4>3
      <4> QED
        BY <4>4 DEF a, b, c, d
    <3> QED
      BY <2>1, <3>2 DEF TurnOf
  <2>3. Buffered(1)' /\ AtMostTwoLinesLost'
    <3>1. ~eof /\ str = <<>> /\ Len(<<>>) = 0 /\ Alive
      BY <2>1 DEF RoundInv
    <3> QED
      BY <1>2, <3>1 DEF Prepare, data, Buffered, AtMostTwoLinesLost, Alive
  <2> QED
    BY <2>1, <2>2, <2>3, ThreadAssumption DEF RoundInv
<1>3. ASSUME UNCHANGED <<queues, g_tid>>, UNCHANGED data PROVE RoundInv'
  <2>1. curr_thread' = curr_thread /\ Ready' = Ready
    BY <1>3, TidyOther
  <2> QED
    BY <1>3, <2>1
       DEF data, RoundInv, TurnOf, Buffered, AtMostTwoLinesLost, Alive, Lines
<1> QED
  BY <1>1, <1>2, <1>3, ProgramSteps, RoundTurn, RoundEnd

(* The round is an invariant of the program that main starts.              *)
LEMMA RoundInvariance ==
    ASSUME ProgramThreads
    PROVE  RWSafeSpec => []RoundInv
<1>1. RWInit => RoundInv
  BY TidyInit DEF RWInit, RoundInv, AtMostTwoLinesLost, Alive
<1>2. RoundInv /\ TidyInv /\ TidyInv' /\ [RWNext]_rwvars => RoundInv'
  BY RoundStep
<1> QED
  BY <1>1, <1>2, TidyInvariance, PTL DEF RWSafeSpec

(* With the three readers and the writer that main creates, whatever the   *)
(* file and its last line: when the process ends everything has been read, *)
(* and at most two lines have not been printed.                            *)
THEOREM FewLinesLost ==
    ASSUME ProgramThreads
    PROVE  RWSafeSpec => []AtMostTwoLinesLost
<1>1. RoundInv => AtMostTwoLinesLost
  BY DEF RoundInv
<1> QED
  BY <1>1, RoundInvariance, PTL

(* With these threads the writer prints three lines, or all that is left   *)
(* of the file.                                                            *)
THEOREM PrintsThreeLines ==
    ASSUME ProgramThreads
    PROVE  RWSafeSpec => ThreeLinesAtATime
<1>1. ASSUME TidyInv, RoundInv, [RWNext]_rwvars, out' # out
      PROVE  Len(out') = Len(out) + 3 \/ fpos = Lines
  <2>1. PICK t \in Thread : V(t) /\ WriteLines(t)
    BY <1>1, ProgramSteps DEF Prepare, data, ReadLine, FileEnd, NoMoreWrite
  <2>2. t = curr_thread /\ curr_thread # NULL /\ t \notin Readers
    BY <1>1, <2>1, V_OnlyYields, ThreadAssumption DEF TidyInv, WriteLines
  <2>3. PICK k \in 1 .. 4 : TurnOf(k) /\ Buffered(k)
    BY <1>1, <2>2 DEF RoundInv
  <2>4. k = 4
    <3>1. k \notin 1 .. 3
      BY <1>1, <2>2, <2>3, TurnFacts
    <3> QED
      BY <3>1
  <2>5. out' = out \o str /\ out \in Seq(Nat) /\ str \in Seq(Nat)
    BY <1>1, <2>1 DEF WriteLines, TidyInv, AloneInv, RWInv, DataOK
  <2>6. Len(out') = Len(out) + Len(str)
    BY <2>5
  <2> HIDE DEF Lines
  <2>7. fpos = Lines \/ Len(str) = 3
    BY <2>3, <2>4 DEF Buffered
  <2> QED
    BY <2>6, <2>7
<1>2. TidyInv /\ RoundInv /\ [RWNext]_rwvars =>
         [out' # out => Len(out') = Len(out) + 3 \/ fpos = Lines]_rwvars
  BY <1>1
<1> QED
  BY <1>2, TidyInvariance, RoundInvariance, PTL DEF RWSafeSpec, ThreeLinesAtATime
=============================================================================
