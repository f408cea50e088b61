------------------------------- MODULE UThread -------------------------------
(***************************************************************************)
(* The user-level threads and the semaphore of assignment6/20170286.h.     *)
(* One thread runs at a time and gives up the processor only in yield, so  *)
(* each call of the library is one step; the thread goes on where its      *)
(* context was saved: in the loop of P, or behind yield or V.              *)
(*                                                                         *)
(* Spec is the library with clients that call yield, P and V as they like, *)
(* V only while they hold the semaphore.                                   *)
(***************************************************************************)
EXTENDS TcbQueue, Sequences

CONSTANTS Creation,   (* the threads in the order in which main creates    *)
                      (* them                                              *)
          SemValue    (* the argument of sem_create                        *)

ASSUME CreationAssumption ==
    /\ Creation \in Seq(Thread) /\ Creation # <<>>
    /\ \A i, j \in 1 .. Len(Creation) : Creation[i] = Creation[j] => i = j
    /\ Thread = {Creation[i] : i \in 1 .. Len(Creation)}
ASSUME SemAssumption == SemValue \in Nat \ {0}

VARIABLES
    next,           (* the field next of every tcb                         *)
    thread_queue,   (* head of the queue of runnable threads               *)
    curr_thread,    (* the thread that runs                                *)
    g_tid,          (* the number of the next thread to create             *)
    counter,        (* of the semaphore                                    *)
    sem_q,          (* head of the semaphore's queue                       *)
    pc,             (* where a thread goes on when it runs                 *)
    hung            (* addQueue walks round in a circle                    *)

queues == <<next, thread_queue, curr_thread, hung>>
semaphore == <<counter, sem_q>>
vars == <<next, thread_queue, curr_thread, g_tid, counter, sem_q, pc, hung>>

---------------------------------------------------------------------------
Init ==
    /\ next = [t \in Thread |-> NULL]
    /\ thread_queue = NULL
    /\ curr_thread = NULL
    /\ g_tid = 1
    /\ counter = SemValue
    /\ sem_q = NULL
    /\ pc = [t \in Thread |-> "out"]
    /\ hung = FALSE

create_thread ==
    /\ curr_thread = NULL
    /\ g_tid <= Len(Creation)
    /\ LET t == Creation[g_tid]
       IN  /\ thread_queue' = AddHead(thread_queue, t)
           /\ next' = AddLinks(next, thread_queue, t)
    /\ g_tid' = g_tid + 1
    /\ UNCHANGED <<curr_thread, counter, sem_q, pc, hung>>

run ==
    /\ curr_thread = NULL
    /\ g_tid > Len(Creation)
    /\ curr_thread' = thread_queue
    /\ thread_queue' = DelHead(next, thread_queue)
    /\ next' = DelLinks(next, thread_queue)
    /\ UNCHANGED <<g_tid, counter, sem_q, pc, hung>>

---------------------------------------------------------------------------
(* The running thread puts itself behind the runnable ones and goes on     *)
(* with the first, when the links are nx and the first runnable is q.      *)
YieldWith(nx, q) ==
    IF AddHangs(nx, q, curr_thread)
      THEN /\ hung' = TRUE
           /\ next' = nx /\ thread_queue' = q /\ UNCHANGED curr_thread
      ELSE LET h == AddHead(q, curr_thread)
               l == AddLinks(nx, q, curr_thread)
           IN  /\ curr_thread' = h
               /\ thread_queue' = DelHead(l, h)
               /\ next' = DelLinks(l, h)
               /\ UNCHANGED hung

Runs(t) == t = curr_thread /\ ~hung

(* yield, called by the client.                                            *)
yield(t) ==
    /\ Runs(t)
    /\ pc[t] \in {"out", "in"}
    /\ YieldWith(next, thread_queue)
    /\ UNCHANGED <<g_tid, counter, sem_q, pc>>

(* Faults, no part of the model: P lets one more thread in; P forgets to   *)
(* count.                                                                  *)
P_TakeOneMore(t) ==
    /\ Runs(t)
    /\ pc[t] \in {"out", "P"}
    /\ counter >= 0
    /\ counter' = counter - 1
    /\ pc' = [pc EXCEPT ![t] = "in"]
    /\ UNCHANGED <<queues, g_tid, sem_q>>

P_TakeUncounted(t) ==
    /\ Runs(t)
    /\ pc[t] \in {"out", "P"}
    /\ counter > 0
    /\ pc' = [pc EXCEPT ![t] = "in"]
    /\ UNCHANGED <<queues, g_tid, semaphore>>

(* The loop of P: wait as long as the counter is not positive.             *)
P_Take(t) ==
    /\ Runs(t)
    /\ pc[t] \in {"out", "P"}
    /\ counter > 0
    /\ counter' = counter - 1
    /\ pc' = [pc EXCEPT ![t] = "in"]
    /\ UNCHANGED <<queues, g_tid, sem_q>>

P_Wait(t) ==
    /\ Runs(t)
    /\ pc[t] \in {"out", "P"}
    /\ counter <= 0
    /\ IF AddHangs(next, sem_q, t)
         THEN hung' = TRUE /\ UNCHANGED <<next, thread_queue, curr_thread, sem_q>>
         ELSE /\ sem_q' = AddHead(sem_q, t)
              /\ YieldWith(AddLinks(next, sem_q, t), thread_queue)
    /\ pc' = [pc EXCEPT ![t] = "P"]
    /\ UNCHANGED <<g_tid, counter>>

(* V increments, makes the first waiting thread runnable if the counter is *)
(* positive now, and yields.                                               *)
V(t) ==
    /\ Runs(t)
    /\ pc[t] = "in"
    /\ counter' = counter + 1
    /\ IF counter' >= 1
         THEN LET w == sem_q
                  l == DelLinks(next, sem_q)
              IN  /\ sem_q' = DelHead(next, sem_q)
                  /\ IF AddHangs(l, thread_queue, w)
                       THEN /\ hung' = TRUE /\ next' = l
                            /\ UNCHANGED <<thread_queue, curr_thread>>
                       ELSE YieldWith(AddLinks(l, thread_queue, w),
                                      AddHead(thread_queue, w))
         ELSE UNCHANGED sem_q /\ YieldWith(next, thread_queue)
    /\ pc' = [pc EXCEPT ![t] = "out"]
    /\ UNCHANGED g_tid

Main == create_thread \/ run
Call(t) == yield(t) \/ P_Take(t) \/ P_Wait(t) \/ V(t)

(* A call of addQueue that never returns.                                  *)
Spin == hung /\ UNCHANGED vars

Next == Main \/ (\E t \in Thread : Call(t)) \/ Spin

Spec == Init /\ [][Next]_vars /\ WF_vars(Next)

---------------------------------------------------------------------------
(* The type invariant.  The counter never exceeds the value of sem_create  *)
(* nor becomes negative, although its type allows it.                      *)
TypeOK ==
    /\ next \in [Thread -> Pointer]
    /\ thread_queue \in Pointer
    /\ curr_thread \in Pointer
    /\ g_tid \in 1 .. Len(Creation) + 1
    /\ counter \in 0 .. SemValue
    /\ sem_q \in Pointer
    /\ pc \in [Thread -> {"out", "P", "in"}]
    /\ hung \in BOOLEAN

(* The threads between P and V.                                            *)
Inside == {t \in Thread : pc[t] = "in"}

(* The semaphore counts: never more than SemValue threads are between P    *)
(* and V, and the counter tells how many more may enter.  It holds however *)
(* the queues of P and V are spoilt, because P tests the counter again     *)
(* whenever its thread runs.                                               *)
SemaphoreCounts == counter + Cardinality(Inside) = SemValue

(* No thread is lost: one that was created runs or can be reached from the *)
(* head of a queue, although its one link may serve two queues.            *)
NoThreadLost ==
    ~hung => {Creation[i] : i \in 1 .. g_tid - 1} \subseteq
                {curr_thread} \cup Members(next, thread_queue)
                              \cup Members(next, sem_q)

(* P blocks the thread in the queue of the semaphore, as its comment says: *)
(* a thread in that queue neither runs nor is runnable.                    *)
WaitingThreadIsBlocked ==
    \A t \in Members(next, sem_q) :
        t # curr_thread /\ t \notin Members(next, thread_queue)
===========================================================================
