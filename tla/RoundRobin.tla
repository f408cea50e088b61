----------------------------- MODULE RoundRobin -----------------------------
(***************************************************************************)
(* What the scheduler of assignment6/20170286.h promises, with no links    *)
(* between tcbs and no semaphore: the threads that are created run one     *)
(* after the other, first come first served.                               *)
(***************************************************************************)
EXTENDS Naturals, Sequences

CONSTANTS Thread,   (* the threads                                         *)
          NULL      (* no thread                                           *)

VARIABLES ready,    (* the threads that could run, in their order          *)
          running   (* the thread that runs, NULL before run()             *)

vars == <<ready, running>>

Init == ready = <<>> /\ running = NULL

Create(t) ==
    /\ running = NULL
    /\ \A k \in 1 .. Len(ready) : ready[k] # t
    /\ ready' = Append(ready, t)
    /\ UNCHANGED running

Start ==
    /\ running = NULL
    /\ ready # <<>>
    /\ running' = Head(ready)
    /\ ready' = Tail(ready)

(* The running thread goes behind all others, the first of which runs.     *)
Switch ==
    /\ running # NULL
    /\ LET q == Append(ready, running)
       IN  running' = Head(q) /\ ready' = Tail(q)

Next == (\E t \in Thread : Create(t)) \/ Start \/ Switch

Spec == Init /\ [][Next]_vars
=============================================================================
