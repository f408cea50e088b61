------------------------------ MODULE TcbQueue ------------------------------
(***************************************************************************)
(* The queues of assignment6/20170286.h: linked lists threaded through the *)
(* one field next of every tcb_t.  A queue is its head, a tcb or NULL; the *)
(* links are a function nx, shared by all queues.  addQueue and delQueue   *)
(* change both, so each is given as two operators: the head and the links  *)
(* that it leaves.                                                         *)
(***************************************************************************)
EXTENDS Naturals, FiniteSets

CONSTANTS Thread,  (* the thread control blocks                            *)
          NULL     (* the null pointer                                     *)

ASSUME ThreadAssumption == IsFiniteSet(Thread) /\ NULL \notin Thread

Pointer == Thread \cup {NULL}

(* The k-th tcb after h, NULL behind the end of the list.                  *)
Walk(nx, h) ==
    LET w[k \in 0 .. Cardinality(Thread)] ==
            IF k = 0 THEN h ELSE IF w[k - 1] = NULL THEN NULL ELSE nx[w[k - 1]]
    IN  w

(* The links lead round in a circle: while(current->next) never ends.      *)
Circular(nx, h) == Walk(nx, h)[Cardinality(Thread)] # NULL

(* The tcbs of a list.                                                     *)
Members(nx, h) ==
    {Walk(nx, h)[k] : k \in 0 .. Cardinality(Thread)} \ {NULL}

(* The tcbs of a list in their order.                                      *)
Listing(nx, h) == [k \in 1 .. Cardinality(Members(nx, h)) |-> Walk(nx, h)[k - 1]]

LastOf(nx, h) == CHOOSE t \in Members(nx, h) : nx[t] = NULL

---------------------------------------------------------------------------
(* addQueue(&h, t): a null item is ignored.  An item put behind others     *)
(* keeps the link it has.                                                  *)
AddHead(h, t) == IF t # NULL /\ h = NULL THEN t ELSE h

(* Fault, no part of the model: the item is linked behind the first one.   *)
AddLinksBehindHead(nx, h, t) ==
    IF t = NULL THEN nx
    ELSE IF h = NULL THEN [nx EXCEPT ![t] = NULL]
    ELSE [nx EXCEPT ![h] = t]

AddLinks(nx, h, t) ==
    IF t = NULL THEN nx
    ELSE IF h = NULL THEN [nx EXCEPT ![t] = NULL]
    ELSE [nx EXCEPT ![LastOf(nx, h)] = t]

AddHangs(nx, h, t) == t # NULL /\ h # NULL /\ Circular(nx, h)

(* delQueue(&h) returns h, NULL if the queue is empty.                     *)
DelHead(nx, h) == IF h = NULL THEN NULL ELSE nx[h]

(* Fault: the item taken from the queue keeps its link.                    *)
DelLinksKeepNext(nx, h) == nx

DelLinks(nx, h) == IF h = NULL THEN nx ELSE [nx EXCEPT ![h] = NULL]
===========================================================================
