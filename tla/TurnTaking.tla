---------------------------- MODULE TurnTaking ----------------------------
(***************************************************************************)
(* What the ring of assignment3 promises, with no pipes and no signals:    *)
(* MAX_NODE nodes read the lines of one file in turn, in the cyclic order  *)
(* 0, 1, ..., MAX_NODE-1, 0, ..., until one of them meets the end of the   *)
(* file; then the nodes leave, the last one first and node 0 at the end.   *)
(***************************************************************************)
EXTENDS Naturals, Sequences

CONSTANTS MAX_NODE,   (* number of nodes                                   *)
          FileLines   (* the numbers of lines the input file may have      *)

VARIABLES lines,      (* number of newline-terminated lines of the file    *)
          readBy,     (* the nodes that called printOneLine, in order      *)
          left        (* the nodes that have said good bye                 *)

vars == <<lines, readBy, left>>

Node == 0 .. MAX_NODE - 1

Init ==
    /\ lines \in FileLines
    /\ readBy = <<>>
    /\ left = {}

(* One call of printOneLine.  Call lines + 1 is the one that meets EOF.    *)
TakeTurn ==
    /\ Len(readBy) <= lines
    /\ readBy' = Append(readBy, Len(readBy) % MAX_NODE)
    /\ UNCHANGED <<lines, left>>

(* Nobody leaves before the whole file was read, nor before its successor. *)
Leave(n) ==
    /\ Len(readBy) = lines + 1
    /\ n \notin left
    /\ \A m \in Node : m > n => m \in left
    /\ left' = left \cup {n}
    /\ UNCHANGED <<lines, readBy>>

Next == TakeTurn \/ \E n \in Node : Leave(n)

SafeSpec == Init /\ [][Next]_vars

Spec == SafeSpec /\ WF_vars(Next)
===========================================================================
