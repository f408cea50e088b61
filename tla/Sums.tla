-------------------------------- MODULE Sums --------------------------------
(***************************************************************************)
(* The loops that add up the elements of a list, as getListSize and strlen *)
(* do.                                                                     *)
(***************************************************************************)
EXTENDS Naturals, Sequences

(* The sums of the first 0, 1, .. elements of a sequence of numbers.       *)
RunningTotal(g) ==
    LET s[k \in 0 .. Len(g)] == IF k = 0 THEN 0 ELSE s[k - 1] + g[k]
    IN  s

Total(g) == RunningTotal(g)[Len(g)]
=============================================================================
