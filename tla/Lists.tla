------------------------------- MODULE Lists --------------------------------
(***************************************************************************)
(* What the loops over a list of Qt do to it.                              *)
(***************************************************************************)
EXTENDS Integers, Sequences

(* The list without those that are not in the set. *)
Kept(list, S) ==
  LET kept[n \in 0..Len(list)] ==
        IF n = 0 THEN <<>>
        ELSE IF list[n] \in S THEN Append(kept[n - 1], list[n]) ELSE kept[n - 1]
  IN  kept[Len(list)]
=============================================================================
