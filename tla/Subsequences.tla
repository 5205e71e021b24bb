---------------------------- MODULE Subsequences ----------------------------
(***************************************************************************)
(* The loops of the source that copy some elements of a slice into a new   *)
(* one.  SelectSeq, with its operator argument, is beyond the provers;     *)
(* this takes the set of the places that are kept.                         *)
(***************************************************************************)
EXTENDS Integers, Sequences

\* The elements of s at these places, in their order.
KeepAt(s, places) ==
    LET kept[n \in 0..Len(s)] ==
          IF n = 0 THEN <<>>
          ELSE IF n \in places THEN Append(kept[n - 1], s[n]) ELSE kept[n - 1]
    IN  kept[Len(s)]
=============================================================================
