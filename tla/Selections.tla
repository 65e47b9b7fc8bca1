------------------------------ MODULE Selections ------------------------------
(***************************************************************************)
(* What a loop with a condition takes from a sequence: the elements that   *)
(* are in a set, in their order.                                           *)
(***************************************************************************)
EXTENDS Integers, Sequences

Selection(s, S) ==
  LET upTo[n \in 0..Len(s)] ==
        IF n = 0 THEN <<>>
        ELSE IF s[n] \in S THEN Append(upTo[n - 1], s[n]) ELSE upTo[n - 1]
  IN  upTo[Len(s)]
=============================================================================
