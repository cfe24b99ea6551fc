------------------------------- MODULE Selection -------------------------------
(***************************************************************************)
(* The rows of a table numbered 1, 2, ... that lie in a set, in the order  *)
(* of their numbers: what a query returns that is read ORDER BY sequence.  *)
(* SelectSeq would say the same; a recursive function can be proved about. *)
(***************************************************************************)
EXTENDS Naturals, Sequences

InOrder(S, last) ==
  LET upTo[n \in 0..last] ==
        IF n = 0 THEN <<>>
        ELSE IF n \in S THEN Append(upTo[n - 1], n) ELSE upTo[n - 1]
  IN  upTo[last]
=============================================================================
