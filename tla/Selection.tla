------------------------------ MODULE Selection ------------------------------
(* SelectSeq by a set instead of an operator, in a form that proofs can unfold. *)
EXTENDS Naturals, Sequences

\* The elements of s that are in S, in their order.
Select(s, S) ==
  LET upTo[n \in 0 .. Len(s)] == IF n = 0 THEN <<>>
                                 ELSE IF s[n] \in S THEN Append(upTo[n - 1], s[n])
                                 ELSE upTo[n - 1]
  IN upTo[Len(s)]

=============================================================================
