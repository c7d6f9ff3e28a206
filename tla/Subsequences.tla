---------------------------- MODULE Subsequences ----------------------------
(* The elements of a sequence that lie in a set, in their order.  SelectSeq  *)
(* does the same with an operator for the set, about which no theorem can be *)
(* cited.                                                                    *)
EXTENDS Naturals, Sequences

Among(s, S) ==
  LET taken[n \in 0..Len(s)] ==
        IF n = 0 THEN <<>>
        ELSE IF s[n] \in S THEN Append(taken[n - 1], s[n]) ELSE taken[n - 1]
  IN  taken[Len(s)]
=============================================================================
