---------------------------- MODULE Subsequences ----------------------------
(* The part of a sequence that passes a test, which is given as a set.  The *)
(* recursive function, unlike SelectSeq, is one the proofs can unfold.      *)
EXTENDS Integers, Sequences

\* The elements of s that are in S, in their order.
Only(s, S) ==
  LET kept[n \in 0..Len(s)] ==
        IF n = 0 THEN <<>>
        ELSE IF s[n] \in S THEN Append(kept[n - 1], s[n]) ELSE kept[n - 1]
  IN kept[Len(s)]

=============================================================================
