----------------------------- MODULE Subsequences -----------------------------
(* What filtering a list leaves, as a recursive function the provers can       *)
(* unfold (they know nothing of SelectSeq).                                    *)
EXTENDS Naturals, Sequences

\* The subsequence of s of the elements that are in T.
Kept(s, T) ==
    LET kept[n \in 0..Len(s)] ==
          IF n = 0 THEN <<>>
          ELSE IF s[n] \in T THEN Append(kept[n - 1], s[n]) ELSE kept[n - 1]
    IN kept[Len(s)]
=============================================================================
