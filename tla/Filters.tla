-------------------------------- MODULE Filters --------------------------------
(***************************************************************************)
(* What a list comprehension with a condition keeps of a list.  It is what *)
(* SelectSeq computes, with a set in place of the test, so that the proofs *)
(* can reason about it.                                                    *)
(***************************************************************************)
EXTENDS Naturals, Sequences

Filter(s, S) ==
    LET kept[n \in 0..Len(s)] ==
          IF n = 0 THEN <<>>
          ELSE IF s[n] \in S THEN Append(kept[n - 1], s[n]) ELSE kept[n - 1]
    IN  kept[Len(s)]
=============================================================================
