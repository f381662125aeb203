-------------------------------- MODULE Lists --------------------------------
(* Operators on sequences that the models of lists share.                  *)
EXTENDS Integers, Sequences

\* The members of s at the positions in K, in their order.
SubList(s, K) ==
    LET kept[n \in 0..Len(s)] ==
            IF n = 0 THEN <<>>
            ELSE IF n \in K THEN Append(kept[n - 1], s[n]) ELSE kept[n - 1]
    IN  kept[Len(s)]

\* The sum of a sequence of numbers.
SumSeq(s) ==
    LET sum[n \in 0..Len(s)] == IF n = 0 THEN 0 ELSE sum[n - 1] + s[n]
    IN  sum[Len(s)]
==============================================================================
