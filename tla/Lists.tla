-------------------------------- MODULE Lists --------------------------------
(***************************************************************************)
(* What the models say of lists and arrays that the modules of sequences   *)
(* do not have in a form that can be reasoned about.                       *)
(***************************************************************************)
EXTENDS Integers, Sequences

\* The elements of a sequence that are in a set, in their order.
Those(seq, S) ==
    LET those[n \in 0..Len(seq)] ==
          IF n = 0 THEN <<>>
          ELSE IF seq[n] \in S THEN Append(those[n - 1], seq[n])
          ELSE those[n - 1]
    IN  those[Len(seq)]

\* The sum of a sequence of numbers.
SumOf(seq) ==
    LET sum[n \in 0..Len(seq)] == IF n = 0 THEN 0 ELSE sum[n - 1] + seq[n]
    IN  sum[Len(seq)]
=============================================================================
