---------------------------- MODULE ListSequence ----------------------------
(***************************************************************************)
(* What a list promises: a sequence that values are inserted into and      *)
(* removed from, and that may be sorted.                                   *)
(***************************************************************************)
EXTENDS Integers, Sequences, SequencesExt

CONSTANT ListValue

VARIABLE sequence

SequenceInit == sequence = <<>>

\* Sorted by the first part of every value, in any order of the alike.
Sorted(s) == \A k \in 1..Len(s) - 1 : s[k][1] <= s[k + 1][1]

SequenceNext ==
    \/ \E k \in 1..Len(sequence) : sequence' = RemoveAt(sequence, k)
    \/ \E k \in 1..Len(sequence) + 1, v \in ListValue : sequence' = InsertAt(sequence, k, v)
    \/ /\ Len(sequence') = Len(sequence) /\ Range(sequence') = Range(sequence)
       /\ Sorted(sequence')

SequenceSpec == SequenceInit /\ [][SequenceNext]_sequence
=============================================================================
