----------------------------- MODULE HpackQueue -----------------------------
(***************************************************************************)
(* What the dynamic table of HPACK promises: a queue of fields, the newest *)
(* first, that holds the longest run of the newest ones fitting its limit. *)
(***************************************************************************)
EXTENDS Naturals, Sequences, FiniteSetsExt, Lists

CONSTANTS Field, SizeOf(_), TableSize

VARIABLES queue, limit

Weight(q) == SumOf([i \in 1..Len(q) |-> SizeOf(q[i])])

\* The longest prefix of q that weighs no more than n.
Fitting(q, n) ==
    SubSeq(q, 1, Max({k \in 0..Len(q) : Weight(SubSeq(q, 1, k)) <= n}))

QueueInit == queue = <<>> /\ limit = TableSize

\* A field that does not fit on its own empties the queue.
Insert(f) == queue' = Fitting(<<f>> \o queue, limit) /\ UNCHANGED limit

Resize(n) == limit' = n /\ queue' = Fitting(queue, n)

QueueNext ==
    \/ \E n \in 0..TableSize : Resize(n)
    \/ \E f \in Field : Insert(f)

QueueSpec == QueueInit /\ [][QueueNext]_<<queue, limit>>
=============================================================================
