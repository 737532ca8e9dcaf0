----------------------------- MODULE Hpack_proofs -----------------------------
(***************************************************************************)
(* Proofs about the tables of the program.  Of Hpack, for any names and    *)
(* values, any static table and any size of the dynamic one: the ring of   *)
(* each end stays sound whatever it is sent, two honest ends hold the same *)
(* fields at the end of every block, and the ring is a refinement of the   *)
(* queue that HpackQueue promises.  Of HashMap, for any names and sizes:   *)
(* the open addressed map is the function that was set.                    *)
(***************************************************************************)
EXTENDS Hpack, HashMap, ListLemmas

-----------------------------------------------------------------------------
(* The sizes of fields and of their lists.                                 *)

\* What the constants give: an entry is no smaller than its overhead, and the ring has a
\* place at least.
LEMMA EntrySizeIs ==
    /\ \A f \in HpackField : EntrySize(f) \in Nat /\ EntrySize(f) >= Overhead
    /\ NoField \notin HpackField
    /\ Overhead \in Nat \ {0} /\ TableSize \in Nat /\ Entries \in Nat \ {0}
    /\ Static \in Seq(HpackField)
    /\ \A n \in Nat : n * Overhead <= TableSize => n <= Entries
<1>1. ASSUME NEW f \in HpackField PROVE EntrySize(f) \in Nat /\ EntrySize(f) >= Overhead
  <2>1. f.name \in DOMAIN NameSize /\ f.value \in DOMAIN ValueSize
    BY DEF HpackField
  <2>2. NameSize[f.name] \in Nat /\ ValueSize[f.value] \in Nat /\ Overhead \in Nat
    BY <2>1, HpackAssumption
  <2>. QED BY <2>2 DEF EntrySize
<1>2. NoField \notin HpackField
  BY HpackAssumption DEF NoField, HpackField
<1>3. Overhead \in Nat \ {0} /\ TableSize \in Nat /\ TableSize >= Overhead
  BY HpackAssumption
<1>4. /\ TableSize = Overhead * Entries + (TableSize % Overhead)
      /\ TableSize % Overhead \in 0..Overhead - 1 /\ Entries \in Nat
  BY <1>3 DEF Entries
<1>5. ASSUME NEW n \in Nat, n * Overhead <= TableSize PROVE n <= Entries
  BY <1>3, <1>5 DEF Entries
<1>6. Entries # 0
  <2>1. 1 * Overhead <= TableSize
    BY <1>3
  <2>2. 1 <= Entries
    BY <1>5, <2>1
  <2>. QED BY <1>4, <2>2
<1>7. Static \in Seq(HpackField)
  BY HpackAssumption DEF HpackField
<1>. QED BY <1>1, <1>2, <1>3, <1>4, <1>5, <1>6, <1>7

\* The sizes that are summed up.
Sizes(q) == [i \in 1..Len(q) |-> EntrySize(q[i])]

\* They are numbers.
LEMMA SizesAre ==
    ASSUME NEW q \in Seq(HpackField)
    PROVE  /\ Sizes(q) \in Seq(Nat) /\ Len(Sizes(q)) = Len(q) /\ Len(q) \in Nat
           /\ \A i \in 1..Len(q) : Sizes(q)[i] = EntrySize(q[i]) /\ EntrySize(q[i]) \in Nat
           /\ ListSize(q) = SumOf(Sizes(q)) /\ ListSize(q) \in Nat
<1>1. Len(q) \in Nat /\ \A i \in 1..Len(q) : q[i] \in HpackField
  OBVIOUS
<1>2. \A i \in 1..Len(q) : EntrySize(q[i]) \in Nat
  BY <1>1, EntrySizeIs
<1>3. Sizes(q) \in Seq(Nat) /\ Len(Sizes(q)) = Len(q)
  BY <1>1, <1>2 DEF Sizes
<1>4. ListSize(q) = SumOf(Sizes(q))
  BY DEF ListSize, Sizes
<1>5. SumOf(Sizes(q)) \in Nat
  BY <1>3, SumIs
<1>. QED BY <1>1, <1>2, <1>3, <1>4, <1>5 DEF Sizes

\* One field more at the end of a list.
LEMMA ListSizeWithLast ==
    ASSUME NEW q \in Seq(HpackField), NEW n, n = Len(q), n # 0,
           NEW front \in Seq(HpackField), Len(front) = n - 1,
           \A i \in 1..n - 1 : front[i] = q[i]
    PROVE  ListSize(q) = ListSize(front) + EntrySize(q[n])
<1>1. /\ Sizes(q) \in Seq(Nat) /\ Len(Sizes(q)) = n /\ n \in Nat
      /\ \A i \in 1..n : Sizes(q)[i] = EntrySize(q[i])
      /\ ListSize(q) = SumOf(Sizes(q))
  BY SizesAre
<1>2. /\ Sizes(front) \in Seq(Nat) /\ Len(Sizes(front)) = n - 1
      /\ \A i \in 1..n - 1 : Sizes(front)[i] = EntrySize(front[i])
      /\ ListSize(front) = SumOf(Sizes(front))
  BY SizesAre
<1>3. \A i \in 1..n - 1 : Sizes(front)[i] = Sizes(q)[i]
  BY <1>1, <1>2
<1>4. PICK a, b : a = Sizes(q) /\ b = Sizes(front)
  OBVIOUS
<1>5. SumOf(a) = SumOf(b) + a[n]
  BY <1>1, <1>2, <1>3, <1>4, SumWithLast
<1>6. n \in 1..n
  BY <1>1
<1>. QED BY <1>1, <1>2, <1>4, <1>5, <1>6

\* An empty list has no size.
LEMMA ListSizeOfNone ==
    ASSUME NEW q \in Seq(HpackField), Len(q) = 0
    PROVE  ListSize(q) = 0
  BY SizesAre, SumOfNone

\* The beginnings of a list, one after the other.
LEMMA ListSizeGrows ==
    ASSUME NEW q \in Seq(HpackField), NEW k \in 0..Len(q) - 1
    PROVE  ListSize(SubSeq(q, 1, k + 1)) = ListSize(SubSeq(q, 1, k)) + EntrySize(q[k + 1])
<1>1. PICK a, b : a = SubSeq(q, 1, k + 1) /\ b = SubSeq(q, 1, k)
  OBVIOUS
<1>2. /\ Len(q) \in Nat /\ k \in Nat /\ k + 1 \in 1..Len(q) /\ k <= Len(q)
      /\ \A i \in 1..Len(q) : q[i] \in HpackField
  OBVIOUS
<1>3. /\ a \in Seq(HpackField) /\ Len(a) = k + 1 /\ \A i \in 1..k + 1 : a[i] = q[i]
      /\ b \in Seq(HpackField) /\ Len(b) = k /\ \A i \in 1..k : b[i] = q[i]
  BY <1>1, <1>2
<1>4. PICK n : n = k + 1
  OBVIOUS
<1>5. /\ n = Len(a) /\ n # 0 /\ Len(b) = n - 1 /\ \A i \in 1..n - 1 : b[i] = a[i]
      /\ a[n] = q[n]
  BY <1>2, <1>3, <1>4
<1>6. ListSize(a) = ListSize(b) + EntrySize(a[n])
  BY <1>3, <1>5, ListSizeWithLast
<1>. QED BY <1>1, <1>4, <1>5, <1>6

\* A longer beginning is no smaller.
LEMMA ListSizeOrder ==
    ASSUME NEW q \in Seq(HpackField), NEW j \in 0..Len(q), NEW k \in j..Len(q)
    PROVE  ListSize(SubSeq(q, 1, j)) <= ListSize(SubSeq(q, 1, k))
<1>. DEFINE S == {m \in 0..(Len(q) - j) :
                    ListSize(SubSeq(q, 1, j)) <= ListSize(SubSeq(q, 1, j + m))}
<1>0. Len(q) \in Nat /\ j \in Nat /\ k \in Nat /\ k - j \in 0..(Len(q) - j) /\ j + (k - j) = k
      /\ Len(q) - j \in Nat /\ j + 0 = j
  OBVIOUS
<1>1. \A m \in 0..Len(q) : ListSize(SubSeq(q, 1, m)) \in Nat
  <2>1. TAKE m \in 0..Len(q)
  <2>2. SubSeq(q, 1, m) \in Seq(HpackField)
    OBVIOUS
  <2>. QED BY <2>2, SizesAre
<1>2. 0 \in S
  <2>1. ListSize(SubSeq(q, 1, j)) <= ListSize(SubSeq(q, 1, j + 0))
    BY <1>0, <1>1
  <2>. QED BY <1>0, <2>1
<1>3. ASSUME NEW m \in 0..(Len(q) - j), m \in S, m < Len(q) - j PROVE m + 1 \in S
  <2>1. /\ j + m \in 0..Len(q) - 1 /\ j + (m + 1) = (j + m) + 1 /\ m + 1 \in 0..(Len(q) - j)
        /\ j + m \in 0..Len(q) /\ (j + m) + 1 \in 1..Len(q)
    BY <1>0, <1>3
  <2>2. ListSize(SubSeq(q, 1, (j + m) + 1))
           = ListSize(SubSeq(q, 1, j + m)) + EntrySize(q[(j + m) + 1])
    BY <2>1, ListSizeGrows
  <2>3. EntrySize(q[(j + m) + 1]) \in Nat
    BY <2>1, SizesAre
  <2>4. ListSize(SubSeq(q, 1, j)) <= ListSize(SubSeq(q, 1, j + m))
    BY <1>3
  <2>5. ListSize(SubSeq(q, 1, j)) \in Nat /\ ListSize(SubSeq(q, 1, j + m)) \in Nat
    BY <1>0, <1>1, <2>1
  <2>6. ListSize(SubSeq(q, 1, j)) <= ListSize(SubSeq(q, 1, (j + m) + 1))
    BY <2>2, <2>3, <2>4, <2>5
  <2>. QED BY <2>1, <2>6
<1>. HIDE DEF S
<1>4. k - j \in S
  <2>1. PICK N : N = Len(q) - j
    OBVIOUS
  <2>2. N \in Nat /\ 0 \in S /\ \A m \in 0..N : m \in S /\ m < N => m + 1 \in S
    BY <1>0, <1>2, <1>3, <2>1
  <2>3. \A m \in 0..N : m \in S
    BY <2>2, UpTo
  <2>. QED BY <1>0, <2>1, <2>3
<1>. QED BY <1>0, <1>4 DEF S

\* The whole of a list is a beginning of it.
LEMMA WholeIs ==
    ASSUME NEW S, NEW q \in Seq(S)
    PROVE  SubSeq(q, 1, Len(q)) = q
  OBVIOUS

\* A list takes the overhead of each of its fields.
LEMMA ListSizeAtLeast ==
    ASSUME NEW q \in Seq(HpackField)
    PROVE  Len(q) * Overhead <= ListSize(q)
<1>. DEFINE S == {m \in 0..Len(q) : m * Overhead <= ListSize(SubSeq(q, 1, m))}
<1>0. Len(q) \in Nat /\ Overhead \in Nat
  BY EntrySizeIs
<1>1. 0 \in S
  <2>1. SubSeq(q, 1, 0) \in Seq(HpackField) /\ Len(SubSeq(q, 1, 0)) = 0
    OBVIOUS
  <2>2. ListSize(SubSeq(q, 1, 0)) = 0
    BY <2>1, ListSizeOfNone
  <2>3. 0 * Overhead <= 0 /\ 0 \in 0..Len(q)
    BY <1>0
  <2>. QED BY <2>2, <2>3
<1>2. ASSUME NEW m \in 0..Len(q), m \in S, m < Len(q) PROVE m + 1 \in S
  <2>1. m \in 0..Len(q) - 1 /\ m + 1 \in 1..Len(q) /\ m + 1 \in 0..Len(q) /\ m \in Nat
    BY <1>0, <1>2
  <2>2. ListSize(SubSeq(q, 1, m + 1)) = ListSize(SubSeq(q, 1, m)) + EntrySize(q[m + 1])
    BY <2>1, ListSizeGrows
  <2>3. EntrySize(q[m + 1]) \in Nat /\ EntrySize(q[m + 1]) >= Overhead
    <3>1. q[m + 1] \in HpackField
      BY <2>1
    <3>. QED BY <3>1, EntrySizeIs
  <2>4. m * Overhead <= ListSize(SubSeq(q, 1, m)) /\ ListSize(SubSeq(q, 1, m)) \in Nat
    <3>1. SubSeq(q, 1, m) \in Seq(HpackField)
      BY <2>1
    <3>. QED BY <1>2, <3>1, SizesAre
  <2>5. (m + 1) * Overhead = m * Overhead + Overhead /\ m * Overhead \in Nat
    BY <1>0, <2>1
  <2>. DEFINE w == ListSize(SubSeq(q, 1, m))
              e == EntrySize(q[m + 1])
              p == m * Overhead
  <2>6. p + Overhead <= w + e
    <3>1. p <= w /\ Overhead <= e /\ p \in Nat /\ w \in Nat /\ e \in Nat
      BY <2>3, <2>4, <2>5
    <3>. HIDE DEF p, w, e
    <3>. QED BY <1>0, <3>1
  <2>. QED BY <2>1, <2>2, <2>5, <2>6
<1>. HIDE DEF S
<1>3. Len(q) \in S
  <2>1. PICK N : N = Len(q)
    OBVIOUS
  <2>2. N \in Nat /\ 0 \in S /\ \A m \in 0..N : m \in S /\ m < N => m + 1 \in S
    BY <1>0, <1>1, <1>2, <2>1
  <2>3. \A m \in 0..N : m \in S
    BY <2>2, UpTo
  <2>. QED BY <1>0, <2>1, <2>3
<1>4. Len(q) * Overhead <= ListSize(SubSeq(q, 1, Len(q)))
  BY <1>3 DEF S
<1>. QED BY <1>4, WholeIs

\* One field more at the head of a list: each beginning is larger by its size.
LEMMA ListSizeBehind ==
    ASSUME NEW q \in Seq(HpackField), NEW f \in HpackField
    PROVE  \A m \in 0..Len(q) :
              ListSize(SubSeq(<<f>> \o q, 1, m + 1)) = EntrySize(f) + ListSize(SubSeq(q, 1, m))
<1>. DEFINE c == <<f>> \o q
            S == {m \in 0..Len(q) :
                    ListSize(SubSeq(c, 1, m + 1)) = EntrySize(f) + ListSize(SubSeq(q, 1, m))}
<1>1. /\ Len(q) \in Nat /\ EntrySize(f) \in Nat
      /\ c \in Seq(HpackField) /\ Len(c) = Len(q) + 1 /\ c[1] = f
      /\ \A i \in 1..Len(q) : c[i + 1] = q[i]
  <2>1. <<f>> \in Seq(HpackField) /\ Len(<<f>>) = 1 /\ <<f>>[1] = f
    OBVIOUS
  <2>2. PICK one : one = <<f>>
    OBVIOUS
  <2>3. /\ one \o q \in Seq(HpackField) /\ Len(one \o q) = 1 + Len(q)
        /\ \A i \in 1..1 + Len(q) : (one \o q)[i] = IF i <= 1 THEN one[i] ELSE q[i - 1]
    <3>1. one \in Seq(HpackField) /\ Len(one) = 1
      BY <2>1, <2>2
    <3>. QED BY <3>1, Joined
  <2>4. Len(q) \in Nat
    OBVIOUS
  <2>5. (one \o q)[1] = f /\ \A i \in 1..Len(q) : (one \o q)[i + 1] = q[i]
    <3>1. 1 \in 1..1 + Len(q) /\ one[1] = f
      BY <2>1, <2>2, <2>4
    <3>2. ASSUME NEW i \in 1..Len(q) PROVE (one \o q)[i + 1] = q[i]
      <4>1. i + 1 \in 1..1 + Len(q) /\ ~ (i + 1 <= 1) /\ (i + 1) - 1 = i
        BY <2>4
      <4>. QED BY <4>1, <2>3
    <3>. QED BY <3>1, <3>2, <2>3
  <2>6. c = one \o q /\ 1 + Len(q) = Len(q) + 1
    BY <2>2, <2>4
  <2>. HIDE DEF c
  <2>. QED BY <2>3, <2>4, <2>5, <2>6, EntrySizeIs
<1>. HIDE DEF c
<1>2. 0 \in S
  <2>1. /\ SubSeq(q, 1, 0) \in Seq(HpackField) /\ Len(SubSeq(q, 1, 0)) = 0
        /\ SubSeq(c, 1, 0) \in Seq(HpackField) /\ Len(SubSeq(c, 1, 0)) = 0
    BY <1>1
  <2>2. ListSize(SubSeq(q, 1, 0)) = 0 /\ ListSize(SubSeq(c, 1, 0)) = 0
    BY <2>1, ListSizeOfNone
  <2>3. ListSize(SubSeq(c, 1, 0 + 1)) = ListSize(SubSeq(c, 1, 0)) + EntrySize(c[0 + 1])
    <3>1. 0 \in 0..Len(c) - 1
      BY <1>1
    <3>. QED BY <3>1, <1>1, ListSizeGrows
  <2>4. c[0 + 1] = f /\ 0 \in 0..Len(q)
    BY <1>1
  <2>. QED BY <1>1, <2>2, <2>3, <2>4
<1>3. ASSUME NEW m \in 0..Len(q), m \in S, m < Len(q) PROVE m + 1 \in S
  <2>1. /\ m \in 0..Len(q) - 1 /\ m + 1 \in 0..Len(c) - 1 /\ m + 1 \in 0..Len(q)
        /\ m + 1 \in 1..Len(q)
    BY <1>1, <1>3
  <2>2. ListSize(SubSeq(q, 1, m + 1)) = ListSize(SubSeq(q, 1, m)) + EntrySize(q[m + 1])
    BY <2>1, ListSizeGrows
  <2>3. ListSize(SubSeq(c, 1, (m + 1) + 1))
           = ListSize(SubSeq(c, 1, m + 1)) + EntrySize(c[(m + 1) + 1])
    BY <1>1, <2>1, ListSizeGrows
  <2>4. c[(m + 1) + 1] = q[m + 1]
    BY <1>1, <2>1
  <2>5. ListSize(SubSeq(c, 1, m + 1)) = EntrySize(f) + ListSize(SubSeq(q, 1, m))
    BY <1>3
  <2>6. ListSize(SubSeq(q, 1, m)) \in Nat /\ EntrySize(q[m + 1]) \in Nat
    <3>1. SubSeq(q, 1, m) \in Seq(HpackField)
      BY <2>1
    <3>. QED BY <2>1, <3>1, SizesAre
  <2>7. ListSize(SubSeq(c, 1, (m + 1) + 1)) = EntrySize(f) + ListSize(SubSeq(q, 1, m + 1))
    BY <1>1, <2>2, <2>3, <2>4, <2>5, <2>6
  <2>. QED BY <2>1, <2>7
<1>. HIDE DEF S
<1>4. \A m \in 0..Len(q) : m \in S
  <2>1. PICK N : N = Len(q)
    OBVIOUS
  <2>2. N \in Nat /\ 0 \in S /\ \A m \in 0..N : m \in S /\ m < N => m + 1 \in S
    BY <1>1, <1>2, <1>3, <2>1
  <2>3. \A m \in 0..N : m \in S
    BY <2>2, UpTo
  <2>. QED BY <2>1, <2>3
<1>. QED BY <1>4 DEF S, c

-----------------------------------------------------------------------------
(* The ring.                                                               *)

\* A ring whose entries are where the head and the count say, whatever its limit is.
IsRing(t) ==
    /\ t \in [entries : [0..(Entries - 1) -> HpackField \cup {NoField}],
              head : 0..(Entries - 1), count : 0..Entries, size : Nat, max : 0..TableSize]
    /\ \A i \in 1..t.count : t.entries[Position(t, i)] \in HpackField
    /\ \A p \in 0..(Entries - 1) :
          t.entries[p] # NoField => \E i \in 1..t.count : p = Position(t, i)
    /\ t.size = ListSize(Contents(t))

\* One that is within its limit too.
IsTable(t) == IsRing(t) /\ t.size <= t.max

\* Where the i-th entry is: i - 1 places behind the head, around the end.
LEMMA PositionIs ==
    ASSUME NEW t, t.head \in 0..(Entries - 1), NEW i \in 1..Entries
    PROVE  /\ Position(t, i) \in 0..(Entries - 1)
           /\ i - 1 <= t.head => Position(t, i) = t.head - (i - 1)
           /\ t.head < i - 1 => Position(t, i) = t.head + Entries - (i - 1)
<1>. DEFINE h == t.head
            E == Entries
            a == h + E - (i - 1)
<1>1. E \in Nat \ {0} /\ h \in Nat /\ h < E /\ i \in Nat /\ i >= 1 /\ i <= E
  BY EntrySizeIs
<1>. HIDE DEF h, E
<1>2. a \in Nat /\ a < 2 * E /\ (i - 1 <= h => a >= E) /\ (h < i - 1 => a < E)
  BY <1>1
<1>3. CASE i - 1 <= h
  <2>1. a % E = a - E
    BY <1>1, <1>2, <1>3
  <2>2. a - E = h - (i - 1) /\ h - (i - 1) \in 0..(E - 1)
    BY <1>1, <1>3
  <2>. QED BY <2>1, <2>2, <1>1, <1>3 DEF Position, h, E
<1>4. CASE h < i - 1
  <2>1. a % E = a
    BY <1>1, <1>2, <1>4
  <2>2. a \in 0..(E - 1)
    BY <1>1, <1>2, <1>4
  <2>. QED BY <2>1, <2>2, <1>1, <1>4 DEF Position, h, E
<1>5. i - 1 <= h \/ h < i - 1
  BY <1>1
<1>. QED BY <1>3, <1>4, <1>5

\* No two of them are in one place.
LEMMA PositionsDiffer ==
    ASSUME NEW t, t.head \in 0..(Entries - 1), NEW i \in 1..Entries, NEW j \in 1..Entries,
           Position(t, i) = Position(t, j)
    PROVE  i = j
<1>1. PICK h, E : h = t.head /\ E = Entries
  OBVIOUS
<1>2. E \in Nat \ {0} /\ h \in 0..(E - 1) /\ i \in 1..E /\ j \in 1..E
  BY <1>1, EntrySizeIs
<1>3. PICK p : p = Position(t, i) /\ p = Position(t, j)
  OBVIOUS
<1>4. /\ i - 1 <= h => p = h - (i - 1)
      /\ h < i - 1 => p = h + E - (i - 1)
      /\ j - 1 <= h => p = h - (j - 1)
      /\ h < j - 1 => p = h + E - (j - 1)
  BY <1>1, <1>3, PositionIs
<1>. QED BY <1>2, <1>4

\* The fields of a ring, the newest first.
LEMMA ContentsAre ==
    ASSUME NEW t, IsRing(t)
    PROVE  /\ Contents(t) \in Seq(HpackField) /\ Len(Contents(t)) = t.count
           /\ t.count \in Nat
           /\ \A i \in 1..t.count : /\ Contents(t)[i] = t.entries[Position(t, i)]
                                    /\ Position(t, i) \in 0..(Entries - 1) /\ i \in 1..Entries
<1>1. t.count \in 0..Entries /\ t.head \in 0..(Entries - 1) /\ Entries \in Nat
  BY EntrySizeIs DEF IsRing
<1>2. t.count \in Nat /\ \A i \in 1..t.count : i \in 1..Entries
  BY <1>1
<1>3. \A i \in 1..t.count : Position(t, i) \in 0..(Entries - 1)
  BY <1>1, <1>2, PositionIs
<1>4. \A i \in 1..t.count : t.entries[Position(t, i)] \in HpackField
  BY DEF IsRing
<1>5. Contents(t) \in Seq(HpackField) /\ Len(Contents(t)) = t.count
  BY <1>2, <1>4 DEF Contents
<1>. QED BY <1>2, <1>3, <1>5 DEF Contents

\* The oldest entry goes, and with it the last of the fields (_evict_hpack_table).
LEMMA EvictOldestIs ==
    ASSUME NEW t, IsRing(t), t.count # 0,
           NEW e, e = EvictOldest(t)
    PROVE  /\ IsRing(e) /\ e.head = t.head /\ e.max = t.max /\ e.count = t.count - 1
           /\ \A i \in 1..t.count - 1 : Contents(e)[i] = Contents(t)[i]
<1>. DEFINE n == t.count
            p == Position(t, n)
            c == Contents(t)
<1>1. /\ t \in [entries : [0..(Entries - 1) -> HpackField \cup {NoField}],
                head : 0..(Entries - 1), count : 0..Entries, size : Nat, max : 0..TableSize]
      /\ \A i \in 1..n : t.entries[Position(t, i)] \in HpackField
      /\ \A q \in 0..(Entries - 1) :
            t.entries[q] # NoField => \E i \in 1..n : q = Position(t, i)
      /\ t.size = ListSize(c)
  BY DEF IsRing
<1>2. /\ c \in Seq(HpackField) /\ Len(c) = n /\ n \in Nat \ {0} /\ n \in 1..n /\ n \in 1..Entries
      /\ Entries \in Nat
      /\ \A i \in 1..n : /\ c[i] = t.entries[Position(t, i)] /\ i \in 1..Entries
                         /\ Position(t, i) \in 0..(Entries - 1)
  BY ContentsAre, EntrySizeIs
<1>3. e = [t EXCEPT !.entries = [t.entries EXCEPT ![p] = NoField], !.count = n - 1,
                    !.size = t.size - EntrySize(t.entries[p])]
  BY DEF EvictOldest
<1>. DEFINE front == [i \in 1..n - 1 |-> c[i]]
<1>4. front \in Seq(HpackField) /\ Len(front) = n - 1 /\ n - 1 \in Nat
      /\ \A i \in 1..n - 1 : front[i] = c[i]
  <2>1. n - 1 \in Nat /\ \A i \in 1..n - 1 : c[i] \in HpackField
    BY <1>2
  <2>. HIDE DEF n, c
  <2>. QED BY <2>1
<1>5. t.size = ListSize(front) + EntrySize(c[n]) /\ ListSize(front) \in Nat
      /\ EntrySize(c[n]) \in Nat
  <2>1. n = Len(c) /\ n # 0
    BY <1>2
  <2>. HIDE DEF n, c, front
  <2>2. ListSize(c) = ListSize(front) + EntrySize(c[n])
    BY <1>2, <1>4, <2>1, ListSizeWithLast
  <2>3. ListSize(front) \in Nat
    BY <1>4, SizesAre
  <2>4. EntrySize(c[n]) \in Nat
    BY <1>2, EntrySizeIs
  <2>. QED BY <1>1, <2>2, <2>3, <2>4
<1>6. t.entries[p] = c[n] /\ p \in 0..(Entries - 1)
  BY <1>2
<1>. DEFINE places == [t.entries EXCEPT ![p] = NoField]
<1>7. /\ e.entries = places /\ e.head = t.head /\ e.count = n - 1 /\ e.max = t.max
      /\ e.size = ListSize(front)
      /\ places \in [0..(Entries - 1) -> HpackField \cup {NoField}]
      /\ e \in [entries : [0..(Entries - 1) -> HpackField \cup {NoField}],
                head : 0..(Entries - 1), count : 0..Entries, size : Nat, max : 0..TableSize]
  <2>1. places \in [0..(Entries - 1) -> HpackField \cup {NoField}]
    BY <1>1
  <2>2. t.size - EntrySize(t.entries[p]) = ListSize(front)
    BY <1>5, <1>6
  <2>3. n - 1 \in 0..Entries /\ ListSize(front) \in Nat
    BY <1>2, <1>5
  <2>4. e = [t EXCEPT !.entries = places, !.count = n - 1, !.size = ListSize(front)]
    BY <1>3, <2>2
  <2>. HIDE DEF places, front, n
  <2>. QED BY <1>1, <2>1, <2>3, <2>4
<1>8. \A i \in 1..Entries : Position(e, i) = Position(t, i)
  BY <1>7 DEF Position
<1>9. ASSUME NEW i \in 1..n - 1
      PROVE  e.entries[Position(e, i)] = c[i] /\ c[i] \in HpackField
  <2>1. i \in 1..n /\ i \in 1..Entries /\ i # n
    BY <1>2
  <2>2. Position(t, i) # p
    BY <1>1, <1>2, <2>1, PositionsDiffer
  <2>3. places[Position(t, i)] = t.entries[Position(t, i)]
    BY <1>1, <1>2, <2>1, <2>2
  <2>. QED BY <1>2, <1>7, <1>8, <2>1, <2>3
<1>10. Contents(e) = front
  <2>1. \A i \in 1..n - 1 : e.entries[Position(e, i)] = c[i]
    BY <1>9
  <2>2. Contents(e) = [i \in 1..n - 1 |-> e.entries[Position(e, i)]]
    BY <1>7 DEF Contents
  <2>. HIDE DEF n, c
  <2>. QED BY <2>1, <2>2
<1>11. ASSUME NEW q \in 0..(Entries - 1), e.entries[q] # NoField
       PROVE  \E i \in 1..e.count : q = Position(e, i)
  <2>1. q # p /\ t.entries[q] # NoField
    BY <1>1, <1>6, <1>7, <1>11
  <2>2. PICK i \in 1..n : q = Position(t, i)
    BY <1>1, <2>1
  <2>3. i # n /\ i \in 1..n - 1
    BY <1>2, <2>1, <2>2
  <2>. QED BY <1>2, <1>7, <1>8, <2>2, <2>3
<1>12. IsRing(e)
  <2>1. \A i \in 1..e.count : e.entries[Position(e, i)] \in HpackField
    BY <1>7, <1>9
  <2>2. e.size = ListSize(Contents(e))
    BY <1>7, <1>10
  <2>. QED BY <1>7, <1>11, <2>1, <2>2 DEF IsRing
<1>. QED BY <1>4, <1>7, <1>10, <1>12

\* What Evictions chooses.
IsEvictions(after, t, n) ==
    after = [k \in 0..n |-> IF k = 0 THEN t ELSE EvictOldest(after[k - 1])]

\* There is such a function.
LEMMA EvictionsExist ==
    ASSUME NEW t, NEW N \in Nat
    PROVE  \E after : IsEvictions(after, t, N)
<1>. DEFINE S == {n \in 0..N : \E after : IsEvictions(after, t, n)}
<1>1. 0 \in S
  <2>. DEFINE after == [i \in 0..0 |-> t]
  <2>1. IsEvictions(after, t, 0)
    BY DEF IsEvictions
  <2>. QED BY <2>1
<1>2. ASSUME NEW n \in 0..N, n \in S, n < N PROVE n + 1 \in S
  <2>1. PICK g : IsEvictions(g, t, n)
    BY <1>2
  <2>2. g = [k \in 0..n |-> IF k = 0 THEN t ELSE EvictOldest(g[k - 1])]
    BY <2>1 DEF IsEvictions
  <2>. DEFINE after == [k \in 0..n + 1 |-> IF k = n + 1 THEN EvictOldest(g[n]) ELSE g[k]]
  <2>3. ASSUME NEW k \in 0..n + 1
        PROVE  after[k] = IF k = 0 THEN t ELSE EvictOldest(after[k - 1])
    <3>1. CASE k = n + 1
      <4>1. k - 1 \in 0..n + 1 /\ k - 1 # n + 1 /\ k # 0 /\ k - 1 = n
        BY <3>1
      <4>. QED BY <3>1, <4>1
    <3>2. CASE k # n + 1
      <4>1. k \in 0..n /\ after[k] = g[k]
        BY <3>2
      <4>2. k # 0 => k - 1 \in 0..n + 1 /\ k - 1 # n + 1
        BY <3>2
      <4>. QED BY <4>1, <4>2, <2>2
    <3>. QED BY <3>1, <3>2
  <2>4. IsEvictions(after, t, n + 1)
    <3>1. after = [k \in 0..n + 1 |-> after[k]]
      OBVIOUS
    <3>. HIDE DEF after
    <3>. QED BY <3>1, <2>3 DEF IsEvictions
  <2>5. n + 1 \in 0..N
    BY <1>2
  <2>. QED BY <2>4, <2>5
<1>. HIDE DEF S
<1>3. N \in S
  BY <1>1, <1>2, UpTo
<1>. QED BY <1>3 DEF S

\* The ring after k evictions holds the fields without the k oldest.
IsAfter(e, t, k) ==
    /\ IsRing(e) /\ e.head = t.head /\ e.max = t.max /\ e.count = t.count - k
    /\ \A i \in 1..t.count - k : Contents(e)[i] = Contents(t)[i]

\* Each of the rings is such a one.
LEMMA EvictionsAre ==
    ASSUME NEW t, IsRing(t)
    PROVE  \A k \in 0..t.count : IsAfter(Evictions(t)[k], t, k)
<1>. DEFINE after == Evictions(t)
            S == {k \in 0..t.count : IsAfter(after[k], t, k)}
<1>1. t.count \in Nat
  BY ContentsAre
<1>2. \A k \in 0..t.count : after[k] = IF k = 0 THEN t ELSE EvictOldest(after[k - 1])
  <2>1. PICK N : N = t.count
    OBVIOUS
  <2>2. PICK f : f = after
    OBVIOUS
  <2>3. f = CHOOSE g : g = [k \in 0..N |-> IF k = 0 THEN t ELSE EvictOldest(g[k - 1])]
    BY <2>1, <2>2 DEF Evictions
  <2>4. PICK g : IsEvictions(g, t, N)
    BY <1>1, <2>1, EvictionsExist
  <2>5. g = [k \in 0..N |-> IF k = 0 THEN t ELSE EvictOldest(g[k - 1])]
    BY <2>4 DEF IsEvictions
  <2>6. f = [k \in 0..N |-> IF k = 0 THEN t ELSE EvictOldest(f[k - 1])]
    BY <2>3, <2>5, Zenon
  <2>. QED BY <2>1, <2>2, <2>6, Zenon
<1>. HIDE DEF after
<1>3. 0 \in S
  <2>1. after[0] = t /\ t.count - 0 = t.count /\ 0 \in 0..t.count
    BY <1>1, <1>2
  <2>. QED BY <2>1 DEF IsAfter
<1>4. ASSUME NEW k \in 0..t.count, k \in S, k < t.count PROVE k + 1 \in S
  <2>1. k + 1 \in 0..t.count /\ k + 1 # 0 /\ (k + 1) - 1 = k /\ t.count - (k + 1) = (t.count - k) - 1
    BY <1>1, <1>4
  <2>2. after[k + 1] = EvictOldest(after[k])
    BY <1>2, <2>1
  <2>3. PICK e : e = after[k]
    OBVIOUS
  <2>4. PICK d : d = after[k + 1]
    OBVIOUS
  <2>5. /\ IsRing(e) /\ e.head = t.head /\ e.max = t.max /\ e.count = t.count - k
        /\ \A i \in 1..t.count - k : Contents(e)[i] = Contents(t)[i]
    BY <1>4, <2>3 DEF IsAfter
  <2>6. e.count # 0
    BY <1>1, <1>4, <2>5
  <2>7. /\ IsRing(d) /\ d.head = e.head /\ d.max = e.max /\ d.count = e.count - 1
        /\ \A i \in 1..e.count - 1 : Contents(d)[i] = Contents(e)[i]
    BY <2>2, <2>3, <2>4, <2>5, <2>6, EvictOldestIs
  <2>8. \A i \in 1..t.count - (k + 1) : i \in 1..t.count - k
    BY <1>1
  <2>9. IsAfter(d, t, k + 1)
    BY <2>1, <2>5, <2>7, <2>8 DEF IsAfter
  <2>. QED BY <2>1, <2>4, <2>9
<1>. HIDE DEF S
<1>5. \A k \in 0..t.count : k \in S
  <2>1. PICK N : N = t.count
    OBVIOUS
  <2>2. N \in Nat /\ 0 \in S /\ \A m \in 0..N : m \in S /\ m < N => m + 1 \in S
    BY <1>1, <1>3, <1>4, <2>1
  <2>3. \A m \in 0..N : m \in S
    BY <2>2, UpTo
  <2>. QED BY <2>1, <2>3
<1>. QED BY <1>5 DEF S, after

\* What is made room for fits, or nothing is left; and what is left is as much as it can be
\* (the loops of insert_hpack_table and resize_hpack_table).
LEMMA MakeRoomIs ==
    ASSUME NEW t, IsRing(t), NEW size \in Nat, NEW r, r = MakeRoom(t, size)
    PROVE  /\ IsRing(r) /\ r.head = t.head /\ r.max = t.max
           /\ r.count \in 0..t.count
           /\ Contents(r) = SubSeq(Contents(t), 1, r.count)
           /\ r.count = 0 \/ r.size + size <= t.max
           /\ \A k \in r.count + 1..t.count :
                 ListSize(SubSeq(Contents(t), 1, k)) + size > t.max
<1>. DEFINE after == Evictions(t)
            n == t.count
            c == Contents(t)
            T == {k \in 0..n : k = n \/ after[k].size + size <= t.max}
            m == Min(T)
<1>1. /\ n \in Nat /\ c \in Seq(HpackField) /\ Len(c) = n /\ t.max \in Nat
  BY ContentsAre, EntrySizeIs, SMTT(20) DEF IsRing
<1>2. \A k \in 0..n : IsAfter(after[k], t, k)
  BY EvictionsAre
<1>3. m \in T /\ \A k \in T : m <= k
  <2>1. n \in T /\ T \subseteq Nat
    BY <1>1
  <2>. HIDE DEF T
  <2>. QED BY <2>1, MinIsLeast
<1>4. r = after[m]
  BY DEF MakeRoom
<1>. HIDE DEF after, m
<1>5. ASSUME NEW k \in 0..n
      PROVE  /\ IsRing(after[k]) /\ after[k].head = t.head /\ after[k].max = t.max
             /\ after[k].count = n - k /\ n - k \in 0..n
             /\ Contents(after[k]) = SubSeq(c, 1, n - k)
             /\ after[k].size = ListSize(SubSeq(c, 1, n - k))
  <2>1. PICK e : e = after[k]
    OBVIOUS
  <2>2. /\ IsRing(e) /\ e.head = t.head /\ e.max = t.max /\ e.count = n - k
        /\ \A i \in 1..n - k : Contents(e)[i] = c[i]
    BY <1>2, <2>1 DEF IsAfter
  <2>3. Contents(e) \in Seq(HpackField) /\ Len(Contents(e)) = n - k /\ n - k \in 0..n
    BY <1>1, <2>2, ContentsAre
  <2>4. Contents(e) = SubSeq(c, 1, n - k)
    <3>1. PICK d, j : d = Contents(e) /\ j = n - k
      OBVIOUS
    <3>2. d \in Seq(HpackField) /\ Len(d) = j /\ j \in 0..n /\ \A i \in 1..j : d[i] = c[i]
      BY <2>2, <2>3, <3>1
    <3>3. PICK s : s = SubSeq(c, 1, j)
      OBVIOUS
    <3>4. s \in Seq(HpackField) /\ Len(s) = j /\ \A i \in 1..j : s[i] = c[i]
      <4>. HIDE DEF c, n
      <4>. QED BY <1>1, <3>2, <3>3
    <3>5. d = s
      <4>. HIDE DEF c, n
      <4>. QED BY <3>2, <3>4
    <3>. QED BY <3>1, <3>3, <3>5
  <2>5. e.size = ListSize(Contents(e))
    BY <2>2 DEF IsRing
  <2>. QED BY <2>1, <2>2, <2>3, <2>4, <2>5
<1>6. m \in 0..n /\ (m = n \/ after[m].size + size <= t.max)
  BY <1>3
<1>7. /\ IsRing(r) /\ r.head = t.head /\ r.max = t.max /\ r.count = n - m
      /\ r.count \in 0..n /\ Contents(r) = SubSeq(c, 1, r.count)
  <2>1. PICK j : j = n - m
    OBVIOUS
  <2>2. /\ IsRing(r) /\ r.head = t.head /\ r.max = t.max /\ r.count = j
        /\ j \in 0..n /\ Contents(r) = SubSeq(c, 1, j)
    BY <1>4, <1>5, <1>6, <2>1
  <2>. QED BY <2>1, <2>2
<1>8. r.count = 0 \/ r.size + size <= t.max
  BY <1>1, <1>4, <1>6, <1>7
<1>9. ASSUME NEW k \in r.count + 1..n PROVE ListSize(SubSeq(c, 1, k)) + size > t.max
  <2>1. k \in 0..n /\ n - k \in 0..n /\ n - (n - k) = k /\ n - k < m /\ n - k # n /\ m \in Nat
    BY <1>1, <1>6, <1>7
  <2>2. n - k \notin T
    BY <1>3, <2>1
  <2>3. ~ (after[n - k].size + size <= t.max)
    BY <2>1, <2>2
  <2>4. after[n - k].size = ListSize(SubSeq(c, 1, k))
    BY <1>5, <2>1
  <2>5. ListSize(SubSeq(c, 1, k)) \in Nat
    <3>1. SubSeq(c, 1, k) \in Seq(HpackField)
      BY <1>1, <2>1
    <3>. QED BY <3>1, SizesAre
  <2>. QED BY <1>1, <2>3, <2>4, <2>5
<1>. HIDE DEF n, c
<1>. QED BY <1>7, <1>8, <1>9 DEF n, c

\* The largest of some numbers is the one that none of them is above.
LEMMA MaxIs ==
    ASSUME NEW T, T \subseteq Nat, NEW m \in T, \A k \in T : k <= m
    PROVE  Max(T) = m
<1>1. \A y \in T : m >= y
  OBVIOUS
<1>2. PICK x : x = Max(T)
  OBVIOUS
<1>3. x \in T /\ \A y \in T : x >= y
  BY <1>1, <1>2 DEF Max
<1>4. x <= m /\ x >= m /\ x \in Nat /\ m \in Nat
  BY <1>3
<1>. QED BY <1>2, <1>4

\* The queue's own view of a weight.
LEMMA WeightIs == \A q : Queue!Weight(q) = ListSize(q)
<1>1. \A s : Queue!SumOf(s) = SumOf(s)
  BY DEF Queue!SumOf, SumOf
<1>. QED BY <1>1 DEF Queue!Weight, ListSize

\* The beginning of a queue that fits, when the next longer ones do not.
LEMMA FittingIs ==
    ASSUME NEW q \in Seq(HpackField), NEW n \in Nat, NEW k \in 0..Len(q),
           k = 0 \/ ListSize(SubSeq(q, 1, k)) <= n,
           \A j \in k + 1..Len(q) : ListSize(SubSeq(q, 1, j)) > n
    PROVE  Queue!Fitting(q, n) = SubSeq(q, 1, k)
<1>. DEFINE T == {j \in 0..Len(q) : Queue!Weight(SubSeq(q, 1, j)) <= n}
<1>1. Len(q) \in Nat
  OBVIOUS
<1>2. k \in T
  <2>1. k = 0 => ListSize(SubSeq(q, 1, k)) = 0
    <3>1. SubSeq(q, 1, 0) \in Seq(HpackField) /\ Len(SubSeq(q, 1, 0)) = 0
      OBVIOUS
    <3>. QED BY <3>1, ListSizeOfNone
  <2>2. ListSize(SubSeq(q, 1, k)) <= n
    BY <2>1
  <2>. QED BY <2>2, WeightIs
<1>3. ASSUME NEW j \in T PROVE j <= k
  <2>1. j \in 0..Len(q) /\ ListSize(SubSeq(q, 1, j)) <= n
    BY WeightIs
  <2>2. SubSeq(q, 1, j) \in Seq(HpackField)
    BY <2>1
  <2>3. ListSize(SubSeq(q, 1, j)) \in Nat
    BY <2>2, SizesAre
  <2>4. j \notin k + 1..Len(q)
    BY <2>1, <2>3
  <2>. QED BY <1>1, <2>1, <2>4
<1>4. Max(T) = k
  <2>1. T \subseteq Nat
    BY <1>1
  <2>. HIDE DEF T
  <2>. QED BY <1>2, <1>3, <2>1, MaxIs
<1>5. Queue!Fitting(q, n) = SubSeq(q, 1, Max(T))
  BY DEF Queue!Fitting, Queue!Max, Max
<1>. QED BY <1>4, <1>5

\* An empty ring has no size.
LEMMA EmptyIs ==
    ASSUME NEW t, IsRing(t), t.count = 0
    PROVE  t.size = 0
<1>1. Contents(t) \in Seq(HpackField) /\ Len(Contents(t)) = 0 /\ t.size = ListSize(Contents(t))
  BY ContentsAre DEF IsRing
<1>. QED BY <1>1, ListSizeOfNone

\* A change of the limit keeps what fits (resize_hpack_table).
LEMMA ResizeIs ==
    ASSUME NEW t, IsRing(t), NEW n \in 0..TableSize, NEW r, r = Resize(t, n)
    PROVE  IsTable(r) /\ r.max = n /\ Contents(r) = Queue!Fitting(Contents(t), n)
<1>0. n \in Nat
  BY EntrySizeIs
<1>1. PICK u : u = [t EXCEPT !.max = n]
  OBVIOUS
<1>2. PICK c : c = Contents(t)
  OBVIOUS
<1>3. /\ u.entries = t.entries /\ u.head = t.head /\ u.count = t.count /\ u.size = t.size
      /\ u.max = n
      /\ u \in [entries : [0..(Entries - 1) -> HpackField \cup {NoField}],
                head : 0..(Entries - 1), count : 0..Entries, size : Nat, max : 0..TableSize]
  BY <1>1 DEF IsRing
<1>4. (\A i : Position(u, i) = Position(t, i)) /\ Contents(u) = c
  BY <1>2, <1>3 DEF Position, Contents
<1>5. IsRing(u)
  <2>1. u.size = ListSize(Contents(u))
    BY <1>2, <1>3, <1>4 DEF IsRing
  <2>2. /\ \A i \in 1..u.count : u.entries[Position(u, i)] \in HpackField
        /\ \A p \in 0..(Entries - 1) :
              u.entries[p] # NoField => \E i \in 1..u.count : p = Position(u, i)
    BY <1>3, <1>4 DEF IsRing
  <2>. QED BY <1>3, <2>1, <2>2 DEF IsRing
<1>6. r = MakeRoom(u, 0)
  BY <1>1 DEF Resize
<1>7. /\ IsRing(r) /\ r.max = n /\ r.count \in 0..u.count
      /\ Contents(r) = SubSeq(c, 1, r.count)
      /\ r.count = 0 \/ r.size + 0 <= n
      /\ \A k \in r.count + 1..u.count : ListSize(SubSeq(c, 1, k)) + 0 > n
  <2>1. PICK z : z = 0
    OBVIOUS
  <2>2. z \in Nat /\ r = MakeRoom(u, z)
    BY <1>6, <2>1
  <2>3. /\ IsRing(r) /\ r.max = u.max /\ r.count \in 0..u.count
        /\ Contents(r) = SubSeq(Contents(u), 1, r.count)
        /\ r.count = 0 \/ r.size + z <= u.max
        /\ \A k \in r.count + 1..u.count : ListSize(SubSeq(Contents(u), 1, k)) + z > u.max
    BY <1>5, <2>2, MakeRoomIs, ZenonT(30)
  <2>. QED BY <1>3, <1>4, <2>1, <2>3
<1>8. c \in Seq(HpackField) /\ Len(c) = u.count /\ u.count \in Nat
  BY <1>4, <1>5, ContentsAre
<1>9. r.size \in Nat /\ r.size = ListSize(Contents(r))
  BY <1>7 DEF IsRing
<1>10. r.size <= n
  <2>1. r.count = 0 => r.size = 0
    BY <1>7, EmptyIs
  <2>. QED BY <1>0, <1>7, <1>9, <2>1
<1>11. \A k \in r.count + 1..u.count : ListSize(SubSeq(c, 1, k)) > n
  <2>1. ASSUME NEW k \in r.count + 1..u.count PROVE ListSize(SubSeq(c, 1, k)) > n
    <3>1. SubSeq(c, 1, k) \in Seq(HpackField)
      BY <1>7, <1>8
    <3>2. ListSize(SubSeq(c, 1, k)) \in Nat
      BY <3>1, SizesAre
    <3>. QED BY <1>7, <3>2
  <2>. QED BY <2>1
<1>12. Queue!Fitting(c, n) = SubSeq(c, 1, r.count)
  <2>1. PICK k : k = r.count
    OBVIOUS
  <2>2. k \in 0..Len(c) /\ ListSize(SubSeq(c, 1, k)) <= n
    BY <1>7, <1>8, <1>9, <1>10, <2>1
  <2>3. \A j \in k + 1..Len(c) : ListSize(SubSeq(c, 1, j)) > n
    BY <1>8, <1>11, <2>1
  <2>4. Queue!Fitting(c, n) = SubSeq(c, 1, k)
    BY <1>0, <1>8, <2>2, <2>3, FittingIs
  <2>. QED BY <2>1, <2>4
<1>. QED BY <1>2, <1>7, <1>10, <1>12 DEF IsTable

\* One step of the head leaves every entry one place further behind it, and comes to the
\* place that is the last of all (insert_hpack_table).
LEMMA HeadMoves ==
    ASSUME NEW t, t.head \in 0..(Entries - 1), NEW u, u.head = (t.head + 1) % Entries
    PROVE  /\ u.head \in 0..(Entries - 1)
           /\ Position(u, 1) = u.head /\ Position(t, Entries) = u.head
           /\ \A i \in 1..Entries - 1 : Position(u, i + 1) = Position(t, i)
<1>1. PICK h, E, v : h = t.head /\ E = Entries /\ v = u.head
  OBVIOUS
<1>2. E \in Nat \ {0} /\ h \in 0..(E - 1) /\ v = (h + 1) % E /\ h \in Nat /\ E \in 1..E
      /\ 1 \in 1..E
  BY <1>1, EntrySizeIs
<1>3. /\ h + 1 < E => v = h + 1
      /\ h + 1 = E => v = 0
  BY <1>2
<1>4. h + 1 < E \/ h + 1 = E
  BY <1>2
<1>5. v \in 0..(E - 1)
  BY <1>2, <1>3, <1>4
<1>6. Position(u, 1) = v
  <2>1. 1 - 1 <= u.head => Position(u, 1) = u.head - (1 - 1)
    BY <1>1, <1>2, <1>5, PositionIs
  <2>. QED BY <1>1, <1>2, <1>5, <2>1
<1>7. Position(t, Entries) = v
  <2>1. PICK p : p = Position(t, Entries)
    OBVIOUS
  <2>2. /\ E - 1 <= h => p = h - (E - 1)
        /\ h < E - 1 => p = h + E - (E - 1)
    BY <1>1, <1>2, <2>1, PositionIs
  <2>3. p = v
    BY <1>2, <1>3, <1>4, <2>2
  <2>. QED BY <2>1, <2>3
<1>8. ASSUME NEW i \in 1..Entries - 1 PROVE Position(u, i + 1) = Position(t, i)
  <2>1. PICK p, q : p = Position(u, i + 1) /\ q = Position(t, i)
    OBVIOUS
  <2>2. i \in 1..Entries /\ i + 1 \in 1..Entries /\ i \in 1..E - 1
    BY <1>1, <1>2, <1>8
  <2>3. /\ i - 1 <= h => q = h - (i - 1)
        /\ h < i - 1 => q = h + E - (i - 1)
    BY <1>1, <1>2, <2>1, <2>2, PositionIs
  <2>4. /\ (i + 1) - 1 <= v => p = v - ((i + 1) - 1)
        /\ v < (i + 1) - 1 => p = v + E - ((i + 1) - 1)
    BY <1>1, <1>2, <1>5, <2>1, <2>2, PositionIs
  <2>5. p = q
    BY <1>2, <1>3, <1>4, <2>2, <2>3, <2>4
  <2>. QED BY <2>1, <2>5
<1>. QED BY <1>1, <1>5, <1>6, <1>7, <1>8

\* An insertion keeps what fits behind the new field, or nothing when the field alone does
\* not fit (insert_hpack_table).
LEMMA InsertIs ==
    ASSUME NEW t, IsTable(t), NEW f \in HpackField, NEW r, r = Insert(t, f)
    PROVE  IsTable(r) /\ r.max = t.max
           /\ Contents(r) = Queue!Fitting(<<f>> \o Contents(t), t.max)
<1>1. PICK c, e, b, n : c = Contents(t) /\ e = EntrySize(f) /\ b = MakeRoom(t, e) /\ n = b.count
  OBVIOUS
<1>2. PICK g, d : g = Contents(b) /\ d = <<f>> \o c
  OBVIOUS
<1>3. /\ e \in Nat /\ e >= Overhead /\ f # NoField /\ Overhead \in Nat \ {0}
      /\ TableSize \in Nat /\ Entries \in Nat \ {0}
  BY <1>1, EntrySizeIs
<1>4. /\ IsRing(b) /\ b.head = t.head /\ b.max = t.max /\ n \in 0..t.count
      /\ g = SubSeq(c, 1, n)
      /\ n = 0 \/ b.size + e <= t.max
      /\ \A k \in n + 1..t.count : ListSize(SubSeq(c, 1, k)) + e > t.max
  BY <1>1, <1>2, <1>3, MakeRoomIs DEF IsTable
<1>5. /\ c \in Seq(HpackField) /\ Len(c) = t.count /\ t.count \in Nat
      /\ g \in Seq(HpackField) /\ Len(g) = n /\ n \in Nat
      /\ \A i \in 1..n : g[i] = b.entries[Position(b, i)]
  BY <1>1, <1>2, <1>4, ContentsAre DEF IsTable
<1>6. b.size \in Nat /\ b.size = ListSize(g) /\ t.max \in 0..TableSize /\ t.max \in Nat
  BY <1>2, <1>3, <1>4 DEF IsTable, IsRing
<1>7. n = 0 => b.size = 0
  BY <1>1, <1>4, EmptyIs
<1>8. /\ d \in Seq(HpackField) /\ Len(d) = t.count + 1 /\ d[1] = f
      /\ \A i \in 1..t.count : d[i + 1] = c[i]
  <2>1. PICK one : one = <<f>>
    OBVIOUS
  <2>2. one \in Seq(HpackField) /\ Len(one) = 1 /\ one[1] = f /\ d = one \o c
    BY <1>2, <2>1
  <2>3. /\ d \in Seq(HpackField) /\ Len(d) = 1 + t.count
        /\ \A i \in 1..1 + t.count : d[i] = IF i <= 1 THEN one[i] ELSE c[i - 1]
    BY <1>5, <2>2, Joined, SMTT(20)
  <2>4. 1 \in 1..1 + t.count
    BY <1>5
  <2>5. ASSUME NEW i \in 1..t.count PROVE d[i + 1] = c[i]
    <3>1. i + 1 \in 1..1 + t.count /\ ~ (i + 1 <= 1) /\ (i + 1) - 1 = i
      BY <1>5
    <3>. QED BY <2>3, <3>1
  <2>. QED BY <1>5, <2>2, <2>3, <2>4, <2>5
<1>9. \A m \in 0..t.count : /\ ListSize(SubSeq(d, 1, m + 1)) = e + ListSize(SubSeq(c, 1, m))
                            /\ ListSize(SubSeq(c, 1, m)) \in Nat
  <2>1. ASSUME NEW m \in 0..t.count PROVE ListSize(SubSeq(c, 1, m)) \in Nat
    <3>1. SubSeq(c, 1, m) \in Seq(HpackField)
      BY <1>5
    <3>. QED BY <3>1, SizesAre
  <2>. QED BY <1>1, <1>2, <1>5, <2>1, ListSizeBehind
<1>10. ASSUME NEW k \in n + 2..Len(d) PROVE ListSize(SubSeq(d, 1, k)) > t.max
  <2>1. k - 1 \in n + 1..t.count /\ k - 1 \in 0..t.count /\ (k - 1) + 1 = k
    BY <1>5, <1>8
  <2>2. /\ ListSize(SubSeq(d, 1, k)) = e + ListSize(SubSeq(c, 1, k - 1))
        /\ ListSize(SubSeq(c, 1, k - 1)) \in Nat
    BY <1>9, <2>1
  <2>3. ListSize(SubSeq(c, 1, k - 1)) + e > t.max
    BY <1>4, <2>1
  <2>. QED BY <1>3, <1>6, <2>2, <2>3
<1>11. CASE e > t.max
  <2>1. r = b
    BY <1>1, <1>11 DEF Insert
  <2>2. n = 0 /\ b.size = 0
    BY <1>3, <1>4, <1>6, <1>7, <1>11
  <2>3. \A k \in 0 + 1..Len(d) : ListSize(SubSeq(d, 1, k)) > t.max
    <3>1. ASSUME NEW k \in 0 + 1..Len(d), k = 1 PROVE ListSize(SubSeq(d, 1, k)) > t.max
      <4>1. /\ ListSize(SubSeq(d, 1, 0 + 1)) = e + ListSize(SubSeq(c, 1, 0))
            /\ ListSize(SubSeq(c, 1, 0)) \in Nat /\ 0 + 1 = k
        BY <1>5, <1>9, <3>1
      <4>. QED BY <1>3, <1>6, <1>11, <4>1
    <3>2. ASSUME NEW k \in 0 + 1..Len(d), k # 1 PROVE ListSize(SubSeq(d, 1, k)) > t.max
      <4>1. k \in n + 2..Len(d)
        BY <1>8, <2>2, <3>2
      <4>. QED BY <1>10, <4>1
    <3>. QED BY <3>1, <3>2
  <2>4. 0 \in 0..Len(d)
    BY <1>5, <1>8
  <2>5. Queue!Fitting(d, t.max) = SubSeq(d, 1, 0)
    BY <1>6, <1>8, <2>3, <2>4, FittingIs
  <2>6. g = SubSeq(d, 1, 0)
    <3>1. g = <<>>
      BY <1>5, <2>2
    <3>2. SubSeq(d, 1, 0) = <<>>
      BY <1>8
    <3>. QED BY <3>1, <3>2
  <2>7. b.size <= b.max
    BY <1>4, <1>6, <2>2
  <2>8. IsTable(r) /\ r.max = t.max
    BY <1>4, <2>1, <2>7 DEF IsTable
  <2>9. Contents(r) = Queue!Fitting(d, t.max)
    BY <1>2, <2>1, <2>5, <2>6
  <2>. QED BY <1>1, <1>2, <2>8, <2>9
<1>12. CASE ~ (e > t.max)
  <2>1. PICK h : h = (b.head + 1) % Entries
    OBVIOUS
  <2>2. r = [b EXCEPT !.head = h, !.entries[h] = f, !.count = @ + 1, !.size = @ + e]
    BY <1>1, <1>12, <2>1 DEF Insert
  <2>3. b \in [entries : [0..(Entries - 1) -> HpackField \cup {NoField}],
               head : 0..(Entries - 1), count : 0..Entries, size : Nat, max : 0..TableSize]
    BY <1>4 DEF IsRing
  <2>4. /\ r.head = h /\ r.entries = [b.entries EXCEPT ![h] = f] /\ r.count = n + 1
        /\ r.size = b.size + e /\ r.max = b.max
        /\ r = [entries |-> [b.entries EXCEPT ![h] = f], head |-> h, count |-> n + 1,
                size |-> b.size + e, max |-> b.max]
    BY <1>1, <2>2, <2>3
  <2>5. b.size + e <= t.max /\ b.size + e \in Nat
    BY <1>3, <1>4, <1>6, <1>7, <1>12
  <2>6. n + 1 <= Entries
    <3>1. n * Overhead <= ListSize(g)
      BY <1>5, ListSizeAtLeast
    <3>2. n * Overhead + Overhead <= TableSize
      <4>1. n * Overhead \in Nat
        BY <1>3, <1>5
      <4>2. PICK x : x = n * Overhead
        OBVIOUS
      <4>3. x <= b.size /\ x \in Nat
        BY <1>6, <3>1, <4>1, <4>2
      <4>4. x + Overhead <= TableSize
        BY <1>3, <1>6, <2>5, <4>3
      <4>. QED BY <4>2, <4>4
    <3>3. (n + 1) * Overhead = n * Overhead + Overhead /\ n + 1 \in Nat
      BY <1>3, <1>5
    <3>. QED BY <3>2, <3>3, EntrySizeIs
  <2>7. /\ h \in 0..(Entries - 1) /\ Position(r, 1) = h /\ Position(b, Entries) = h
        /\ \A i \in 1..Entries - 1 : Position(r, i + 1) = Position(b, i)
    BY <2>1, <2>3, <2>4, HeadMoves
  <2>8. ASSUME NEW i \in 1..n
        PROVE  /\ Position(r, i + 1) = Position(b, i)
               /\ r.entries[Position(b, i)] = c[i] /\ Position(b, i) \in 0..(Entries - 1)
    <3>1. /\ i \in 1..Entries - 1 /\ i \in 1..Entries /\ Entries \in 1..Entries /\ i # Entries
          /\ i \in 1..t.count /\ b.head \in 0..(Entries - 1)
      BY <1>3, <1>4, <1>5, <2>3, <2>6
    <3>2. Position(b, i) # h
      BY <2>7, <3>1, PositionsDiffer
    <3>3. Position(b, i) \in 0..(Entries - 1)
      BY <3>1, PositionIs
    <3>4. r.entries[Position(b, i)] = b.entries[Position(b, i)]
      BY <2>3, <2>4, <3>2, <3>3
    <3>5. g[i] = c[i]
      BY <1>4, <1>5, <3>1
    <3>. QED BY <1>5, <2>7, <3>1, <3>3, <3>4, <3>5
  <2>9. r.entries[h] = f
    BY <2>3, <2>4, <2>7
  <2>10. ASSUME NEW i \in 1..n + 1
         PROVE  r.entries[Position(r, i)] = d[i] /\ d[i] \in HpackField
    <3>1. CASE i = 1
      BY <1>8, <2>7, <2>9, <3>1
    <3>2. CASE i # 1
      <4>1. i - 1 \in 1..n /\ i - 1 \in 1..t.count /\ (i - 1) + 1 = i
        BY <1>4, <1>5, <3>2
      <4>2. r.entries[Position(r, i)] = c[i - 1]
        BY <2>8, <4>1
      <4>3. d[i] = c[i - 1] /\ c[i - 1] \in HpackField
        <5>1. PICK j : j = i - 1
          OBVIOUS
        <5>2. j \in 1..t.count /\ j + 1 = i
          BY <4>1, <5>1
        <5>3. d[j + 1] = c[j]
          BY <1>8, <5>2
        <5>4. c[j] \in HpackField
          BY <1>5, <5>2
        <5>. QED BY <5>1, <5>2, <5>3, <5>4
      <4>. QED BY <4>2, <4>3
    <3>. QED BY <3>1, <3>2
  <2>11. PICK s : s = SubSeq(d, 1, n + 1)
    OBVIOUS
  <2>12. s \in Seq(HpackField) /\ Len(s) = n + 1 /\ (\A i \in 1..n + 1 : s[i] = d[i])
         /\ n + 1 \in 0..Len(d) /\ n + 1 \in Nat
    BY <1>4, <1>5, <1>8, <2>11
  <2>13. Contents(r) = s
    <3>1. Contents(r) = [i \in 1..n + 1 |-> r.entries[Position(r, i)]]
      BY <2>4 DEF Contents
    <3>2. \A i \in 1..n + 1 : r.entries[Position(r, i)] = s[i]
      BY <2>10, <2>12
    <3>. QED BY <2>12, <3>1, <3>2
  <2>14. r.size = ListSize(s)
    <3>1. n \in 0..t.count
      BY <1>4
    <3>2. ListSize(SubSeq(d, 1, n + 1)) = e + ListSize(SubSeq(c, 1, n))
      BY <1>9, <3>1
    <3>. QED BY <1>3, <1>4, <1>6, <2>4, <2>11, <3>2
  <2>15. ASSUME NEW p \in 0..(Entries - 1), r.entries[p] # NoField
         PROVE  \E i \in 1..r.count : p = Position(r, i)
    <3>1. CASE p = h
      <4>1. 1 \in 1..r.count /\ p = Position(r, 1)
        BY <1>5, <2>4, <2>7, <3>1
      <4>. QED BY <4>1
    <3>2. CASE p # h
      <4>1. b.entries[p] # NoField
        BY <2>3, <2>4, <2>15, <3>2
      <4>2. PICK i \in 1..n : p = Position(b, i)
        BY <1>1, <1>4, <4>1 DEF IsRing
      <4>3. i + 1 \in 1..r.count /\ p = Position(r, i + 1)
        <5>1. Position(r, i + 1) = Position(b, i)
          BY <2>8
        <5>2. i + 1 \in 1..n + 1
          BY <1>5
        <5>. QED BY <2>4, <4>2, <5>1, <5>2
      <4>. QED BY <4>3
    <3>. QED BY <3>1, <3>2
  <2>16. r \in [entries : [0..(Entries - 1) -> HpackField \cup {NoField}],
                head : 0..(Entries - 1), count : 0..Entries, size : Nat, max : 0..TableSize]
    <3>1. n + 1 \in 0..Entries /\ b.max \in 0..TableSize
      BY <1>3, <1>5, <2>3, <2>6
    <3>2. [b.entries EXCEPT ![h] = f] \in [0..(Entries - 1) -> HpackField \cup {NoField}]
      BY <2>3
    <3>. QED BY <2>4, <2>5, <2>7, <3>1, <3>2
  <2>17. IsTable(r) /\ r.max = t.max
    <3>1. \A i \in 1..r.count : r.entries[Position(r, i)] \in HpackField
      BY <2>4, <2>10
    <3>2. r.size <= r.max /\ r.max = t.max
      BY <1>4, <2>4, <2>5
    <3>. QED BY <2>13, <2>14, <2>15, <2>16, <3>1, <3>2 DEF IsTable, IsRing
  <2>18. Queue!Fitting(d, t.max) = s
    <3>1. PICK k : k = n + 1
      OBVIOUS
    <3>2. k \in 0..Len(d) /\ ListSize(SubSeq(d, 1, k)) <= t.max
      BY <2>4, <2>5, <2>11, <2>12, <2>14, <3>1
    <3>3. \A j \in k + 1..Len(d) : ListSize(SubSeq(d, 1, j)) > t.max
      <4>1. k + 1 = n + 2
        BY <1>5, <3>1
      <4>. QED BY <1>10, <4>1
    <3>4. Queue!Fitting(d, t.max) = SubSeq(d, 1, k)
      BY <1>6, <1>8, <3>2, <3>3, FittingIs
    <3>. QED BY <2>11, <3>1, <3>4
  <2>. QED BY <1>1, <1>2, <2>13, <2>17, <2>18
<1>. QED BY <1>11, <1>12

\* A new table is one (create_hpack_table).
LEMMA NewTableIs ==
    /\ IsTable(NewTable) /\ Contents(NewTable) = <<>> /\ NewTable.max = TableSize
<1>1. Entries \in Nat \ {0} /\ TableSize \in Nat
  BY EntrySizeIs
<1>2. /\ NewTable.entries = [p \in 0..(Entries - 1) |-> NoField] /\ NewTable.count = 0
      /\ NewTable.size = 0 /\ NewTable.max = TableSize /\ NewTable.head = Entries - 1
      /\ NewTable \in [entries : [0..(Entries - 1) -> HpackField \cup {NoField}],
                       head : 0..(Entries - 1), count : 0..Entries, size : Nat,
                       max : 0..TableSize]
  <2>1. [p \in 0..(Entries - 1) |-> NoField] \in [0..(Entries - 1) -> HpackField \cup {NoField}]
    OBVIOUS
  <2>. QED BY <1>1, <2>1 DEF NewTable
<1>3. Contents(NewTable) = <<>> /\ Contents(NewTable) \in Seq(HpackField)
  BY <1>2 DEF Contents
<1>4. ListSize(Contents(NewTable)) = 0
  BY <1>3, ListSizeOfNone
<1>5. /\ \A i \in 1..NewTable.count : NewTable.entries[Position(NewTable, i)] \in HpackField
      /\ \A p \in 0..(Entries - 1) : NewTable.entries[p] = NoField
  BY <1>2
<1>6. NewTable.size <= NewTable.max
  BY <1>1, <1>2
<1>. HIDE DEF NewTable
<1>. QED BY <1>2, <1>3, <1>4, <1>5, <1>6 DEF IsTable, IsRing

\* What an index in use leads to is a field (get_hpack_table).
LEMMA HeldIs ==
    ASSUME NEW t, IsRing(t), NEW i \in Addressable(t)
    PROVE  GetHpack(t, i) \in HpackField /\ i \in 1..Len(Static) + Entries
<1>1. t.count \in 0..Entries /\ Len(Static) \in Nat /\ Entries \in Nat
  BY EntrySizeIs DEF IsRing
<1>2. i \in 1..Len(Static) + t.count
  BY DEF Addressable
<1>3. CASE i <= Len(Static)
  <2>1. Static[i] \in HpackField
    BY <1>1, <1>2, <1>3, EntrySizeIs
  <2>. QED BY <1>1, <1>2, <1>3, <2>1 DEF GetHpack
<1>4. CASE ~ (i <= Len(Static))
  <2>1. i - Len(Static) \in 1..t.count
    BY <1>1, <1>2, <1>4
  <2>2. t.entries[Position(t, i - Len(Static))] \in HpackField
    BY <2>1 DEF IsRing
  <2>. QED BY <1>1, <1>2, <1>4, <2>2 DEF GetHpack
<1>. QED BY <1>3, <1>4

\* What is found is there (find_hpack_table).
LEMMA FindIs ==
    ASSUME NEW t, IsRing(t), NEW f \in HpackField
    PROVE  /\ Find(t, f).whole => /\ Find(t, f).index \in Addressable(t)
                                  /\ GetHpack(t, Find(t, f).index) = f
           /\ Find(t, f).index # 0 => /\ Find(t, f).index \in Addressable(t)
                                      /\ GetHpack(t, Find(t, f).index).name = f.name
<1>. DEFINE whole == {i \in Addressable(t) : GetHpack(t, i) = f}
            named == {i \in Addressable(t) : GetHpack(t, i).name = f.name}
<1>1. whole \subseteq Nat /\ named \subseteq Nat
  BY DEF Addressable
<1>2. /\ Find(t, f).whole = (whole # {})
      /\ Find(t, f).index = IF whole # {} THEN Min(whole)
                            ELSE IF named # {} THEN Min(named)
                            ELSE 0
  BY DEF Find
<1>3. whole # {} => Min(whole) \in whole
  <2>. HIDE DEF whole
  <2>. QED BY <1>1, MinIsLeast
<1>4. named # {} => Min(named) \in named
  <2>. HIDE DEF named
  <2>. QED BY <1>1, MinIsLeast
<1>5. CASE whole # {}
  <2>1. PICK i : i = Min(whole)
    OBVIOUS
  <2>2. Find(t, f).index = i
    <3>. HIDE DEF whole, named
    <3>. QED BY <1>2, <1>5, <2>1
  <2>3. i \in Addressable(t) /\ GetHpack(t, i) = f
    BY <1>3, <1>5, <2>1
  <2>. QED BY <2>2, <2>3
<1>6. CASE whole = {} /\ named # {}
  BY <1>2, <1>4, <1>6
<1>7. CASE whole = {} /\ named = {}
  BY <1>2, <1>7
<1>. QED BY <1>5, <1>6, <1>7

-----------------------------------------------------------------------------
(* The two ends.                                                           *)

\* A representation says a field, and takes the table of its reader from one to another.
Says(r, before, after, f) ==
    \/ /\ r.kind = "indexed"
       /\ r.index \in Addressable(before) /\ GetHpack(before, r.index) = f
       /\ after = before
    \/ /\ r.kind = "literal"
       /\ r.field = f
       /\ \/ r.index = 0
          \/ r.index \in Addressable(before) /\ GetHpack(before, r.index).name = f.name
       /\ after = IF r.indexing THEN Insert(before, f) ELSE before

SaysLimit(r, before, after) ==
    r.kind = "update" /\ r.max \in 0..TableSize /\ after = Resize(before, r.max)

\* The tables that the decoder goes through on its way over the rest of the block are the
\* ones that the encoder went through, and it reads what was encoded; u is 1 when the block
\* begins with a change of the limit.
Course(T, u) ==
    /\ T[0] = decoder /\ T[Len(block)] = encoder
    /\ u \in 0..1 /\ u <= Len(block)
    /\ u = 1 => ~field /\ decoded = <<>> /\ SaysLimit(block[1], T[0], T[1])
    /\ Len(expected) + u = Len(decoded) + Len(block)
    /\ \A k \in u + 1..Len(block) :
          Says(block[k], T[k - 1], T[k], expected[(Len(decoded) + k) - u])

InStep ==
    /\ field => decoded # <<>>
    /\ \A i \in 1..Len(decoded) : decoded[i] = expected[i]
    /\ \E T, u : Course(T, u)

HpackInv ==
    /\ IsTable(encoder) /\ IsTable(decoder)
    /\ block \in Seq(Anything) /\ expected \in Seq(HpackField) /\ decoded \in Seq(HpackField)
    /\ field \in BOOLEAN /\ honest \in BOOLEAN /\ refused \in BOOLEAN
    /\ honest /\ ~refused => InStep
    /\ HonestIsUnderstood

\* The invariant gives what the run checks.
LEMMA HpackInvGives == HpackInv => TablesAgree
<1>. SUFFICES ASSUME HpackInv PROVE TablesAgree
  OBVIOUS
<1>1. ASSUME NEW t, IsTable(t)
      PROVE  /\ t.entries \in [0..(Entries - 1) -> HpackField \cup {NoField}]
             /\ t.head \in 0..(Entries - 1) /\ t.count \in 0..Entries
             /\ t.size \in 0..TableSize /\ t.max \in 0..TableSize
             /\ \A i, j \in 1..t.count : Position(t, i) = Position(t, j) => i = j
             /\ \A p \in DOMAIN t.entries :
                   t.entries[p] # NoField <=> \E i \in 1..t.count : p = Position(t, i)
             /\ t.size = ListSize(Contents(t))
             /\ t.size <= t.max
  <2>1. /\ t.entries \in [0..(Entries - 1) -> HpackField \cup {NoField}]
        /\ t.head \in 0..(Entries - 1) /\ t.count \in 0..Entries
        /\ t.size \in Nat /\ t.max \in 0..TableSize /\ t.size <= t.max
        /\ t.size = ListSize(Contents(t))
    BY <1>1 DEF IsTable, IsRing
  <2>2. t.size \in 0..TableSize
    BY <2>1, EntrySizeIs
  <2>3. \A i \in 1..t.count : i \in 1..Entries /\ t.entries[Position(t, i)] \in HpackField
    BY <1>1, ContentsAre DEF IsTable, IsRing
  <2>4. \A i, j \in 1..t.count : Position(t, i) = Position(t, j) => i = j
    BY <2>1, <2>3, PositionsDiffer
  <2>5. \A p \in DOMAIN t.entries :
           t.entries[p] # NoField <=> \E i \in 1..t.count : p = Position(t, i)
    BY <1>1, <2>1, <2>3, EntrySizeIs DEF IsTable, IsRing
  <2>. QED BY <2>1, <2>2, <2>4, <2>5
<1>2. HpackTypeOK
  <2>1. decoded \in Seq(HpackField \cup {NoField})
    BY DEF HpackInv
  <2>. QED BY <1>1, <2>1 DEF HpackInv, HpackTypeOK
<1>3. RingIsSound
  BY <1>1 DEF HpackInv, RingIsSound
<1>4. TablesInStep
  <2>1. SUFFICES ASSUME honest, block = <<>>, ~refused
                 PROVE  decoded = expected /\ decoder = encoder
    BY DEF TablesInStep
  <2>2. InStep
    BY <2>1 DEF HpackInv
  <2>3. PICK T, u : Course(T, u)
    BY <2>2 DEF InStep
  <2>4. Len(block) = 0
    BY <2>1
  <2>5. /\ T[0] = decoder /\ T[0] = encoder /\ u = 0
        /\ Len(expected) + u = Len(decoded) + 0
    BY <2>3, <2>4 DEF Course
  <2>6. /\ expected \in Seq(HpackField) /\ decoded \in Seq(HpackField)
        /\ \A i \in 1..Len(decoded) : decoded[i] = expected[i]
    BY <2>2 DEF HpackInv, InStep
  <2>7. Len(expected) = Len(decoded)
    BY <2>5, <2>6
  <2>8. decoded = expected
    BY <2>6, <2>7
  <2>. QED BY <2>5, <2>8
<1>5. OnlyWhatIsHeld
  BY DEF HpackInv, OnlyWhatIsHeld
<1>6. HonestIsUnderstood
  BY DEF HpackInv
<1>. QED BY <1>2, <1>3, <1>4, <1>5, <1>6 DEF TablesAgree

\* It holds at first.
LEMMA HpackBegins == HpackInit => HpackInv
<1>. SUFFICES ASSUME HpackInit PROVE HpackInv
  OBVIOUS
<1>1. IsTable(encoder) /\ IsTable(decoder)
  BY NewTableIs DEF HpackInit
<1>2. /\ block = <<>> /\ expected = <<>> /\ decoded = <<>> /\ field = FALSE /\ refused = FALSE
      /\ honest \in BOOLEAN /\ encoder = decoder
  BY DEF HpackInit
<1>3. \E T, u : Course(T, u)
  <2>. DEFINE T == [k \in 0..0 |-> decoder]
  <2>1. Course(T, 0)
    BY <1>2 DEF Course
  <2>. QED BY <2>1
<1>4. InStep
  BY <1>2, <1>3 DEF InStep
<1>5. HonestIsUnderstood
  BY <1>2 DEF HonestIsUnderstood
<1>6. block \in Seq(Anything) /\ expected \in Seq(HpackField) /\ decoded \in Seq(HpackField)
  BY <1>2
<1>. QED BY <1>1, <1>2, <1>4, <1>5, <1>6 DEF HpackInv

\* What a representation may be.
LEMMA AnythingIs ==
    ASSUME NEW r \in Anything
    PROVE  \/ r.kind = "indexed" /\ r.index \in Nat
           \/ r.kind = "update" /\ r.max \in Nat
           \/ /\ r.kind = "literal" /\ r.index \in Nat /\ r.field \in HpackField
              /\ r.indexing \in BOOLEAN
  BY DEF Anything, Indexed, SizeUpdate, Literal

\* A field is sent with what the encoder holds (encode_hpack).
LEMMA SendFieldKeeps ==
    ASSUME HpackInv, NEW f \in HpackField, NEW indexing \in BOOLEAN, SendField(f, indexing)
    PROVE  HpackInv'
<1>1. /\ honest /\ ~refused /\ EncodeHpack(f, indexing) /\ expected' = Append(expected, f)
      /\ decoder' = decoder /\ decoded' = decoded /\ field' = field /\ honest' = honest
      /\ refused' = refused
  BY DEF SendField, Room
<1>2. /\ IsTable(encoder) /\ IsTable(decoder)
      /\ block \in Seq(Anything) /\ expected \in Seq(HpackField) /\ decoded \in Seq(HpackField)
      /\ field \in BOOLEAN /\ honest \in BOOLEAN /\ refused \in BOOLEAN
  BY DEF HpackInv
<1>3. InStep
  BY <1>1 DEF HpackInv
<1>4. PICK T, u : Course(T, u)
  BY <1>3 DEF InStep
<1>5. PICK found : found = Find(encoder, f)
  OBVIOUS
<1>6. /\ found.whole => /\ found.index \in Addressable(encoder)
                        /\ GetHpack(encoder, found.index) = f
      /\ found.index # 0 => /\ found.index \in Addressable(encoder)
                            /\ GetHpack(encoder, found.index).name = f.name
  BY <1>2, <1>5, FindIs DEF IsTable
<1>7. found.index \in Addressable(encoder) => found.index \in 1..Len(Static) + Entries
  BY <1>2, HeldIs DEF IsTable
<1>8. Len(Static) \in Nat /\ Entries \in Nat
  BY EntrySizeIs
<1>9. found.index \in Addressable(encoder) \/ found.index = 0
      => found.index \in 0..(Len(Static) + Entries + 1)
  BY <1>7, <1>8
<1>10. PICK r \in Anything : block' = Append(block, r) /\ Says(r, encoder, encoder', f)
  <2>1. CASE found.whole
    <3>1. block' = Append(block, Indexed(found.index)) /\ encoder' = encoder
      BY <1>1, <1>5, <2>1 DEF EncodeHpack
    <3>2. Indexed(found.index) \in Anything
      BY <1>6, <1>9, <2>1 DEF Anything
    <3>3. Says(Indexed(found.index), encoder, encoder', f)
      BY <1>6, <2>1, <3>1 DEF Says, Indexed
    <3>. QED BY <3>1, <3>2, <3>3
  <2>2. CASE ~ found.whole
    <3>1. /\ block' = Append(block, Literal(found.index, f, indexing))
          /\ encoder' = IF indexing THEN Insert(encoder, f) ELSE encoder
      BY <1>1, <1>5, <2>2 DEF EncodeHpack
    <3>2. Literal(found.index, f, indexing) \in Anything
      BY <1>6, <1>9 DEF Anything
    <3>3. Says(Literal(found.index, f, indexing), encoder, encoder', f)
      BY <1>6, <3>1 DEF Says, Literal
    <3>. QED BY <3>1, <3>2, <3>3
  <2>. QED BY <2>1, <2>2
<1>11. IsTable(encoder')
  <2>1. encoder' = encoder \/ encoder' = Insert(encoder, f)
    BY <1>10 DEF Says
  <2>. QED BY <1>2, <2>1, InsertIs
<1>12. PICK n, m, l : n = Len(block) /\ m = Len(expected) /\ l = Len(decoded)
  OBVIOUS
<1>13. PICK S : S = [k \in 0..n + 1 |-> IF k <= n THEN T[k] ELSE encoder']
  OBVIOUS
<1>14. /\ n \in Nat /\ block' \in Seq(Anything) /\ Len(block') = n + 1 /\ block'[n + 1] = r
       /\ \A k \in 1..n : block'[k] = block[k]
  BY <1>2, <1>10, <1>12
<1>15. /\ m \in Nat /\ expected' \in Seq(HpackField) /\ Len(expected') = m + 1
       /\ expected'[m + 1] = f /\ \A k \in 1..m : expected'[k] = expected[k]
  BY <1>1, <1>2, <1>12
<1>16. /\ T[0] = decoder /\ T[n] = encoder /\ u \in 0..1 /\ u <= n
       /\ u = 1 => ~field /\ decoded = <<>> /\ SaysLimit(block[1], T[0], T[1])
       /\ m + u = l + n /\ l \in Nat
       /\ \A k \in u + 1..n : Says(block[k], T[k - 1], T[k], expected[(l + k) - u])
  BY <1>2, <1>4, <1>12 DEF Course
<1>17. S[0] = decoder /\ S[n + 1] = encoder' /\ \A k \in 0..n : S[k] = T[k]
  BY <1>13, <1>14, <1>16
<1>18. ASSUME NEW k \in u + 1..n + 1
       PROVE  Says(block'[k], S[k - 1], S[k], expected'[(l + k) - u])
  <2>1. CASE k = n + 1
    <3>1. (l + k) - u = m + 1 /\ k - 1 = n /\ n \in 0..n
      <4>1. n \in Nat /\ m \in Nat /\ l \in Nat /\ u \in 0..1 /\ m + u = l + n
        BY <1>14, <1>15, <1>16
      <4>. QED BY <2>1, <4>1
    <3>2. S[k - 1] = encoder /\ S[k] = encoder' /\ block'[k] = r
      BY <1>14, <1>16, <1>17, <2>1, <3>1
    <3>. QED BY <1>10, <1>15, <3>1, <3>2
  <2>2. CASE k # n + 1
    <3>1. k \in u + 1..n /\ k \in 1..n /\ k \in 0..n /\ k - 1 \in 0..n
      BY <1>14, <1>16, <2>2
    <3>2. (l + k) - u \in 1..m
      BY <1>14, <1>15, <1>16, <3>1
    <3>. QED BY <1>14, <1>15, <1>16, <1>17, <3>1, <3>2
  <2>. QED BY <2>1, <2>2
<1>19. u = 1 => /\ ~field' /\ decoded' = <<>> /\ SaysLimit(block'[1], S[0], S[1])
  <2>1. ASSUME u = 1 PROVE block'[1] = block[1] /\ S[1] = T[1] /\ S[0] = T[0]
    <3>1. 1 \in 1..n /\ 1 \in 0..n /\ 0 \in 0..n
      BY <1>14, <1>16, <2>1
    <3>. QED BY <1>14, <1>17, <3>1
  <2>. QED BY <1>1, <1>16, <2>1
<1>20. InStep'
  <2>1. \A i \in 1..Len(decoded) : decoded[i] = expected'[i]
    <3>1. l <= m
      BY <1>14, <1>15, <1>16
    <3>2. \A i \in 1..l : i \in 1..m
      BY <1>15, <1>16, <3>1
    <3>. QED BY <1>3, <1>12, <1>15, <3>2 DEF InStep
  <2>2. field' => decoded' # <<>>
    BY <1>1, <1>3 DEF InStep
  <2>3. u <= n + 1 /\ (m + 1) + u = l + (n + 1)
    BY <1>14, <1>15, <1>16
  <2>4. /\ Len(block') = n + 1 /\ Len(expected') = m + 1 /\ Len(decoded') = l
    BY <1>1, <1>12, <1>14, <1>15
  <2>5. /\ S[0] = decoder' /\ S[Len(block')] = encoder' /\ u \in 0..1 /\ u <= Len(block')
        /\ Len(expected') + u = Len(decoded') + Len(block')
    BY <1>1, <1>16, <1>17, <2>3, <2>4
  <2>6. \A k \in u + 1..Len(block') :
           Says(block'[k], S[k - 1], S[k], expected'[(Len(decoded') + k) - u])
    BY <1>18, <2>4
  <2>7. Course(S, u)'
    BY <1>19, <2>5, <2>6 DEF Course
  <2>. QED BY <1>1, <2>1, <2>2, <2>7 DEF InStep
<1>21. HonestIsUnderstood'
  BY <1>1 DEF HonestIsUnderstood
<1>. QED BY <1>1, <1>2, <1>11, <1>14, <1>15, <1>20, <1>21 DEF HpackInv

\* A change of the limit begins a block.
LEMMA SendUpdateKeeps ==
    ASSUME HpackInv, NEW n \in 0..TableSize, SendUpdate(n)
    PROVE  HpackInv'
<1>1. /\ honest /\ ~refused /\ expected = <<>> /\ block = <<>>
      /\ encoder' = Resize(encoder, n) /\ block' = Append(block, SizeUpdate(n))
      /\ decoder' = decoder /\ expected' = expected /\ decoded' = decoded /\ field' = field
      /\ honest' = honest /\ refused' = refused
  BY DEF SendUpdate
<1>2. /\ IsTable(encoder) /\ IsTable(decoder)
      /\ block \in Seq(Anything) /\ expected \in Seq(HpackField) /\ decoded \in Seq(HpackField)
      /\ field \in BOOLEAN /\ honest \in BOOLEAN /\ refused \in BOOLEAN
  BY DEF HpackInv
<1>3. InStep
  BY <1>1 DEF HpackInv
<1>4. PICK T, u : Course(T, u)
  BY <1>3 DEF InStep
<1>5. IsTable(encoder')
  BY <1>1, <1>2, ResizeIs DEF IsTable
<1>6. Len(block) = 0 /\ Len(expected) = 0 /\ Len(decoded) \in Nat
  BY <1>1, <1>2
<1>7. T[0] = decoder /\ T[0] = encoder /\ u = 0 /\ Len(decoded) = 0
  <2>1. /\ T[0] = decoder /\ T[0] = encoder /\ u \in 0..1 /\ u <= 0
        /\ 0 + u = Len(decoded) + 0
    BY <1>4, <1>6 DEF Course
  <2>. QED BY <1>6, <2>1
<1>8. decoded = <<>> /\ ~field
  BY <1>2, <1>3, <1>7 DEF InStep
<1>9. PICK r : r = SizeUpdate(n)
  OBVIOUS
<1>10. r \in Anything /\ SaysLimit(r, encoder, encoder')
  <2>1. n \in 0..(TableSize + 1)
    BY EntrySizeIs
  <2>2. r \in Anything
    BY <1>9, <2>1 DEF Anything
  <2>. QED BY <1>1, <1>9, <2>2 DEF SaysLimit, SizeUpdate
<1>11. block' \in Seq(Anything) /\ Len(block') = 1 /\ block'[1] = r
  BY <1>1, <1>9, <1>10
<1>12. \E S, v : Course(S, v)'
  <2>1. PICK S : S = [k \in 0..1 |-> IF k = 0 THEN encoder ELSE encoder']
    OBVIOUS
  <2>2. S[0] = encoder /\ S[1] = encoder'
    BY <2>1
  <2>3. /\ S[0] = decoder' /\ S[Len(block')] = encoder' /\ 1 \in 0..1 /\ 1 <= Len(block')
        /\ Len(expected') + 1 = Len(decoded') + Len(block')
    BY <1>1, <1>6, <1>7, <1>11, <2>2
  <2>4. ~field' /\ decoded' = <<>> /\ SaysLimit(block'[1], S[0], S[1])
    BY <1>1, <1>8, <1>10, <1>11, <2>2
  <2>5. \A k \in 1 + 1..Len(block') : FALSE
    BY <1>11
  <2>6. Course(S, 1)'
    BY <2>3, <2>4, <2>5 DEF Course
  <2>. QED BY <2>6
<1>13. InStep'
  BY <1>1, <1>6, <1>7, <1>8, <1>12 DEF InStep
<1>14. HonestIsUnderstood'
  BY <1>1 DEF HonestIsUnderstood
<1>. QED BY <1>1, <1>2, <1>5, <1>11, <1>13, <1>14 DEF HpackInv

\* What a peer makes up says nothing of the encoder's.
LEMMA SendAnythingKeeps ==
    ASSUME HpackInv, NEW r \in Anything, SendAnything(r)
    PROVE  HpackInv'
<1>1. /\ ~honest /\ block' = <<r>>
      /\ encoder' = encoder /\ decoder' = decoder /\ expected' = expected
      /\ decoded' = decoded /\ field' = field /\ honest' = honest /\ refused' = refused
  BY DEF SendAnything
<1>2. block' \in Seq(Anything)
  BY <1>1
<1>3. HonestIsUnderstood'
  BY <1>1 DEF HonestIsUnderstood
<1>. QED BY <1>1, <1>2, <1>3 DEF HpackInv

\* The next block begins where the last one has ended.
LEMMA EndOfBlockKeeps ==
    ASSUME HpackInv, EndOfBlock
    PROVE  HpackInv'
<1>1. /\ block = <<>> /\ decoded # <<>> /\ ~refused
      /\ expected' = <<>> /\ decoded' = <<>> /\ field' = FALSE
      /\ encoder' = encoder /\ decoder' = decoder /\ block' = block /\ honest' = honest
      /\ refused' = refused
  BY DEF EndOfBlock
<1>2. ASSUME honest PROVE InStep'
  <2>1. InStep
    BY <1>1, <1>2 DEF HpackInv
  <2>2. PICK T, u : Course(T, u)
    BY <2>1 DEF InStep
  <2>3. Len(block) = 0 /\ Len(block') = 0
    BY <1>1
  <2>4. T[0] = decoder /\ T[0] = encoder
    BY <2>2, <2>3 DEF Course
  <2>5. Course(T, 0)'
    BY <1>1, <2>3, <2>4 DEF Course
  <2>. QED BY <1>1, <2>5 DEF InStep
<1>3. HonestIsUnderstood'
  BY <1>1 DEF HonestIsUnderstood
<1>4. expected' \in Seq(HpackField) /\ decoded' \in Seq(HpackField)
  BY <1>1
<1>. QED BY <1>1, <1>2, <1>3, <1>4 DEF HpackInv

\* What reading a representation of a field does: the field is handed over, and the table
\* may take it in.
Reads(f, table) ==
    /\ f \in HpackField /\ table \in {decoder, Insert(decoder, f)}
    /\ HandOver(f, table)
    /\ block' = Tail(block)
    /\ UNCHANGED <<encoder, expected, honest>>

\* What reading a change of the limit does.
ReadsLimit(n) ==
    /\ ~field /\ n \in 0..TableSize
    /\ decoder' = Resize(decoder, n)
    /\ block' = Tail(block)
    /\ UNCHANGED <<encoder, expected, decoded, field, honest, refused>>

\* The three of decode_hpack: it gives up, takes the limit or hands a field over, whoever
\* wrote the block.
LEMMA DecodeIs ==
    ASSUME HpackInv, Decode
    PROVE  RefuseBlock \/ (\E n : ReadsLimit(n)) \/ \E f, table : Reads(f, table)
<1>1. PICK r : r = Head(block)
  OBVIOUS
<1>2. block # <<>> /\ (DecodeUpdate(r) \/ DecodeIndexed(r) \/ DecodeLiteral(r))
  BY <1>1 DEF Decode
<1>3. IsRing(decoder) /\ block \in Seq(Anything)
  BY DEF HpackInv, IsTable
<1>4. r \in Anything
  BY <1>1, <1>2, <1>3, HeadAndRest
<1>5. CASE DecodeUpdate(r)
  <2>1. r.kind = "update" /\ r.max \in Nat
    BY <1>4, <1>5, AnythingIs DEF DecodeUpdate
  <2>2. CASE field \/ r.max > TableSize
    BY <1>5, <2>2 DEF DecodeUpdate
  <2>3. CASE ~ (field \/ r.max > TableSize)
    <3>1. r.max \in 0..TableSize
      BY <2>1, <2>3, EntrySizeIs
    <3>2. ReadsLimit(r.max)
      BY <1>5, <2>3, <3>1 DEF DecodeUpdate, ReadsLimit
    <3>. QED BY <3>2
  <2>. QED BY <2>2, <2>3
<1>6. CASE DecodeIndexed(r)
  <2>1. CASE r.index \notin Addressable(decoder)
    BY <1>6, <2>1 DEF DecodeIndexed
  <2>2. CASE r.index \in Addressable(decoder)
    <3>1. GetHpack(decoder, r.index) \in HpackField
      BY <1>3, <2>2, HeldIs
    <3>2. Reads(GetHpack(decoder, r.index), decoder)
      BY <1>6, <2>2, <3>1 DEF DecodeIndexed, Reads
    <3>. QED BY <3>2
  <2>. QED BY <2>1, <2>2
<1>7. CASE DecodeLiteral(r)
  <2>1. CASE r.index \notin Addressable(decoder) \cup {0}
    BY <1>7, <2>1 DEF DecodeLiteral
  <2>2. CASE r.index \in Addressable(decoder) \cup {0}
    <3>1. PICK f : f = [r.field EXCEPT !.name = NameOf(r, decoder)]
      OBVIOUS
    <3>2. /\ HandOver(f, IF r.indexing THEN Insert(decoder, f) ELSE decoder)
          /\ block' = Tail(block)
          /\ UNCHANGED <<encoder, expected, honest>>
      BY <1>7, <2>2, <3>1 DEF DecodeLiteral
    <3>3. r.kind = "literal" /\ r.field \in HpackField
      BY <1>4, <1>7, AnythingIs DEF DecodeLiteral
    <3>4. NameOf(r, decoder) \in DOMAIN NameSize
      <4>1. CASE r.index = 0
        BY <3>3, <4>1 DEF NameOf, HpackField
      <4>2. CASE r.index # 0
        <5>1. GetHpack(decoder, r.index) \in HpackField
          BY <1>3, <2>2, <4>2, HeldIs
        <5>. QED BY <4>2, <5>1 DEF NameOf, HpackField
      <4>. QED BY <4>1, <4>2
    <3>5. f \in HpackField
      BY <3>1, <3>3, <3>4 DEF HpackField
    <3>6. \E table : Reads(f, table)
      BY <3>2, <3>5 DEF Reads
    <3>. QED BY <3>6
  <2>. QED BY <2>1, <2>2
<1>. QED BY <1>2, <1>5, <1>6, <1>7

\* What an honest peer wrote is understood: the change of the limit that comes first, or the
\* field that comes next.
LEMMA HonestDecodeIs ==
    ASSUME HpackInv, Decode, honest, NEW T, NEW u, Course(T, u)
    PROVE  /\ u = 1 => \E n : ReadsLimit(n) /\ decoder' = T[1]
           /\ u = 0 => Reads(expected[Len(decoded) + 1], T[1])
<1>1. PICK r : r = Head(block)
  OBVIOUS
<1>2. /\ block # <<>> /\ (DecodeUpdate(r) \/ DecodeIndexed(r) \/ DecodeLiteral(r))
  BY <1>1 DEF Decode
<1>3. block \in Seq(Anything) /\ expected \in Seq(HpackField) /\ decoded \in Seq(HpackField)
  BY DEF HpackInv
<1>4. r = block[1] /\ Len(block) \in Nat \ {0}
  BY <1>1, <1>2, <1>3, HeadAndRest
<1>5. T[0] = decoder
  BY DEF Course
<1>6. ASSUME u = 1 PROVE \E n : ReadsLimit(n) /\ decoder' = T[1]
  <2>1. ~field /\ SaysLimit(r, decoder, T[1])
    BY <1>4, <1>5, <1>6 DEF Course
  <2>2. r.kind = "update" /\ r.max \in 0..TableSize /\ T[1] = Resize(decoder, r.max)
    BY <2>1 DEF SaysLimit
  <2>3. ~ (r.max > TableSize)
    BY <2>2, EntrySizeIs
  <2>4. DecodeUpdate(r)
    BY <1>2, <2>2 DEF DecodeIndexed, DecodeLiteral
  <2>5. ReadsLimit(r.max)
    BY <2>1, <2>2, <2>3, <2>4 DEF DecodeUpdate, ReadsLimit
  <2>. QED BY <2>2, <2>5 DEF ReadsLimit
<1>7. ASSUME u = 0 PROVE Reads(expected[Len(decoded) + 1], T[1])
  <2>1. PICK f : f = expected[Len(decoded) + 1]
    OBVIOUS
  <2>2. Says(r, decoder, T[1], f)
    <3>1. 1 \in u + 1..Len(block) /\ (Len(decoded) + 1) - u = Len(decoded) + 1 /\ 1 - 1 = 0
      BY <1>3, <1>4, <1>7
    <3>2. Says(block[1], T[1 - 1], T[1], expected[(Len(decoded) + 1) - u])
      BY <3>1 DEF Course
    <3>. QED BY <1>4, <1>5, <2>1, <3>1, <3>2
  <2>3. f \in HpackField
    <3>1. Len(decoded) + 1 \in 1..Len(expected)
      <4>1. Len(expected) + 0 = Len(decoded) + Len(block)
        BY <1>7 DEF Course
      <4>. QED BY <1>3, <1>4, <4>1
    <3>. QED BY <1>3, <2>1, <3>1
  <2>4. CASE r.kind = "indexed"
    <3>1. r.index \in Addressable(decoder) /\ GetHpack(decoder, r.index) = f /\ T[1] = decoder
      BY <2>2, <2>4 DEF Says
    <3>2. DecodeIndexed(r)
      BY <1>2, <2>4 DEF DecodeUpdate, DecodeLiteral
    <3>3. Reads(f, decoder)
      BY <2>3, <3>1, <3>2 DEF DecodeIndexed, Reads
    <3>. QED BY <2>1, <3>1, <3>3
  <2>5. CASE r.kind # "indexed"
    <3>1. /\ r.kind = "literal" /\ r.field = f
          /\ \/ r.index = 0
             \/ r.index \in Addressable(decoder) /\ GetHpack(decoder, r.index).name = f.name
          /\ T[1] = IF r.indexing THEN Insert(decoder, f) ELSE decoder
      BY <2>2, <2>5 DEF Says
    <3>2. DecodeLiteral(r)
      BY <1>2, <3>1 DEF DecodeUpdate, DecodeIndexed
    <3>3. NameOf(r, decoder) = f.name
      BY <3>1 DEF NameOf
    <3>4. [r.field EXCEPT !.name = NameOf(r, decoder)] = f
      BY <2>3, <3>1, <3>3 DEF HpackField
    <3>5. /\ HandOver(f, T[1]) /\ block' = Tail(block)
          /\ UNCHANGED <<encoder, expected, honest>>
      BY <3>1, <3>2, <3>4 DEF DecodeLiteral
    <3>6. Reads(f, T[1])
      BY <2>3, <3>1, <3>5 DEF Reads
    <3>. QED BY <2>1, <3>6
  <2>. QED BY <2>4, <2>5
<1>. QED BY <1>6, <1>7

\* What is not read by an end that listens to an honest one is left as it is.
LEMMA RefuseBlockKeeps ==
    ASSUME HpackInv, RefuseBlock, ~honest
    PROVE  HpackInv'
<1>1. /\ refused' = TRUE
      /\ encoder' = encoder /\ decoder' = decoder /\ block' = block /\ expected' = expected
      /\ decoded' = decoded /\ field' = field /\ honest' = honest
  BY DEF RefuseBlock
<1>2. HonestIsUnderstood'
  BY <1>1 DEF HonestIsUnderstood
<1>. QED BY <1>1, <1>2 DEF HpackInv

\* The tables that are left to go through.
LEMMA CourseGoesOn ==
    ASSUME HpackInv, NEW T, NEW u, Course(T, u), block # <<>>, block' = Tail(block),
           decoder' = T[1], encoder' = encoder, expected' = expected,
           decoded' \in Seq(HpackField), Len(decoded') + u = Len(decoded) + 1
    PROVE  \E S, v : Course(S, v)'
<1>1. block \in Seq(Anything) /\ expected \in Seq(HpackField) /\ decoded \in Seq(HpackField)
  BY DEF HpackInv
<1>2. PICK n, l, m, j : n = Len(block) /\ l = Len(decoded) /\ m = Len(expected)
                        /\ j = Len(decoded')
  OBVIOUS
<1>3. /\ n \in Nat \ {0} /\ l \in Nat /\ m \in Nat /\ j \in Nat
      /\ Len(block') = n - 1 /\ \A i \in 1..n - 1 : block'[i] = block[i + 1]
  BY <1>1, <1>2, HeadAndRest
<1>4. /\ T[n] = encoder /\ u \in 0..1 /\ m + u = l + n
      /\ \A k \in u + 1..n : Says(block[k], T[k - 1], T[k], expected[(l + k) - u])
  BY <1>2 DEF Course
<1>5. PICK S : S = [k \in 0..n - 1 |-> T[k + 1]]
  OBVIOUS
<1>6. \A k \in 0..n - 1 : S[k] = T[k + 1]
  BY <1>5
<1>7. j + u = l + 1
  BY <1>2
<1>8. ASSUME NEW k \in 0 + 1..n - 1
      PROVE  Says(block'[k], S[k - 1], S[k], expected'[(j + k) - 0])
  <2>1. /\ k + 1 \in u + 1..n /\ k \in 1..n - 1 /\ k \in 0..n - 1 /\ k - 1 \in 0..n - 1
        /\ (k + 1) - 1 = k /\ (k - 1) + 1 = k
    BY <1>3, <1>4
  <2>2. (l + (k + 1)) - u = (j + k) - 0
    BY <1>3, <1>4, <1>7, <2>1
  <2>3. Says(block[k + 1], T[(k + 1) - 1], T[k + 1], expected[(l + (k + 1)) - u])
    BY <1>4, <2>1
  <2>4. S[k - 1] = T[k] /\ S[k] = T[k + 1] /\ block'[k] = block[k + 1]
    BY <1>3, <1>6, <2>1
  <2>. QED BY <2>1, <2>2, <2>3, <2>4
<1>9. S[0] = decoder' /\ S[n - 1] = encoder'
  <2>1. 0 \in 0..n - 1 /\ n - 1 \in 0..n - 1 /\ 0 + 1 = 1 /\ (n - 1) + 1 = n
    BY <1>3
  <2>2. S[0] = T[0 + 1] /\ S[n - 1] = T[(n - 1) + 1]
    BY <1>6, <2>1
  <2>. QED BY <1>4, <2>1, <2>2
<1>10. 0 \in 0..1 /\ 0 <= n - 1 /\ m + 0 = j + (n - 1)
  BY <1>3, <1>4, <1>7
<1>11. Course(S, 0)'
  BY <1>2, <1>3, <1>8, <1>9, <1>10 DEF Course
<1>. QED BY <1>11

\* A change of the limit is read.
LEMMA ReadsLimitKeeps ==
    ASSUME HpackInv, Decode, NEW n, ReadsLimit(n)
    PROVE  HpackInv'
<1>1. /\ n \in 0..TableSize /\ decoder' = Resize(decoder, n) /\ block' = Tail(block)
      /\ ~field /\ encoder' = encoder /\ expected' = expected /\ decoded' = decoded
      /\ field' = field /\ honest' = honest /\ refused' = refused
      /\ block # <<>> /\ ~refused
  BY DEF ReadsLimit, Decode
<1>2. IsTable(encoder) /\ IsTable(decoder) /\ block \in Seq(Anything)
      /\ decoded \in Seq(HpackField)
  BY DEF HpackInv
<1>3. IsTable(decoder')
  BY <1>1, <1>2, ResizeIs DEF IsTable
<1>4. block' \in Seq(Anything)
  BY <1>1, <1>2
<1>5. ASSUME honest PROVE InStep'
  <2>1. InStep
    BY <1>1, <1>5 DEF HpackInv
  <2>2. PICK T, u : Course(T, u)
    BY <2>1 DEF InStep
  <2>3. u \in 0..1
    BY <2>2 DEF Course
  <2>4. u = 1 /\ decoder' = T[1]
    <3>1. u # 0
      <4>1. SUFFICES ASSUME u = 0 PROVE FALSE
        OBVIOUS
      <4>2. HandOver(expected[Len(decoded) + 1], T[1])
        BY <1>5, <2>2, <4>1, HonestDecodeIs DEF Reads
      <4>3. field' = TRUE
        BY <4>2 DEF HandOver
      <4>. QED BY <1>1, <4>3
    <3>2. u = 1
      BY <2>3, <3>1
    <3>. QED BY <1>5, <2>2, <3>2, HonestDecodeIs
  <2>5. \E S, v : Course(S, v)'
    <3>1. Len(decoded') + u = Len(decoded) + 1 /\ decoded' \in Seq(HpackField)
      BY <1>1, <1>2, <2>4
    <3>. QED BY <1>1, <2>2, <2>4, <3>1, CourseGoesOn
  <2>. QED BY <1>1, <2>1, <2>5 DEF InStep
<1>6. HonestIsUnderstood'
  BY <1>1 DEF HonestIsUnderstood
<1>. QED BY <1>1, <1>3, <1>4, <1>5, <1>6 DEF HpackInv

\* A field is read: its list may be too long by now, and it is with its field.
LEMMA ReadsKeeps ==
    ASSUME HpackInv, Decode, NEW f, NEW table, Reads(f, table)
    PROVE  HpackInv'
<1>1. /\ f \in HpackField /\ table \in {decoder, Insert(decoder, f)}
      /\ decoder' = table /\ field' = TRUE /\ block' = Tail(block)
      /\ IF ListSize(Append(decoded, f)) > ListLimit
         THEN refused' = TRUE /\ decoded' = decoded
         ELSE decoded' = Append(decoded, f) /\ refused' = refused
      /\ encoder' = encoder /\ expected' = expected /\ honest' = honest
      /\ block # <<>> /\ ~refused
  BY DEF Reads, HandOver, Decode
<1>2. /\ IsTable(encoder) /\ IsTable(decoder) /\ block \in Seq(Anything)
      /\ decoded \in Seq(HpackField) /\ expected \in Seq(HpackField)
      /\ honest \in BOOLEAN /\ refused \in BOOLEAN
  BY DEF HpackInv
<1>3. IsTable(decoder')
  BY <1>1, <1>2, InsertIs
<1>4. block' \in Seq(Anything)
  BY <1>1, <1>2
<1>5. decoded' \in Seq(HpackField) /\ refused' \in BOOLEAN
  <2>1. Append(decoded, f) \in Seq(HpackField)
    BY <1>1, <1>2
  <2>. QED BY <1>1, <1>2, <2>1
<1>6. ASSUME honest
      PROVE  /\ refused' => ListSize(expected) > ListLimit
             /\ ~refused' => InStep'
  <2>1. InStep
    BY <1>1, <1>6 DEF HpackInv
  <2>2. PICK T, u : Course(T, u)
    BY <2>1 DEF InStep
  <2>3. u \in 0..1 /\ Len(expected) + u = Len(decoded) + Len(block)
    BY <2>2 DEF Course
  <2>4. u = 0
    <3>1. u # 1
      <4>1. SUFFICES ASSUME u = 1 PROVE FALSE
        OBVIOUS
      <4>2. PICK n : ReadsLimit(n)
        BY <1>6, <2>2, <4>1, HonestDecodeIs
      <4>. QED BY <1>1, <4>2 DEF ReadsLimit
    <3>. QED BY <2>3, <3>1
  <2>5. PICK l, m, g : l = Len(decoded) /\ m = Len(expected) /\ g = expected[Len(decoded) + 1]
    OBVIOUS
  <2>6. Reads(g, T[1])
    BY <1>6, <2>2, <2>4, <2>5, HonestDecodeIs
  <2>7. /\ g \in HpackField /\ decoder' = T[1]
        /\ IF ListSize(Append(decoded, g)) > ListLimit
           THEN refused' = TRUE /\ decoded' = decoded
           ELSE decoded' = Append(decoded, g) /\ refused' = refused
    BY <2>6 DEF Reads, HandOver
  <2>8. l \in Nat /\ m \in Nat /\ l + 1 <= m
    <3>1. Len(block) \in Nat \ {0}
      BY <1>1, <1>2, HeadAndRest
    <3>2. l \in Nat /\ m \in Nat /\ m + u = l + Len(block)
      BY <1>2, <2>3, <2>5
    <3>. QED BY <2>4, <3>1, <3>2
  <2>9. PICK more : more = Append(decoded, g)
    OBVIOUS
  <2>10. /\ more \in Seq(HpackField) /\ Len(more) = l + 1
         /\ \A i \in 1..l + 1 : more[i] = expected[i]
    <3>1. /\ more \in Seq(HpackField) /\ Len(more) = l + 1
          /\ \A i \in 1..l + 1 : more[i] = IF i <= l THEN decoded[i] ELSE g
      BY <1>2, <2>5, <2>7, <2>9, Appended
    <3>2. \A i \in 1..l : decoded[i] = expected[i]
      BY <2>1, <2>5 DEF InStep
    <3>3. ASSUME NEW i \in 1..l + 1 PROVE more[i] = expected[i]
      <4>1. CASE i <= l
        <5>1. i \in 1..l
          BY <2>8, <4>1
        <5>. QED BY <3>1, <3>2, <4>1, <5>1
      <4>2. CASE ~ (i <= l)
        <5>1. i = l + 1
          BY <2>8, <4>2
        <5>. QED BY <2>5, <3>1, <4>2, <5>1
      <4>. QED BY <4>1, <4>2
    <3>. QED BY <3>1, <3>3
  <2>11. ListSize(more) <= ListSize(expected) /\ ListSize(more) \in Nat
         /\ ListSize(expected) \in Nat
    <3>1. PICK s, e : s = SubSeq(expected, 1, l + 1) /\ e = SubSeq(expected, 1, Len(expected))
      OBVIOUS
    <3>2. s \in Seq(HpackField) /\ Len(s) = l + 1 /\ \A i \in 1..l + 1 : s[i] = expected[i]
      BY <1>2, <2>5, <2>8, <3>1
    <3>3. more = s
      BY <2>10, <3>2
    <3>4. e = expected
      BY <1>2, <3>1, WholeIs
    <3>5. l + 1 \in 0..m /\ m \in l + 1..m
      BY <2>8
    <3>6. ListSize(s) <= ListSize(e)
      <4>1. PICK k : k = l + 1
        OBVIOUS
      <4>2. k \in 0..Len(expected) /\ Len(expected) \in k..Len(expected)
        BY <2>5, <3>5, <4>1
      <4>3. ListSize(SubSeq(expected, 1, k)) <= ListSize(SubSeq(expected, 1, Len(expected)))
        BY <1>2, <4>2, ListSizeOrder
      <4>. QED BY <3>1, <4>1, <4>3
    <3>7. ListSize(more) \in Nat /\ ListSize(expected) \in Nat
      BY <1>2, <2>10, SizesAre
    <3>. QED BY <3>3, <3>4, <3>6, <3>7
  <2>12. CASE ListSize(more) > ListLimit
    <3>1. ListSize(expected) > ListLimit
      BY <2>11, <2>12, HpackAssumption
    <3>2. refused' = TRUE
      BY <2>7, <2>9, <2>12
    <3>. QED BY <3>1, <3>2
  <2>13. CASE ~ (ListSize(more) > ListLimit)
    <3>1. decoded' = more /\ refused' = FALSE
      BY <1>1, <1>2, <2>7, <2>9, <2>13
    <3>2. \E S, v : Course(S, v)'
      <4>1. Len(decoded') + u = Len(decoded) + 1 /\ decoded' \in Seq(HpackField)
        BY <2>4, <2>5, <2>8, <2>10, <3>1
      <4>. QED BY <1>1, <2>2, <2>7, <4>1, CourseGoesOn
    <3>3. decoded' # <<>>
      BY <2>8, <2>10, <3>1
    <3>4. \A i \in 1..Len(decoded') : decoded'[i] = expected'[i]
      BY <1>1, <2>10, <3>1
    <3>5. InStep'
      BY <3>2, <3>3, <3>4 DEF InStep
    <3>. QED BY <3>1, <3>5
  <2>. QED BY <2>12, <2>13
<1>7. HonestIsUnderstood'
  BY <1>1, <1>6 DEF HonestIsUnderstood
<1>8. field' \in BOOLEAN /\ honest' \in BOOLEAN /\ expected' \in Seq(HpackField)
      /\ IsTable(encoder')
  BY <1>1, <1>2
<1>. QED BY <1>1, <1>3, <1>4, <1>5, <1>6, <1>7, <1>8 DEF HpackInv

\* The decoder takes a turn of its loop (decode_hpack).
LEMMA DecodeKeeps ==
    ASSUME HpackInv, Decode
    PROVE  HpackInv'
<1>1. CASE RefuseBlock
  <2>1. ~honest
    <3>1. SUFFICES ASSUME honest PROVE FALSE
      OBVIOUS
    <3>2. ~refused /\ block # <<>> /\ refused' = TRUE /\ block' = block
      BY <1>1 DEF Decode, RefuseBlock
    <3>3. InStep
      BY <3>1, <3>2 DEF HpackInv
    <3>4. PICK T, u : Course(T, u)
      BY <3>3 DEF InStep
    <3>5. u \in 0..1
      BY <3>4 DEF Course
    <3>6. block' = Tail(block)
      <4>1. CASE u = 1
        BY <3>1, <3>4, <4>1, HonestDecodeIs DEF ReadsLimit
      <4>2. CASE u = 0
        BY <3>1, <3>4, <4>2, HonestDecodeIs DEF Reads
      <4>. QED BY <3>5, <4>1, <4>2
    <3>7. block \in Seq(Anything)
      BY DEF HpackInv
    <3>8. Len(Tail(block)) = Len(block) - 1 /\ Len(block) \in Nat \ {0}
      BY <3>2, <3>7, HeadAndRest
    <3>. QED BY <3>2, <3>6, <3>8
  <2>. QED BY <1>1, <2>1, RefuseBlockKeeps
<1>2. CASE \E n : ReadsLimit(n)
  BY <1>2, ReadsLimitKeeps
<1>3. CASE \E f, table : Reads(f, table)
  BY <1>3, ReadsKeeps
<1>. QED BY <1>1, <1>2, <1>3, DecodeIs

\* No step of either end breaks the invariant.
LEMMA HpackInvKept == HpackInv /\ [HpackNext]_hpackVars => HpackInv'
<1>. SUFFICES ASSUME HpackInv, [HpackNext]_hpackVars PROVE HpackInv'
  OBVIOUS
<1>1. CASE \E f \in HpackField, indexing \in BOOLEAN : SendField(f, indexing)
  BY <1>1, SendFieldKeeps
<1>2. CASE \E n \in 0..TableSize : SendUpdate(n)
  BY <1>2, SendUpdateKeeps
<1>3. CASE \E r \in Anything : SendAnything(r)
  BY <1>3, SendAnythingKeeps
<1>4. CASE Decode
  BY <1>4, DecodeKeeps
<1>5. CASE EndOfBlock
  BY <1>5, EndOfBlockKeeps
<1>6. CASE UNCHANGED hpackVars
  <2>1. /\ encoder' = encoder /\ decoder' = decoder /\ block' = block /\ expected' = expected
        /\ decoded' = decoded /\ field' = field /\ honest' = honest /\ refused' = refused
    BY <1>6 DEF hpackVars
  <2>2. InStep' <=> InStep
    <3>1. (\E T, u : Course(T, u))' <=> (\E T, u : Course(T, u))
      BY <2>1 DEF Course
    <3>. QED BY <2>1, <3>1 DEF InStep
  <2>. QED BY <2>1, <2>2 DEF HpackInv, HonestIsUnderstood
<1>. QED BY <1>1, <1>2, <1>3, <1>4, <1>5, <1>6 DEF HpackNext

\* Whatever either end sends, each keeps a sound ring, and two honest ends agree
\* (encode_hpack, decode_hpack and the tables of both).
THEOREM HpackIsSound == HpackSpec => []HpackInv
<1>. QED BY HpackBegins, HpackInvKept, PTL DEF HpackSpec

\* So does what the run checks: rings that hold what they count, fields that were read as
\* they were written, and a decoder that gives up on an honest peer for the size of its list
\* alone.
THEOREM TablesAgreeAlways == HpackSpec => []TablesAgree
<1>. QED BY HpackIsSound, HpackInvGives, PTL

-----------------------------------------------------------------------------
(* The queue.                                                              *)

\* A step of the two ends is one of the queue, or leaves it as it is.
LEMMA QueueSteps ==
    ASSUME HpackInv, [HpackNext]_hpackVars
    PROVE  [Queue!QueueNext]_<<Contents(decoder), decoder.max>>
<1>1. CASE decoder' = decoder
  <2>1. UNCHANGED <<Contents(decoder), decoder.max>>
    BY <1>1 DEF Contents, Position
  <2>. QED BY <2>1
<1>2. CASE decoder' # decoder
  <2>1. Decode
    BY <1>2 DEF HpackNext, hpackVars, SendField, SendUpdate, SendAnything, EndOfBlock
  <2>2. IsTable(decoder)
    BY DEF HpackInv
  <2>3. CASE RefuseBlock
    BY <1>2, <2>3 DEF RefuseBlock
  <2>4. CASE \E n : ReadsLimit(n)
    <3>1. PICK n : ReadsLimit(n)
      BY <2>4
    <3>2. n \in 0..TableSize /\ decoder' = Resize(decoder, n)
      BY <3>1 DEF ReadsLimit
    <3>3. /\ decoder'.max = n
          /\ Contents(decoder') = Queue!Fitting(Contents(decoder), n)
      BY <2>2, <3>2, ResizeIs DEF IsTable
    <3>4. Queue!Resize(n)
      BY <3>3 DEF Queue!Resize
    <3>. QED BY <3>2, <3>4 DEF Queue!QueueNext
  <2>5. CASE \E f, table : Reads(f, table)
    <3>1. PICK f, table : Reads(f, table)
      BY <2>5
    <3>2. f \in HpackField /\ decoder' = Insert(decoder, f)
      BY <1>2, <3>1 DEF Reads, HandOver
    <3>3. /\ decoder'.max = decoder.max
          /\ Contents(decoder') = Queue!Fitting(<<f>> \o Contents(decoder), decoder.max)
      BY <2>2, <3>2, InsertIs
    <3>4. Queue!Insert(f)
      BY <3>3 DEF Queue!Insert
    <3>. QED BY <3>2, <3>4 DEF Queue!QueueNext
  <2>. QED BY <2>1, <2>3, <2>4, <2>5, DecodeIs
<1>. QED BY <1>1, <1>2

\* The ring is the queue that HpackQueue promises: what it holds is the longest run of the
\* newest fields that fits its limit, through every insertion and every change of the limit.
THEOREM TableIsAQueueAlways == HpackSpec => TableIsAQueue
<1>1. HpackInit => Queue!QueueInit
  <2>. SUFFICES ASSUME HpackInit PROVE Queue!QueueInit
    OBVIOUS
  <2>1. decoder = NewTable
    BY DEF HpackInit
  <2>. QED BY <2>1, NewTableIs DEF Queue!QueueInit
<1>2. HpackInv /\ [HpackNext]_hpackVars => [Queue!QueueNext]_<<Contents(decoder), decoder.max>>
  BY QueueSteps
<1>. QED BY HpackIsSound, <1>1, <1>2, PTL DEF HpackSpec, TableIsAQueue, Queue!QueueSpec

-----------------------------------------------------------------------------
(***************************************************************************)
(* The maps that are open addressed.                                       *)
(***************************************************************************)
MapElement == {NotUsed} \cup (MapName \X Nat)

\* The index that is the k-th to be tried.
At(name, k, buffer) == (MapHash(name) + k - 1) % buffer

UsedOf(table) == {i \in DOMAIN table : table[i] # NotUsed}
ContentsOf(table) == {table[i] : i \in UsedOf(table)}

\* Each name is there once, and no index that is tried before its own is free.
GoodTable(table, buffer) ==
    /\ buffer \in Nat \ {0} /\ table \in [0..buffer - 1 -> MapElement]
    /\ \A i, j \in UsedOf(table) : table[i][1] = table[j][1] => i = j
    /\ \A i \in UsedOf(table) :
          \E k \in 1..buffer : /\ At(table[i][1], k, buffer) = i
                               /\ \A j \in 1..k - 1 : At(table[i][1], j, buffer) \in UsedOf(table)

\* The values that were set last.
LastSets == {k \in 1..Len(mapSet) : \A l \in k + 1..Len(mapSet) : mapSet[l] # mapSet[k]}

Buffer == Cardinality(DOMAIN mapTable)

TableInv ==
    /\ GoodTable(mapTable, Buffer)
    /\ mapSize \in Nat /\ Cardinality(UsedOf(mapTable)) <= mapSize
    /\ UsedOf(mapTable) # DOMAIN mapTable
    /\ mapSet \in Seq(MapName)
    /\ ContentsOf(mapTable) = {<<mapSet[k], k>> : k \in LastSets}

OrderInv ==
    /\ mapSorted \in BOOLEAN
    /\ mapOrder = IF mapSorted THEN mapSet ELSE <<>>
    /\ mapSorted => IsInjective(mapSet)

CursorType == [index : Nat, given : Seq(MapName), ended : BOOLEAN]

\* What an iterator has given is what lies before where it goes on.
CursorInv ==
    /\ mapCursor \in CursorType
    /\ mapSorted =>
          /\ Len(mapCursor.given) = mapCursor.index /\ mapCursor.index <= Len(mapSet)
          /\ \A k \in 1..mapCursor.index : mapCursor.given[k] = mapSet[k]
          /\ mapCursor.ended => mapCursor.index = Len(mapSet)
    /\ ~mapSorted =>
          /\ IsInjective(mapCursor.given)
          /\ ToSet(mapCursor.given)
                = {mapTable[i][1] : i \in {j \in UsedOf(mapTable) : j < mapCursor.index}}
          /\ mapCursor.ended => \A i \in UsedOf(mapTable) : i < mapCursor.index

MapInv == TableInv /\ OrderInv /\ CursorInv

-----------------------------------------------------------------------------
(* The indices that are tried.                                               *)

LEMMA DividedBy ==
    ASSUME NEW b \in Nat \ {0}, NEW q \in Nat, NEW r \in 0..b - 1
    PROVE  (b * q + r) % b = r
  OBVIOUS

\* Every index is tried, and nothing but indices are.
LEMMA EveryIndexIsTried ==
    ASSUME NEW name \in MapName, NEW b \in Nat \ {0}
    PROVE  /\ \A k \in 1..b : At(name, k, b) \in 0..b - 1
           /\ \A i \in 0..b - 1 : \E k \in 1..b : At(name, k, b) = i
  <1> DEFINE h == MapHash(name)
             q == h \div b
             r == h % b
  <1>1. h \in Nat
    BY MapAssumption
  <1> HIDE DEF h
  <1>2. q \in Nat
    BY <1>1
  <1>3. r \in 0..b - 1
    BY <1>1
  <1>4. h = b * q + r
    BY <1>1
  <1> HIDE DEF q, r
  <1>5. ASSUME NEW k \in 1..b PROVE (h + k - 1) % b \in 0..b - 1
    <2>1. h + k - 1 \in Nat
      BY <1>1
    <2> QED
      BY <2>1
  <1>6. ASSUME NEW i \in 0..b - 1 PROVE \E k \in 1..b : (h + k - 1) % b = i
    <2>1. CASE r <= i
      <3>1. i - r + 1 \in 1..b /\ h + (i - r + 1) - 1 = b * q + i
        BY <2>1, <1>3, <1>4, <1>1, <1>2
      <3>2. (b * q + i) % b = i
        BY <1>2, DividedBy
      <3> QED
        BY <3>1, <3>2
    <2>2. CASE i < r
      <3>1. b + i - r + 1 \in 1..b
        BY <2>2, <1>3
      <3>2. b * (q + 1) = b * q + b
        BY <1>2
      <3>3. b * q \in Nat
        BY <1>2
      <3>4. h + (b + i - r + 1) - 1 = b * (q + 1) + i
        BY <3>2, <3>3, <1>3, <1>4, <1>1
      <3>5. (b * (q + 1) + i) % b = i
        BY <1>2, DividedBy
      <3> QED
        BY <3>1, <3>4, <3>5
    <2> QED
      BY <2>1, <2>2, <1>3
  <1> QED
    BY <1>5, <1>6 DEF At, h

LEMMA SizeOfTable ==
    ASSUME NEW b \in Nat \ {0}, NEW table, DOMAIN table = 0..b - 1
    PROVE  Cardinality(DOMAIN table) = b /\ IsFiniteSet(DOMAIN table)
  <1>1. IsFiniteSet(0..b - 1) /\ Cardinality(0..b - 1) = b
    BY FS_Interval
  <1> QED
    BY <1>1

\* The first that is tried of some indices: none before it is one of them.
LEMMA TheFirstTried ==
    ASSUME NEW b \in Nat \ {0}, NEW table, DOMAIN table = 0..b - 1, NEW name \in MapName,
           NEW I, I \subseteq 0..b - 1, I # {}
    PROVE  \E k \in 1..b : /\ FirstTried(name, table, I) = At(name, k, b)
                           /\ At(name, k, b) \in I
                           /\ \A j \in 1..k - 1 : At(name, j, b) \notin I
  <1> DEFINE tried == [k \in 1..b |-> At(name, k, b)]
             K == {k \in 1..b : tried[k] \in I}
  <1>1. Tried(name, table) = tried
    BY SizeOfTable DEF Tried, At
  <1>2. DOMAIN tried = 1..b
    OBVIOUS
  <1>3. FirstTried(name, table, I) = tried[Min(K)]
    BY <1>1, <1>2 DEF FirstTried
  <1>4. K \subseteq Nat /\ K # {}
    <2>1. PICK i \in I : TRUE
      OBVIOUS
    <2>2. PICK k \in 1..b : At(name, k, b) = i
      BY <2>1, EveryIndexIsTried
    <2> QED
      BY <2>2
  <1>5. PICK k : k = Min(K)
    OBVIOUS
  <1>6. k \in K /\ \A j \in K : k <= j
    <2> HIDE DEF K
    <2> QED
      BY <1>4, <1>5, MinIsLeast
  <1>7. ASSUME NEW j \in 1..k - 1 PROVE At(name, j, b) \notin I
    <2>1. j \in 1..b /\ ~(k <= j)
      BY <1>6
    <2>2. j \notin K
      BY <2>1, <1>6
    <2> QED
      BY <2>1, <2>2
  <1> QED
    BY <1>3, <1>5, <1>6, <1>7

\* What an element of a table is.
LEMMA UsedIsNamed ==
    ASSUME NEW b, NEW table, GoodTable(table, b), NEW i \in UsedOf(table)
    PROVE  i \in 0..b - 1 /\ table[i] \in MapName \X Nat /\ table[i][1] \in MapName
  <1>1. i \in 0..b - 1 /\ table[i] \in MapElement /\ table[i] # NotUsed
    BY DEF GoodTable, UsedOf
  <1> QED
    BY <1>1 DEF MapElement

-----------------------------------------------------------------------------
(* An element that is set.                                                   *)

LEMMA ElementIsPut ==
    ASSUME NEW b, NEW table, GoodTable(table, b), UsedOf(table) # DOMAIN table,
           NEW e \in MapName \X Nat
    PROVE  /\ GoodTable(Put(table, e), b)
           /\ ContentsOf(Put(table, e)) = {x \in ContentsOf(table) : x[1] # e[1]} \cup {e}
           /\ \E i \in 0..b - 1 : UsedOf(Put(table, e)) = UsedOf(table) \cup {i}
  <1> DEFINE name == e[1]
             free == {i \in 0..b - 1 : table[i] = NotUsed \/ MapHash(table[i][1]) = MapHash(name)}
             Names(i) == table[i][1]
  <1>1. /\ b \in Nat \ {0} /\ table \in [0..b - 1 -> MapElement] /\ DOMAIN table = 0..b - 1
        /\ \A i, j \in UsedOf(table) : table[i][1] = table[j][1] => i = j
        /\ name \in MapName /\ e # NotUsed
    <2>1. PICK n \in MapName, v \in Nat : e = <<n, v>>
      OBVIOUS
    <2>2. name \in MapName /\ e # <<>>
      BY <2>1
    <2> QED
      BY <2>2, SizeOfTable DEF GoodTable, NotUsed
  <1>2. free # {} /\ free \subseteq 0..b - 1
    BY <1>1 DEF UsedOf
  <1>3. Put(table, e) = [table EXCEPT ![FirstTried(name, table, free)] = e]
    BY <1>1 DEF Put
  <1> HIDE DEF free, name
  <1>4. PICK k \in 1..b : /\ FirstTried(name, table, free) = At(name, k, b)
                          /\ At(name, k, b) \in free
                          /\ \A j \in 1..k - 1 : At(name, j, b) \notin free
    <2> DEFINE I == free
    <2>1. b \in Nat \ {0} /\ DOMAIN table = 0..b - 1 /\ name \in MapName
      BY <1>1
    <2>2. I # {} /\ I \subseteq 0..b - 1
      BY <1>2
    <2> HIDE DEF I
    <2>3. \E k \in 1..b : /\ FirstTried(name, table, I) = At(name, k, b)
                          /\ At(name, k, b) \in I
                          /\ \A j \in 1..k - 1 : At(name, j, b) \notin I
      BY <2>1, <2>2, TheFirstTried, ZenonT(30)
    <2> QED
      BY <2>3 DEF I
  <1>5. PICK at : at = At(name, k, b)
    OBVIOUS
  <1>6. PICK put : put = [table EXCEPT ![at] = e]
    OBVIOUS
  <1>7. Put(table, e) = put
    BY <1>3, <1>4, <1>5, <1>6
  <1>8. /\ at \in 0..b - 1 /\ put \in [0..b - 1 -> MapElement] /\ DOMAIN put = 0..b - 1
        /\ put[at] = e /\ \A i \in 0..b - 1 : i # at => put[i] = table[i]
    BY <1>1, <1>2, <1>4, <1>5, <1>6 DEF MapElement
  <1>9. UsedOf(put) = UsedOf(table) \cup {at}
    BY <1>1, <1>8 DEF UsedOf
  <1>10. \A i \in UsedOf(table) : table[i][1] \in MapName /\ i \in 0..b - 1
    BY UsedIsNamed
  <1>11. at \in UsedOf(table) => table[at][1] = name
    BY <1>1, <1>4, <1>5, <1>10, MapAssumption DEF free, UsedOf
  <1>12. ASSUME NEW i \in UsedOf(table), i # at PROVE table[i][1] # name
    <2> SUFFICES ASSUME table[i][1] = name PROVE FALSE
      OBVIOUS
    <2>1. i \in free
      BY <1>10 DEF free
    <2>2. PICK l \in 1..b : /\ At(name, l, b) = i
                            /\ \A j \in 1..l - 1 : At(name, j, b) \in UsedOf(table)
      BY DEF GoodTable
    <2>3. k < l
      BY <1>4, <1>5, <1>12, <2>1, <2>2
    <2>4. at \in UsedOf(table)
      BY <2>2, <2>3, <1>5
    <2> QED
      BY <2>4, <1>1, <1>11, <1>12
  <1>13. \A i \in 1..k - 1 : At(name, i, b) \in UsedOf(put)
    <2> SUFFICES ASSUME NEW i \in 1..k - 1 PROVE At(name, i, b) \in UsedOf(table)
      BY <1>9
    <2>1. i \in 1..b
      BY <1>1
    <2>2. At(name, i, b) \in 0..b - 1
      BY <2>1, <1>1, EveryIndexIsTried
    <2> QED
      BY <2>2, <1>1, <1>4 DEF free, UsedOf
  <1>14. ASSUME NEW i \in UsedOf(put)
         PROVE  \E l \in 1..b : /\ At(put[i][1], l, b) = i
                                /\ \A j \in 1..l - 1 : At(put[i][1], j, b) \in UsedOf(put)
    <2>1. CASE i = at
      <3>1. put[i][1] = name
        BY <2>1, <1>8 DEF name
      <3> QED
        BY <2>1, <3>1, <1>5, <1>13
    <2>2. CASE i # at
      <3>1. i \in UsedOf(table) /\ put[i] = table[i]
        BY <2>2, <1>8, <1>9, <1>10
      <3>2. PICK l \in 1..b : /\ At(table[i][1], l, b) = i
                              /\ \A j \in 1..l - 1 : At(table[i][1], j, b) \in UsedOf(table)
        BY <3>1 DEF GoodTable
      <3> QED
        BY <3>1, <3>2, <1>9
    <2> QED
      BY <2>1, <2>2
  <1>15. ASSUME NEW i \in UsedOf(put), NEW j \in UsedOf(put), put[i][1] = put[j][1] PROVE i = j
    <2>1. \A l \in UsedOf(put) : l # at => l \in UsedOf(table) /\ put[l] = table[l]
      BY <1>8, <1>9, <1>10
    <2>2. put[at][1] = name
      BY <1>8 DEF name
    <2> QED
      BY <2>1, <2>2, <1>1, <1>12, <1>15
  <1>16. GoodTable(put, b)
    BY <1>1, <1>8, <1>14, <1>15 DEF GoodTable
  <1>17. ContentsOf(put) = {x \in ContentsOf(table) : x[1] # e[1]} \cup {e}
    <2>1. ASSUME NEW x \in ContentsOf(put) PROVE x = e \/ (x \in ContentsOf(table) /\ x[1] # e[1])
      <3>1. PICK i \in UsedOf(put) : x = put[i]
        BY DEF ContentsOf
      <3>2. CASE i = at
        BY <3>1, <3>2, <1>8
      <3>3. CASE i # at
        BY <3>1, <3>3, <1>8, <1>9, <1>10, <1>12 DEF ContentsOf, name
      <3> QED
        BY <3>2, <3>3
    <2>2. e \in ContentsOf(put)
      BY <1>8, <1>9 DEF ContentsOf
    <2>3. ASSUME NEW x \in ContentsOf(table), x[1] # e[1] PROVE x \in ContentsOf(put)
      <3>1. PICK i \in UsedOf(table) : x = table[i]
        BY DEF ContentsOf
      <3>2. i # at
        BY <3>1, <2>3, <1>11 DEF name
      <3> QED
        BY <3>1, <3>2, <1>8, <1>9, <1>10 DEF ContentsOf
    <2> QED
      BY <2>1, <2>2, <2>3
  <1> QED
    BY <1>7, <1>8, <1>9, <1>16, <1>17

-----------------------------------------------------------------------------
(* The table that the elements of a full one are moved to.                   *)

LEMMA LargerTable ==
    ASSUME NEW b \in Nat \ {0}
    PROVE  b * MapFactor \in Nat \ {0} /\ b < b * MapFactor
  <1>1. MapFactor \in Nat /\ MapFactor > 1
    BY MapAssumption
  <1>2. PICK f : f = MapFactor - 1
    OBVIOUS
  <1>3. f \in Nat /\ f > 0 /\ MapFactor = f + 1
    BY <1>1, <1>2
  <1>4. b * (f + 1) = b * f + b
    BY <1>3
  <1>5. b * f \in Nat /\ b * f > 0
    BY <1>3
  <1> QED
    BY <1>3, <1>4, <1>5

\* The elements below an index.
UsedBelow(table, n) == {i \in UsedOf(table) : i < n}

FilledSoFar(new, n, table, b) ==
    /\ GoodTable(new, b * MapFactor)
    /\ ContentsOf(new) = {table[i] : i \in UsedBelow(table, n)}
    /\ Cardinality(UsedOf(new)) <= Cardinality(UsedBelow(table, n))

Filled(new, element) == IF element = NotUsed THEN new ELSE Put(new, element)

EmptyTable(buffer) == [i \in 0..buffer - 1 |-> NotUsed]

\* A smaller number of indices than there are leaves one.
LEMMA OneIsFree ==
    ASSUME NEW b \in Nat \ {0}, NEW table, DOMAIN table = 0..b - 1,
           Cardinality(UsedOf(table)) < b
    PROVE  UsedOf(table) # DOMAIN table
  BY SizeOfTable

LEMMA UsedIsFinite ==
    ASSUME NEW b, NEW table, GoodTable(table, b), NEW n
    PROVE  /\ DOMAIN table = 0..b - 1 /\ Cardinality(DOMAIN table) = b
           /\ IsFiniteSet(UsedOf(table)) /\ IsFiniteSet(UsedBelow(table, n))
           /\ Cardinality(UsedOf(table)) \in Nat /\ Cardinality(UsedBelow(table, n)) \in Nat
           /\ Cardinality(UsedBelow(table, n)) <= Cardinality(UsedOf(table))
           /\ Cardinality(UsedOf(table)) <= b
           /\ UsedOf(table) # DOMAIN table => Cardinality(UsedOf(table)) < b
  <1>1. b \in Nat \ {0} /\ DOMAIN table = 0..b - 1
    BY DEF GoodTable
  <1>2. Cardinality(DOMAIN table) = b /\ IsFiniteSet(DOMAIN table)
    BY <1>1, SizeOfTable
  <1>3. UsedOf(table) \in SUBSET DOMAIN table /\ UsedBelow(table, n) \in SUBSET UsedOf(table)
    BY DEF UsedOf, UsedBelow
  <1>4. /\ IsFiniteSet(UsedOf(table)) /\ Cardinality(UsedOf(table)) <= b
        /\ Cardinality(DOMAIN table) = Cardinality(UsedOf(table)) => DOMAIN table = UsedOf(table)
    BY <1>2, <1>3, FS_Subset
  <1>5. /\ IsFiniteSet(UsedBelow(table, n))
        /\ Cardinality(UsedBelow(table, n)) <= Cardinality(UsedOf(table))
    BY <1>3, <1>4, FS_Subset
  <1>6. Cardinality(UsedOf(table)) \in Nat /\ Cardinality(UsedBelow(table, n)) \in Nat
    BY <1>4, <1>5, FS_CardinalityType
  <1> QED
    BY <1>1, <1>2, <1>4, <1>5, <1>6

LEMMA EmptyIsGood ==
    ASSUME NEW b \in Nat \ {0}
    PROVE  /\ GoodTable(EmptyTable(b), b) /\ UsedOf(EmptyTable(b)) = {}
           /\ ContentsOf(EmptyTable(b)) = {} /\ Cardinality(UsedOf(EmptyTable(b))) = 0
           /\ EmptyTable(b) \in [0..b - 1 -> MapElement] /\ DOMAIN EmptyTable(b) = 0..b - 1
  <1>1. EmptyTable(b) \in [0..b - 1 -> MapElement] /\ DOMAIN EmptyTable(b) = 0..b - 1
    BY DEF EmptyTable, MapElement
  <1>2. UsedOf(EmptyTable(b)) = {}
    BY DEF UsedOf, EmptyTable
  <1>3. Cardinality({}) = 0
    BY FS_EmptySet
  <1> QED
    BY <1>1, <1>2, <1>3 DEF GoodTable, ContentsOf

LEMMA FilledFurther ==
    ASSUME NEW b, NEW table, GoodTable(table, b), NEW n \in 0..b - 1,
           NEW new, FilledSoFar(new, n, table, b)
    PROVE  FilledSoFar(Filled(new, table[n]), n + 1, table, b)
  <1>1. b \in Nat \ {0} /\ DOMAIN table = 0..b - 1
    BY DEF GoodTable
  <1>2. CASE table[n] = NotUsed
    <2>1. UsedBelow(table, n + 1) = UsedBelow(table, n)
      <3>1. \A i \in UsedOf(table) : i \in 0..b - 1 /\ i # n
        BY <1>1, <1>2 DEF UsedOf
      <3>2. \A i \in 0..b - 1 : i # n => (i < n + 1 <=> i < n)
        BY <1>1
      <3> QED
        BY <3>1, <3>2 DEF UsedBelow
    <2> QED
      BY <1>2, <2>1 DEF FilledSoFar, Filled
  <1>3. CASE table[n] # NotUsed
    <2>1. n \in UsedOf(table)
      BY <1>1, <1>3 DEF UsedOf
    <2>2. UsedBelow(table, n + 1) = UsedBelow(table, n) \cup {n} /\ n \notin UsedBelow(table, n)
      <3>1. \A i \in UsedOf(table) : i \in 0..b - 1
        BY <1>1 DEF UsedOf
      <3>2. \A i \in 0..b - 1 : i < n + 1 <=> i < n \/ i = n
        BY <1>1
      <3>3. n \in Nat /\ ~(n < n)
        BY <1>1
      <3> HIDE DEF UsedBelow
      <3>4. \A i : i \in UsedBelow(table, n + 1) <=> i \in UsedBelow(table, n) \/ i = n
        BY <2>1, <3>1, <3>2 DEF UsedBelow
      <3>5. n \notin UsedBelow(table, n)
        BY <3>3 DEF UsedBelow
      <3> QED
        BY <3>4, <3>5
    <2>3. /\ IsFiniteSet(UsedBelow(table, n)) /\ Cardinality(UsedBelow(table, n)) \in Nat
          /\ Cardinality(UsedBelow(table, n)) <= b
      BY <1>1, UsedIsFinite
    <2>4. Cardinality(UsedBelow(table, n + 1)) = Cardinality(UsedBelow(table, n)) + 1
      BY <2>2, <2>3, FS_AddElement
    <2>5. PICK c : c = b * MapFactor
      OBVIOUS
    <2>6. c \in Nat \ {0} /\ b < c /\ GoodTable(new, c)
      BY <1>1, <2>5, LargerTable DEF FilledSoFar
    <2>7. DOMAIN new = 0..c - 1 /\ IsFiniteSet(UsedOf(new)) /\ Cardinality(UsedOf(new)) \in Nat
      BY <2>6, UsedIsFinite
    <2>8. Cardinality(UsedOf(new)) < c
      BY <1>1, <2>3, <2>6, <2>7 DEF FilledSoFar
    <2>9. UsedOf(new) # DOMAIN new
      BY <2>6, <2>7, <2>8, OneIsFree
    <2>10. PICK put, e : put = Put(new, table[n]) /\ e = table[n]
      OBVIOUS
    <2>11. e \in MapName \X Nat
      BY <2>1, <2>10, UsedIsNamed
    <2>12. /\ GoodTable(put, c)
           /\ ContentsOf(put) = {x \in ContentsOf(new) : x[1] # e[1]} \cup {e}
           /\ \E i \in 0..c - 1 : UsedOf(put) = UsedOf(new) \cup {i}
      BY <2>6, <2>9, <2>10, <2>11, ElementIsPut
    <2>13. ContentsOf(put) = {table[i] : i \in UsedBelow(table, n + 1)}
      <3>1. \A i \in UsedBelow(table, n) : table[i][1] # e[1]
        BY <2>1, <2>2, <2>10 DEF UsedBelow, GoodTable
      <3>2. ContentsOf(new) = {table[i] : i \in UsedBelow(table, n)}
        BY DEF FilledSoFar
      <3> QED
        BY <2>2, <2>10, <2>12, <3>1, <3>2
    <2>14. Cardinality(UsedOf(put)) <= Cardinality(UsedBelow(table, n + 1))
      <3>1. PICK i \in 0..c - 1 : UsedOf(put) = UsedOf(new) \cup {i}
        BY <2>12
      <3>2. Cardinality(UsedOf(put)) <= Cardinality(UsedOf(new)) + 1
        <4>1. Cardinality(UsedOf(new) \cup {i})
                = IF i \in UsedOf(new) THEN Cardinality(UsedOf(new)) ELSE Cardinality(UsedOf(new)) + 1
          BY <2>7, FS_AddElement
        <4> QED
          BY <2>7, <3>1, <4>1
      <3>3. Cardinality(UsedOf(put)) \in Nat
        BY <2>12, UsedIsFinite
      <3> QED
        BY <2>3, <2>4, <2>7, <3>2, <3>3 DEF FilledSoFar
    <2>15. Filled(new, table[n]) = put
      BY <1>3, <2>10 DEF Filled
    <2> QED
      BY <2>5, <2>12, <2>13, <2>14, <2>15 DEF FilledSoFar
  <1> QED
    BY <1>2, <1>3

\* The moving is a recursive function, which exists.
LEMMA MovingExists ==
    ASSUME NEW b, NEW table, GoodTable(table, b)
    PROVE  \E f : /\ f[0] = EmptyTable(b * MapFactor)
                  /\ \A n \in 1..b : f[n] = Filled(f[n - 1], table[n - 1])
                  /\ Resized(table) = f[b]
  <1> DEFINE S == [0..b * MapFactor - 1 -> MapElement]
             base == EmptyTable(b * MapFactor)
             F == [i \in 1..b |-> [x \in S |-> Filled(x, table[i - 1])]]
             IsMove(f) == f = [n \in 0..b |-> IF n = 0 THEN [i \in 0..b * MapFactor - 1 |-> NotUsed]
                                              ELSE IF table[n - 1] = NotUsed THEN f[n - 1]
                                              ELSE Put(f[n - 1], table[n - 1])]
  <1>1. b \in Nat \ {0} /\ table \in [0..b - 1 -> MapElement] /\ Cardinality(DOMAIN table) = b
    BY UsedIsFinite DEF GoodTable
  <1>2. base \in S
    BY <1>1, LargerTable, EmptyIsGood
  <1>3. F \in [1..b -> [S -> S]]
    <2> SUFFICES ASSUME NEW i \in 1..b, NEW x \in S PROVE Filled(x, table[i - 1]) \in S
      OBVIOUS
    <2>1. i - 1 \in 0..b - 1
      BY <1>1
    <2>2. table[i - 1] \in MapElement
      BY <1>1, <2>1
    <2>3. Put(x, table[i - 1]) \in S
      BY <2>2 DEF Put
    <2> QED
      BY <2>3 DEF Filled
  <1>4. PICK f : Iterates(f, b, S, base, F)
    <2> HIDE DEF F, base, S
    <2> QED
      BY <1>1, <1>2, <1>3, IterationExists
  <1>5. IsMove(f)
    <2>1. ASSUME NEW n \in 1..b PROVE f[n] = Filled(f[n - 1], table[n - 1])
      <3>1. n - 1 \in 0..b
        BY <1>1
      <3>2. f[n - 1] \in S /\ f[n] = F[n][f[n - 1]]
        BY <1>4, <3>1 DEF Iterates
      <3> QED
        BY <3>2
    <2>2. f = [n \in 0..b |-> f[n]] /\ f[0] = [i \in 0..b * MapFactor - 1 |-> NotUsed]
      BY <1>4 DEF Iterates, EmptyTable
    <2>3. \A n \in 0..b : f[n] = IF n = 0 THEN [i \in 0..b * MapFactor - 1 |-> NotUsed]
                                 ELSE IF table[n - 1] = NotUsed THEN f[n - 1]
                                 ELSE Put(f[n - 1], table[n - 1])
      <3> SUFFICES ASSUME NEW n \in 0..b, n # 0
                   PROVE  f[n] = IF table[n - 1] = NotUsed THEN f[n - 1]
                                 ELSE Put(f[n - 1], table[n - 1])
        BY <2>2
      <3>1. n \in 1..b
        BY <1>1
      <3> QED
        BY <2>1, <3>1 DEF Filled
    <2> QED
      BY <2>2, <2>3
  <1>6. Resized(table) = (CHOOSE f_1 : IsMove(f_1))[b]
    BY <1>1 DEF Resized
  <1>7. PICK g : g = CHOOSE f_1 : IsMove(f_1)
    OBVIOUS
  <1>8. IsMove(g)
    <2> HIDE DEF IsMove
    <2> QED
      BY <1>5, <1>7
  <1>9. g[0] = EmptyTable(b * MapFactor)
    BY <1>1, <1>8 DEF EmptyTable
  <1>10. ASSUME NEW n \in 1..b PROVE g[n] = Filled(g[n - 1], table[n - 1])
    <2>1. n \in 0..b /\ n # 0
      BY <1>1
    <2>2. g[n] = IF table[n - 1] = NotUsed THEN g[n - 1] ELSE Put(g[n - 1], table[n - 1])
      BY <1>8, <2>1
    <2> QED
      BY <2>2 DEF Filled
  <1> QED
    BY <1>6, <1>7, <1>9, <1>10

\* A resized table holds the same, in as many of its indices, and has room.
LEMMA ResizedIsGood ==
    ASSUME NEW b, NEW table, GoodTable(table, b), UsedOf(table) # DOMAIN table
    PROVE  /\ GoodTable(Resized(table), b * MapFactor)
           /\ ContentsOf(Resized(table)) = ContentsOf(table)
           /\ Cardinality(UsedOf(Resized(table))) < b
  <1>1. b \in Nat \ {0} /\ DOMAIN table = 0..b - 1
    BY DEF GoodTable
  <1>2. PICK f : /\ f[0] = EmptyTable(b * MapFactor)
                 /\ \A n \in 1..b : f[n] = Filled(f[n - 1], table[n - 1])
                 /\ Resized(table) = f[b]
    BY MovingExists
  <1> DEFINE T == {n \in 0..b : FilledSoFar(f[n], n, table, b)}
  <1>3. 0 \in T
    <2>1. UsedBelow(table, 0) = {}
      BY <1>1 DEF UsedBelow, UsedOf
    <2>2. Cardinality(UsedBelow(table, 0)) = 0
      BY <2>1, FS_EmptySet
    <2>3. FilledSoFar(f[0], 0, table, b)
      BY <1>1, <1>2, <2>1, <2>2, LargerTable, EmptyIsGood, SMTT(20) DEF FilledSoFar
    <2> QED
      BY <1>1, <2>3
  <1>4. ASSUME NEW n \in 0..b, n \in T, n < b PROVE n + 1 \in T
    <2>1. n \in 0..b - 1 /\ n + 1 \in 1..b /\ (n + 1) - 1 = n /\ n + 1 \in 0..b
      BY <1>1, <1>4
    <2>2. FilledSoFar(f[n], n, table, b)
      BY <1>4
    <2>3. FilledSoFar(Filled(f[n], table[n]), n + 1, table, b)
      BY <2>1, <2>2, FilledFurther
    <2>4. f[n + 1] = Filled(f[n], table[n])
      <3>1. PICK m : m = n + 1
        OBVIOUS
      <3>2. f[m] = Filled(f[m - 1], table[m - 1]) /\ m - 1 = n
        BY <1>2, <2>1, <3>1
      <3> QED
        BY <3>1, <3>2
    <2> QED
      BY <2>1, <2>3, <2>4
  <1>5. FilledSoFar(Resized(table), b, table, b)
    <2> HIDE DEF T
    <2>1. \A n \in 0..b : n \in T
      BY <1>1, <1>3, <1>4, UpTo
    <2>2. b \in T
      BY <1>1, <2>1
    <2> QED
      BY <1>2, <2>2 DEF T
  <1>6. UsedBelow(table, b) = UsedOf(table)
    BY <1>1 DEF UsedBelow, UsedOf
  <1>7. Cardinality(UsedOf(table)) < b /\ Cardinality(UsedOf(table)) \in Nat
    BY UsedIsFinite
  <1>8. GoodTable(Resized(table), b * MapFactor)
    BY <1>5 DEF FilledSoFar
  <1>9. Cardinality(UsedOf(Resized(table))) \in Nat
    BY <1>8, UsedIsFinite
  <1>10. ContentsOf(Resized(table)) = ContentsOf(table)
    BY <1>5, <1>6 DEF FilledSoFar, ContentsOf
  <1>11. Cardinality(UsedOf(Resized(table))) <= Cardinality(UsedOf(table))
    BY <1>5, <1>6 DEF FilledSoFar
  <1> QED
    BY <1>1, <1>7, <1>8, <1>9, <1>10, <1>11

-----------------------------------------------------------------------------
(* What is looked up, and what an iterator gives.                            *)

\* Of some numbers up to a bound one is the greatest, which Max takes.
LEMMA MaxIsGreatest ==
    ASSUME NEW n \in Nat, NEW T, T \subseteq 1..n, T # {}
    PROVE  Max(T) \in T /\ \A y \in T : y <= Max(T)
  <1> DEFINE D == {n - y : y \in T}
  <1>1. D \subseteq Nat /\ D # {}
    <2>1. \A y \in T : y \in 1..n
      OBVIOUS
    <2>2. \A y \in 1..n : n - y \in Nat
      OBVIOUS
    <2> QED
      BY <2>1, <2>2
  <1>2. PICK d \in D : \A e \in D : d <= e
    <2> HIDE DEF D
    <2> QED
      BY <1>1, HasLeast
  <1>3. PICK x \in T : d = n - x
    OBVIOUS
  <1>4. \A y \in T : x >= y
    <2> SUFFICES ASSUME NEW y \in T PROVE x >= y
      OBVIOUS
    <2>1. d <= n - y
      BY <1>2
    <2>2. x \in 1..n /\ y \in 1..n
      OBVIOUS
    <2> QED
      BY <2>1, <2>2, <1>3
  <1>5. \E z \in T : \A y \in T : z >= y
    BY <1>4
  <1>6. Max(T) \in T /\ \A y \in T : Max(T) >= y
    BY <1>5 DEF Max
  <1>7. ASSUME NEW y \in T PROVE y \in Nat
    <2>1. y \in 1..n
      OBVIOUS
    <2> QED
      BY <2>1
  <1> QED
    BY <1>6, <1>7

\* A name that is held is found where it is, and one that is not ends at a free index.
LEMMA GotIs ==
    ASSUME TableInv, NEW name \in MapName
    PROVE  /\ \A i \in UsedOf(mapTable) : mapTable[i][1] = name => Got(name) = mapTable[i]
           /\ (\A i \in UsedOf(mapTable) : mapTable[i][1] # name) => Got(name) = NotUsed
  <1> DEFINE I == {i \in DOMAIN mapTable : mapTable[i] = NotUsed \/ mapTable[i][1] = name}
  <1>1. GoodTable(mapTable, Buffer) /\ UsedOf(mapTable) # DOMAIN mapTable
    BY DEF TableInv
  <1>2. PICK b : b = Buffer
    OBVIOUS
  <1>3. b \in Nat \ {0} /\ DOMAIN mapTable = 0..b - 1
    BY <1>1, <1>2 DEF GoodTable
  <1>4. I \subseteq 0..b - 1 /\ I # {}
    BY <1>1, <1>3 DEF UsedOf
  <1>5. Got(name) = mapTable[FirstTried(name, mapTable, I)]
    BY DEF Got
  <1> HIDE DEF I
  <1>6. PICK k \in 1..b : /\ FirstTried(name, mapTable, I) = At(name, k, b)
                          /\ At(name, k, b) \in I
                          /\ \A j \in 1..k - 1 : At(name, j, b) \notin I
    BY <1>3, <1>4, TheFirstTried
  <1>7. PICK at : at = At(name, k, b)
    OBVIOUS
  <1>8. Got(name) = mapTable[at] /\ (mapTable[at] = NotUsed \/ mapTable[at][1] = name)
        /\ at \in DOMAIN mapTable
    BY <1>5, <1>6, <1>7 DEF I
  <1>9. ASSUME NEW i \in UsedOf(mapTable), mapTable[i][1] = name PROVE Got(name) = mapTable[i]
    <2>1. PICK l \in 1..b : /\ At(name, l, b) = i
                            /\ \A j \in 1..l - 1 : At(name, j, b) \in UsedOf(mapTable)
      BY <1>1, <1>2, <1>9 DEF GoodTable
    <2>2. i \in I
      BY <1>9 DEF I, UsedOf
    <2>3. k <= l
      BY <2>1, <2>2, <1>3, <1>6
    <2>4. at \in UsedOf(mapTable)
      BY <2>1, <2>3, <1>3, <1>7
    <2>5. mapTable[at][1] = name
      BY <2>4, <1>8 DEF UsedOf
    <2>6. at = i
      BY <2>4, <2>5, <1>1, <1>9 DEF GoodTable
    <2> QED
      BY <2>6, <1>8
  <1>10. (\A i \in UsedOf(mapTable) : mapTable[i][1] # name) => Got(name) = NotUsed
    BY <1>8 DEF UsedOf
  <1> QED
    BY <1>9, <1>10

\* What is held is what was set last.
LEMMA HeldWasSet ==
    ASSUME TableInv, NEW i \in UsedOf(mapTable)
    PROVE  \E k \in LastSets : mapTable[i] = <<mapSet[k], k>> /\ mapTable[i][1] = mapSet[k]
  <1>1. mapTable[i] \in {<<mapSet[k], k>> : k \in LastSets}
    BY DEF TableInv, ContentsOf
  <1>2. PICK k \in LastSets : mapTable[i] = <<mapSet[k], k>>
    BY <1>1
  <1> QED
    BY <1>2

\* What was set is held, with the last of its values.
LEMMA SetIsHeld ==
    ASSUME TableInv, NEW k \in 1..Len(mapSet)
    PROVE  LET sets == {l \in 1..Len(mapSet) : mapSet[l] = mapSet[k]}
           IN  /\ Got(mapSet[k]) = <<mapSet[k], Max(sets)>>
               /\ \E i \in UsedOf(mapTable) : mapTable[i][1] = mapSet[k]
  <1> DEFINE sets == {l \in 1..Len(mapSet) : mapSet[l] = mapSet[k]}
  <1>1. mapSet \in Seq(MapName) /\ Len(mapSet) \in Nat /\ mapSet[k] \in MapName
    BY DEF TableInv
  <1>2. sets \subseteq 1..Len(mapSet) /\ sets # {}
    OBVIOUS
  <1>3. PICK m : m = Max(sets)
    OBVIOUS
  <1>4. m \in sets /\ \A y \in sets : y <= m
    <2> HIDE DEF sets
    <2> QED
      BY <1>1, <1>2, <1>3, MaxIsGreatest
  <1>5. m \in LastSets
    <2> SUFFICES ASSUME NEW l \in m + 1..Len(mapSet), mapSet[l] = mapSet[m] PROVE FALSE
      BY <1>4 DEF LastSets
    <2>1. m \in 1..Len(mapSet) /\ mapSet[m] = mapSet[k]
      BY <1>4
    <2>2. l \in 1..Len(mapSet) /\ ~(l <= m)
      BY <1>1, <2>1
    <2>3. l \in sets
      BY <2>1, <2>2
    <2> QED
      BY <2>2, <2>3, <1>4
  <1>6. mapSet[m] = mapSet[k]
    BY <1>4
  <1>7. <<mapSet[k], m>> \in ContentsOf(mapTable)
    BY <1>5, <1>6 DEF TableInv
  <1>8. PICK i \in UsedOf(mapTable) : mapTable[i] = <<mapSet[k], m>>
    BY <1>7 DEF ContentsOf
  <1>9. mapTable[i][1] = mapSet[k]
    BY <1>8
  <1>10. Got(mapSet[k]) = mapTable[i]
    BY <1>1, <1>9, GotIs
  <1> QED
    BY <1>3, <1>8, <1>9, <1>10

LEMMA MapImplies ==
    ASSUME MapInv
    PROVE  MapIsSound
  <1>1. TableInv /\ OrderInv /\ CursorInv
    BY DEF MapInv
  <1>2. mapSet \in Seq(MapName) /\ Len(mapSet) \in Nat /\ DOMAIN mapSet = 1..Len(mapSet)
    BY <1>1 DEF TableInv
  <1>3. LookUpEnds
    BY <1>1 DEF TableInv, LookUpEnds, UsedOf
  <1>4. FindsWhatWasSet
    <2> SUFFICES ASSUME NEW name \in MapName
                 PROVE  LET sets == {k \in DOMAIN mapSet : mapSet[k] = name}
                        IN  Got(name) = (IF sets = {} THEN NotUsed ELSE <<name, Max(sets)>>)
      BY DEF FindsWhatWasSet
    <2> DEFINE sets == {k \in DOMAIN mapSet : mapSet[k] = name}
    <2>1. CASE sets = {}
      <3>1. ASSUME NEW i \in UsedOf(mapTable) PROVE mapTable[i][1] # name
        <4>1. PICK k \in LastSets : mapTable[i][1] = mapSet[k]
          BY <1>1, HeldWasSet
        <4>2. k \in DOMAIN mapSet
          BY <1>2 DEF LastSets
        <4> QED
          BY <2>1, <4>1, <4>2
      <3>2. Got(name) = NotUsed
        BY <1>1, <3>1, GotIs
      <3> QED
        BY <2>1, <3>2
    <2>2. CASE sets # {}
      <3>1. PICK k \in 1..Len(mapSet) : mapSet[k] = name
        BY <2>2, <1>2
      <3>2. sets = {l \in 1..Len(mapSet) : mapSet[l] = mapSet[k]}
        BY <3>1, <1>2
      <3>3. Got(mapSet[k]) = <<mapSet[k], Max({l \in 1..Len(mapSet) : mapSet[l] = mapSet[k]})>>
        BY <1>1, SetIsHeld
      <3> QED
        BY <2>2, <3>1, <3>2, <3>3
    <2> QED
      BY <2>1, <2>2
  <1>5. GoesOverEachOnce
    <2>1. /\ mapCursor.given \in Seq(MapName) /\ mapCursor.index \in Nat
          /\ DOMAIN mapCursor.given = 1..Len(mapCursor.given)
      BY <1>1 DEF CursorInv, CursorType
    <2>2. CASE mapSorted
      <3>1. /\ Len(mapCursor.given) = mapCursor.index /\ mapCursor.index <= Len(mapSet)
            /\ \A k \in 1..mapCursor.index : mapCursor.given[k] = mapSet[k]
            /\ mapCursor.ended => mapCursor.index = Len(mapSet)
            /\ IsInjective(mapSet)
        BY <1>1, <2>2 DEF CursorInv, OrderInv
      <3>2. IsInjective(mapCursor.given)
        <4>1. \A i \in 1..mapCursor.index : i \in 1..Len(mapSet)
          BY <1>2, <2>1, <3>1
        <4> QED
          BY <1>2, <2>1, <3>1, <4>1 DEF IsInjective
      <3>3. IsPrefix(mapCursor.given, mapSet)
        <4>1. SubSeq(mapCursor.given, 1, mapCursor.index) = [k \in 1..mapCursor.index |-> mapCursor.given[k]]
          BY <1>2, <2>1, <3>1
        <4>2. SubSeq(mapSet, 1, mapCursor.index) = [k \in 1..mapCursor.index |-> mapSet[k]]
          BY <1>2, <2>1, <3>1
        <4> QED
          BY <3>1, <4>1, <4>2 DEF IsPrefix
      <3>4. mapCursor.ended => Range(mapCursor.given) = Range(mapSet)
        BY <1>2, <2>1, <3>1 DEF Range
      <3> QED
        BY <3>2, <3>3, <3>4 DEF GoesOverEachOnce
    <2>3. CASE ~mapSorted
      <3>1. /\ IsInjective(mapCursor.given)
            /\ ToSet(mapCursor.given)
                  = {mapTable[i][1] : i \in {j \in UsedOf(mapTable) : j < mapCursor.index}}
            /\ mapCursor.ended => \A i \in UsedOf(mapTable) : i < mapCursor.index
        BY <1>1, <2>3 DEF CursorInv
      <3>2. ASSUME mapCursor.ended PROVE Range(mapCursor.given) = Range(mapSet)
        <4>1. Range(mapCursor.given) = {mapTable[i][1] : i \in UsedOf(mapTable)}
          BY <3>1, <3>2 DEF Range, ToSet
        <4>2. ASSUME NEW i \in UsedOf(mapTable) PROVE mapTable[i][1] \in Range(mapSet)
          <5>1. PICK k \in LastSets : mapTable[i][1] = mapSet[k]
            BY <1>1, HeldWasSet
          <5> QED
            BY <5>1, <1>2 DEF LastSets, Range
        <4>3. ASSUME NEW k \in 1..Len(mapSet) PROVE \E i \in UsedOf(mapTable) : mapTable[i][1] = mapSet[k]
          BY <1>1, SetIsHeld
        <4> QED
          BY <4>1, <4>2, <4>3, <1>2 DEF Range
      <3> QED
        BY <2>3, <3>1, <3>2 DEF GoesOverEachOnce
    <2> QED
      BY <2>2, <2>3
  <1> QED
    BY <1>3, <1>4, <1>5 DEF MapIsSound

\* An iterator that has given nothing.
LEMMA NothingGiven == IsInjective(<<>>) /\ ToSet(<<>>) = {} /\ Len(<<>>) = 0
  BY SetOfNone DEF IsInjective

-----------------------------------------------------------------------------
(* The steps.                                                                *)

LEMMA MapStarts == MapInit => MapInv
  <1> SUFFICES ASSUME MapInit PROVE MapInv
    OBVIOUS
  <1>1. /\ mapSorted \in BOOLEAN /\ mapTable = EmptyTable(MapInitial) /\ mapSize = 0
        /\ mapOrder = <<>> /\ mapCursor = NoNames /\ mapSet = <<>>
    BY DEF MapInit, EmptyTable
  <1>2. MapInitial \in Nat \ {0}
    BY MapAssumption
  <1>3. /\ GoodTable(mapTable, MapInitial) /\ UsedOf(mapTable) = {} /\ ContentsOf(mapTable) = {}
        /\ Cardinality(UsedOf(mapTable)) = 0 /\ DOMAIN mapTable = 0..MapInitial - 1
    BY <1>1, <1>2, EmptyIsGood
  <1>4. Buffer = MapInitial
    BY <1>2, <1>3, SizeOfTable DEF Buffer
  <1>5. UsedOf(mapTable) # DOMAIN mapTable
    BY <1>2, <1>3
  <1>6. mapSet \in Seq(MapName) /\ Len(mapSet) = 0 /\ LastSets = {}
    BY <1>1 DEF LastSets
  <1>7. TableInv
    BY <1>1, <1>3, <1>4, <1>5, <1>6 DEF TableInv
  <1>8. OrderInv
    BY <1>1 DEF OrderInv, IsInjective
  <1>9. NoNames \in CursorType
        /\ NoNames.index = 0 /\ NoNames.given = <<>> /\ NoNames.ended = FALSE
    BY DEF NoNames, CursorType
  <1>10. CursorInv
    BY <1>1, <1>3, <1>6, <1>9, NothingGiven DEF CursorInv
  <1> QED
    BY <1>7, <1>8, <1>10 DEF MapInv

\* A value that is set is the last of its name.
LEMMA LastSetsGrow ==
    ASSUME mapSet \in Seq(MapName), NEW name \in MapName, mapSet' = Append(mapSet, name)
    PROVE  {<<mapSet'[k], k>> : k \in LastSets'}
             = {x \in {<<mapSet[k], k>> : k \in LastSets} : x[1] # name}
                  \cup {<<name, Len(mapSet) + 1>>}
  <1>1. PICK n : n = Len(mapSet)
    OBVIOUS
  <1>2. /\ n \in Nat /\ Len(mapSet') = n + 1 /\ mapSet'[n + 1] = name
        /\ \A k \in 1..n : mapSet'[k] = mapSet[k]
    BY <1>1
  <1>3. LastSets' = {k \in LastSets : mapSet[k] # name} \cup {n + 1}
    <2>1. ASSUME NEW k \in LastSets' PROVE k = n + 1 \/ (k \in LastSets /\ mapSet[k] # name)
      <3>1. k \in 1..n + 1 /\ \A l \in k + 1..n + 1 : mapSet'[l] # mapSet'[k]
        BY <1>2 DEF LastSets
      <3>2. CASE k # n + 1
        <4>1. k \in 1..n /\ n + 1 \in k + 1..n + 1
          BY <3>1, <3>2, <1>2
        <4>2. mapSet[k] # name
          BY <4>1, <3>1, <1>2
        <4>3. \A l \in k + 1..n : l \in 1..n /\ l \in k + 1..n + 1
          BY <4>1, <1>2
        <4> QED
          BY <4>1, <4>2, <4>3, <3>1, <1>1, <1>2 DEF LastSets
      <3> QED
        BY <3>2
    <2>2. n + 1 \in LastSets'
      <3>1. n + 1 \in 1..Len(mapSet') /\ (n + 1) + 1..Len(mapSet') = {}
        BY <1>2
      <3> QED
        BY <3>1 DEF LastSets
    <2>3. ASSUME NEW k \in LastSets, mapSet[k] # name PROVE k \in LastSets'
      <3>1. k \in 1..n /\ \A l \in k + 1..n : mapSet[l] # mapSet[k]
        BY <1>1 DEF LastSets
      <3>2. ASSUME NEW l \in k + 1..n + 1 PROVE mapSet'[l] # mapSet'[k]
        <4>1. CASE l = n + 1
          BY <4>1, <3>1, <2>3, <1>2
        <4>2. CASE l # n + 1
          <5>1. l \in k + 1..n /\ l \in 1..n
            BY <4>2, <3>1, <1>2
          <5> QED
            BY <5>1, <3>1, <1>2
        <4> QED
          BY <4>1, <4>2
      <3>3. k \in 1..n + 1
        BY <3>1, <1>2
      <3> QED
        BY <3>2, <3>3, <1>2 DEF LastSets
    <2> QED
      BY <2>1, <2>2, <2>3
  <1>4. \A k \in LastSets : mapSet'[k] = mapSet[k]
    BY <1>1, <1>2 DEF LastSets
  <1>5. {<<mapSet'[k], k>> : k \in LastSets'}
          = {<<mapSet'[k], k>> : k \in {l \in LastSets : mapSet[l] # name}} \cup {<<name, n + 1>>}
    BY <1>2, <1>3
  <1>6. {<<mapSet'[k], k>> : k \in {l \in LastSets : mapSet[l] # name}}
          = {<<mapSet[k], k>> : k \in {l \in LastSets : mapSet[l] # name}}
    BY <1>4
  <1>7. {<<mapSet[k], k>> : k \in {l \in LastSets : mapSet[l] # name}}
          = {x \in {<<mapSet[k], k>> : k \in LastSets} : x[1] # name}
    OBVIOUS
  <1> QED
    BY <1>1, <1>5, <1>6, <1>7

LEMMA SetValueKeeps ==
    ASSUME MapInv, NEW name \in MapName, SetValue(name)
    PROVE  MapInv'
  <1> DEFINE full == MapOverflows(mapSize, Cardinality(DOMAIN mapTable))
             e == <<name, Len(mapSet) + 1>>
  <1>1. PICK table, n : /\ table = IF full THEN Resized(mapTable) ELSE mapTable
                        /\ n = Len(mapSet)
    OBVIOUS
  <1>2. /\ mapSorted => name \notin Range(mapOrder)
        /\ mapTable' = Put(table, <<name, n + 1>>)
        /\ mapSize' = (IF full THEN Cardinality({i \in DOMAIN table : table[i] # NotUsed})
                       ELSE mapSize) + 1
        /\ mapOrder' = IF mapSorted THEN Append(mapOrder, name) ELSE mapOrder
        /\ mapSet' = Append(mapSet, name) /\ mapCursor' = NoNames /\ mapSorted' = mapSorted
    BY <1>1 DEF SetValue, SetOrder
  <1>3. PICK b : b = Buffer
    OBVIOUS
  <1>4. /\ GoodTable(mapTable, b) /\ UsedOf(mapTable) # DOMAIN mapTable /\ b \in Nat \ {0}
        /\ mapSize \in Nat /\ Cardinality(UsedOf(mapTable)) <= mapSize
        /\ mapSet \in Seq(MapName) /\ n \in Nat
        /\ ContentsOf(mapTable) = {<<mapSet[k], k>> : k \in LastSets}
    BY <1>1, <1>3 DEF MapInv, TableInv, GoodTable
  <1>5. PICK c, size : /\ c = IF full THEN b * MapFactor ELSE b
                       /\ size = IF full THEN Cardinality(UsedOf(table)) ELSE mapSize
    OBVIOUS
  <1>6. /\ GoodTable(table, c) /\ ContentsOf(table) = ContentsOf(mapTable)
        /\ c \in Nat \ {0} /\ Cardinality(UsedOf(table)) \in Nat
        /\ size \in Nat /\ Cardinality(UsedOf(table)) <= size
        /\ Cardinality(UsedOf(table)) + 1 < c
    <2>1. CASE full
      <3>1. /\ GoodTable(table, c) /\ ContentsOf(table) = ContentsOf(mapTable)
            /\ Cardinality(UsedOf(table)) < b
        BY <2>1, <1>1, <1>4, <1>5, ResizedIsGood
      <3>2. Cardinality(UsedOf(table)) \in Nat
        BY <3>1, UsedIsFinite
      <3>3. c \in Nat \ {0} /\ b < c
        BY <2>1, <1>4, <1>5, LargerTable
      <3> QED
        BY <2>1, <3>1, <3>2, <3>3, <1>4, <1>5
    <2>2. CASE ~full
      <3>1. table = mapTable /\ c = b /\ size = mapSize
        BY <2>2, <1>1, <1>5
      <3>2. ~(mapSize >= (b * 3) \div 4)
        BY <2>2, <1>3 DEF MapOverflows, Buffer
      <3>3. Cardinality(UsedOf(mapTable)) \in Nat
        BY <1>4, UsedIsFinite
      <3>4. mapSize + 1 < b
        BY <3>2, <1>4
      <3> QED
        BY <3>1, <3>3, <3>4, <1>4
    <2> QED
      BY <2>1, <2>2
  <1>7. UsedOf(table) # DOMAIN table /\ DOMAIN table = 0..c - 1 /\ IsFiniteSet(UsedOf(table))
    <2>1. DOMAIN table = 0..c - 1 /\ IsFiniteSet(UsedOf(table))
      BY <1>6, UsedIsFinite
    <2>2. Cardinality(UsedOf(table)) < c
      BY <1>6
    <2> QED
      BY <2>1, <2>2, <1>6, OneIsFree
  <1>8. PICK put : put = Put(table, <<name, n + 1>>)
    OBVIOUS
  <1>9. <<name, n + 1>> \in MapName \X Nat /\ <<name, n + 1>>[1] = name
    BY <1>4
  <1>10. /\ GoodTable(put, c)
         /\ ContentsOf(put) = {x \in ContentsOf(table) : x[1] # name} \cup {<<name, n + 1>>}
         /\ \E i \in 0..c - 1 : UsedOf(put) = UsedOf(table) \cup {i}
    BY <1>6, <1>7, <1>8, <1>9, ElementIsPut
  <1>11. /\ DOMAIN put = 0..c - 1 /\ Cardinality(DOMAIN put) = c
         /\ Cardinality(UsedOf(put)) \in Nat
    BY <1>10, UsedIsFinite
  <1>12. Cardinality(UsedOf(put)) <= Cardinality(UsedOf(table)) + 1
    <2>1. PICK i \in 0..c - 1 : UsedOf(put) = UsedOf(table) \cup {i}
      BY <1>10
    <2>2. Cardinality(UsedOf(table) \cup {i})
            = IF i \in UsedOf(table) THEN Cardinality(UsedOf(table)) ELSE Cardinality(UsedOf(table)) + 1
      BY <1>7, FS_AddElement
    <2> QED
      BY <2>1, <2>2, <1>6
  <1>13. UsedOf(put) # DOMAIN put
    <2>1. Cardinality(UsedOf(put)) < c
      BY <1>6, <1>11, <1>12
    <2> QED
      BY <2>1, <1>6, <1>11, OneIsFree
  <1>14. mapTable' = put /\ mapSize' = size + 1
    BY <1>2, <1>5, <1>8 DEF UsedOf
  <1>15. TableInv'
    <2>1. Buffer' = c
      BY <1>11, <1>14 DEF Buffer
    <2>2. mapSize' \in Nat /\ Cardinality(UsedOf(put)) <= mapSize'
      BY <1>6, <1>11, <1>12, <1>14
    <2>3. mapSet' \in Seq(MapName)
      BY <1>2, <1>4
    <2>4. ContentsOf(put) = {<<mapSet'[k], k>> : k \in LastSets'}
      BY <1>1, <1>2, <1>4, <1>6, <1>10, LastSetsGrow
    <2> QED
      BY <2>1, <2>2, <2>3, <2>4, <1>10, <1>13, <1>14 DEF TableInv
  <1>16. OrderInv'
    <2>1. OrderInv
      BY DEF MapInv
    <2>2. ASSUME mapSorted PROVE IsInjective(mapSet')
      <3>1. name \notin ToSet(mapSet) /\ IsInjective(mapSet)
        BY <2>1, <2>2, <1>2 DEF OrderInv, Range, ToSet
      <3> QED
        BY <3>1, <1>2, <1>4, Appended
    <2> QED
      BY <2>1, <2>2, <1>2 DEF OrderInv
  <1>17. CursorInv'
    <2>1. NoNames \in CursorType
          /\ NoNames.index = 0 /\ NoNames.given = <<>> /\ NoNames.ended = FALSE
      BY DEF NoNames, CursorType
    <2>2. Len(mapSet') \in Nat
      BY <1>2, <1>4
    <2>3. \A i \in UsedOf(put) : ~(i < 0)
      BY <1>6, <1>11 DEF UsedOf
    <2> QED
      BY <1>2, <1>14, <2>1, <2>2, <2>3, NothingGiven DEF CursorInv
  <1> QED
    BY <1>15, <1>16, <1>17 DEF MapInv

\* What the end of the iterator makes of its record.
LEMMA CursorEnds ==
    ASSUME NEW c \in CursorType, NEW d, d = [c EXCEPT !.ended = TRUE]
    PROVE  d \in CursorType /\ d.index = c.index /\ d.given = c.given /\ d.ended = TRUE
  BY DEF CursorType

LEMMA GetNextElementKeeps ==
    ASSUME MapInv, GetNextElement
    PROVE  MapInv'
  <1> DEFINE next == IF mapSorted THEN OrderedFrom(mapCursor.index) ELSE UsedFrom(mapCursor.index)
  <1>1. /\ ~mapCursor.ended /\ UNCHANGED <<mapSorted, mapTable, mapSize, mapOrder, mapSet>>
        /\ mapCursor' = IF next = NotUsed THEN [mapCursor EXCEPT !.ended = TRUE]
                        ELSE [mapCursor EXCEPT !.index = next[2],
                                               !.given = Append(mapCursor.given, next[1])]
    BY DEF GetNextElement
  <1>2. TableInv /\ OrderInv /\ CursorInv
    BY DEF MapInv
  <1>3. TableInv' /\ OrderInv'
    BY <1>1, <1>2 DEF TableInv, OrderInv, Buffer, LastSets
  <1>4. /\ mapCursor \in CursorType
        /\ mapCursor.index \in Nat /\ mapCursor.given \in Seq(MapName)
    BY <1>2 DEF CursorInv, CursorType
  <1>5. CASE next = NotUsed
    <2>1. /\ mapCursor' \in CursorType
          /\ mapCursor'.index = mapCursor.index /\ mapCursor'.given = mapCursor.given
          /\ mapCursor'.ended = TRUE
      BY <1>1, <1>4, <1>5, CursorEnds
    <2>2. CASE mapSorted
      <3>1. mapCursor.index >= Len(mapOrder) /\ mapOrder = mapSet
        <4>1. OrderedFrom(mapCursor.index) = NotUsed
          BY <2>2, <1>5
        <4>2. <<Got(mapOrder[mapCursor.index + 1])[1], mapCursor.index + 1>> # NotUsed
          BY DEF NotUsed
        <4> QED
          BY <2>2, <4>1, <4>2, <1>2 DEF OrderedFrom, OrderInv
      <3>2. Len(mapSet) \in Nat
        BY <1>2 DEF TableInv
      <3>3. mapCursor.index = Len(mapSet)
        BY <2>2, <3>1, <3>2, <1>2, <1>4 DEF CursorInv
      <3>4. /\ Len(mapCursor.given) = mapCursor.index
            /\ \A k \in 1..mapCursor.index : mapCursor.given[k] = mapSet[k]
        BY <2>2, <1>2 DEF CursorInv
      <3>5. mapSorted' /\ mapSet' = mapSet
        BY <2>2, <1>1
      <3>6. mapCursor'.index <= Len(mapSet')
        BY <2>1, <3>2, <3>3, <3>5
      <3>7. /\ Len(mapCursor'.given) = mapCursor'.index
            /\ \A k \in 1..mapCursor'.index : mapCursor'.given[k] = mapSet'[k]
            /\ mapCursor'.index = Len(mapSet')
        BY <2>1, <3>3, <3>4, <3>5
      <3>8. CursorInv'
        BY <2>1, <3>5, <3>6, <3>7 DEF CursorInv
      <3> QED
        BY <3>8, <1>3 DEF MapInv
    <2>3. CASE ~mapSorted
      <3> DEFINE used == {i \in DOMAIN mapTable : i >= mapCursor.index /\ mapTable[i] # NotUsed}
      <3>1. used = {}
        <4>1. UsedFrom(mapCursor.index) = NotUsed
          BY <2>3, <1>5
        <4>2. <<mapTable[Min(used)][1], Min(used) + 1>> # NotUsed
          BY DEF NotUsed
        <4> QED
          BY <4>1, <4>2 DEF UsedFrom
      <3>2. \A i \in UsedOf(mapTable) : i \in Int
        BY <1>2 DEF TableInv, GoodTable, UsedOf
      <3>3. \A i \in UsedOf(mapTable) : i < mapCursor.index
        BY <3>1, <3>2, <1>4 DEF UsedOf
      <3>4. /\ IsInjective(mapCursor.given)
            /\ ToSet(mapCursor.given)
                  = {mapTable[i][1] : i \in {j \in UsedOf(mapTable) : j < mapCursor.index}}
        BY <2>3, <1>2 DEF CursorInv
      <3>5. ~mapSorted' /\ mapTable' = mapTable
        BY <2>3, <1>1
      <3> HIDE DEF used, next
      <3>6. CursorInv'
        BY <2>1, <3>3, <3>4, <3>5 DEF CursorInv
      <3> QED
        BY <3>6, <1>3 DEF MapInv
    <2> QED
      BY <1>3, <2>2, <2>3 DEF MapInv
  <1>6. CASE next # NotUsed
    <2>1. CASE mapSorted
      <3>1. PICK i : i = mapCursor.index + 1
        OBVIOUS
      <3>2. /\ ~(mapCursor.index >= Len(mapOrder)) /\ mapOrder = mapSet
            /\ next = <<Got(mapSet[i])[1], i>>
        BY <2>1, <3>1, <1>2, <1>6 DEF OrderedFrom, OrderInv
      <3>3. i \in 1..Len(mapSet) /\ Len(mapSet) \in Nat /\ mapSet[i] \in MapName
        BY <3>1, <3>2, <1>2, <1>4 DEF TableInv
      <3>4. Got(mapSet[i])[1] = mapSet[i]
        <4>1. PICK m : Got(mapSet[i]) = <<mapSet[i], m>>
          BY <3>3, <1>2, SetIsHeld
        <4> QED
          BY <4>1
      <3>5. next[1] = mapSet[i] /\ next[2] = i
        BY <3>2, <3>4
      <3> HIDE DEF next
      <3>6. PICK g : g = Append(mapCursor.given, mapSet[i])
        OBVIOUS
      <3>7. mapCursor' = [mapCursor EXCEPT !.index = i, !.given = g]
        BY <3>5, <3>6, <1>1, <1>6
      <3>8. /\ Len(mapCursor.given) = mapCursor.index
            /\ \A k \in 1..mapCursor.index : mapCursor.given[k] = mapSet[k]
        BY <2>1, <1>2 DEF CursorInv
      <3>9. /\ g \in Seq(MapName) /\ Len(g) = i /\ g[i] = mapSet[i]
            /\ \A k \in 1..mapCursor.index : g[k] = mapCursor.given[k]
        BY <3>1, <3>3, <3>6, <3>8, <1>4
      <3>10. \A k \in 1..i : g[k] = mapSet[k]
        <4>1. \A k \in 1..i : k = i \/ k \in 1..mapCursor.index
          BY <3>1, <1>4
        <4> QED
          BY <3>8, <3>9, <4>1
      <3>11. /\ mapCursor' \in CursorType
             /\ mapCursor'.index = i /\ mapCursor'.given = g /\ mapCursor'.ended = mapCursor.ended
        <4>1. mapCursor \in CursorType /\ i \in Nat /\ g \in Seq(MapName)
          BY <3>1, <3>9, <1>4
        <4>2. mapCursor' = [index |-> i, given |-> g, ended |-> mapCursor.ended]
          BY <4>1, <3>7 DEF CursorType
        <4>3. mapCursor.ended \in BOOLEAN
          BY <4>1 DEF CursorType
        <4> QED
          BY <4>1, <4>2, <4>3 DEF CursorType
      <3>12. CursorInv'
        BY <2>1, <3>3, <3>9, <3>10, <3>11, <1>1 DEF CursorInv
      <3> QED
        BY <3>12, <1>3 DEF MapInv
    <2>2. CASE ~mapSorted
      <3> DEFINE used == {i \in DOMAIN mapTable : i >= mapCursor.index /\ mapTable[i] # NotUsed}
      <3>1. used # {} /\ next = <<mapTable[Min(used)][1], Min(used) + 1>>
        BY <2>2, <1>6 DEF UsedFrom
      <3>2. \A i \in UsedOf(mapTable) : i \in Nat /\ mapTable[i][1] \in MapName
        <4>1. PICK b : b = Buffer
          OBVIOUS
        <4>2. GoodTable(mapTable, b)
          BY <4>1, <1>2 DEF TableInv
        <4>3. b \in Nat
          BY <4>2 DEF GoodTable
        <4>4. \A i \in UsedOf(mapTable) : i \in 0..b - 1 /\ mapTable[i][1] \in MapName
          BY <4>2, UsedIsNamed
        <4> QED
          BY <4>3, <4>4
      <3>3. used \subseteq Nat
        BY <3>2 DEF UsedOf
      <3>4. PICK m : m = Min(used)
        OBVIOUS
      <3>5. m \in used /\ \A i \in used : m <= i
        <4> HIDE DEF used
        <4> QED
          BY <3>1, <3>3, <3>4, MinIsLeast
      <3>6. /\ m \in UsedOf(mapTable) /\ mapCursor.index <= m /\ m \in Nat
            /\ mapTable[m][1] \in MapName
        BY <3>2, <3>3, <3>5, <1>4 DEF UsedOf
      <3>7. next[1] = mapTable[m][1] /\ next[2] = m + 1
        BY <3>1, <3>4
      <3>8. \A i \in UsedOf(mapTable) : (i < m + 1 <=> i < mapCursor.index \/ i = m)
        BY <3>2, <3>5, <3>6, <1>4 DEF UsedOf
      <3> HIDE DEF next, used
      <3>9. PICK g : g = Append(mapCursor.given, mapTable[m][1])
        OBVIOUS
      <3>10. mapCursor' = [mapCursor EXCEPT !.index = m + 1, !.given = g]
        BY <3>7, <3>9, <1>1, <1>6
      <3>11. /\ IsInjective(mapCursor.given)
             /\ ToSet(mapCursor.given)
                   = {mapTable[i][1] : i \in {j \in UsedOf(mapTable) : j < mapCursor.index}}
        BY <2>2, <1>2 DEF CursorInv
      <3>12. mapTable[m][1] \notin ToSet(mapCursor.given)
        <4> SUFFICES ASSUME NEW i \in UsedOf(mapTable), i < mapCursor.index,
                            mapTable[i][1] = mapTable[m][1]
                     PROVE  FALSE
          BY <3>11
        <4>1. i = m
          BY <3>6, <1>2 DEF TableInv, GoodTable
        <4> QED
          BY <4>1, <3>6, <1>4
      <3>13. /\ g \in Seq(MapName) /\ IsInjective(g)
             /\ ToSet(g) = ToSet(mapCursor.given) \cup {mapTable[m][1]}
        BY <3>6, <3>9, <3>11, <3>12, <1>4, Appended
      <3>14. ToSet(g) = {mapTable[i][1] : i \in {j \in UsedOf(mapTable) : j < m + 1}}
        BY <3>6, <3>8, <3>11, <3>13
      <3>15. /\ mapCursor' \in CursorType
             /\ mapCursor'.index = m + 1 /\ mapCursor'.given = g /\ mapCursor'.ended = FALSE
        <4>1. m + 1 \in Nat
          BY <3>6
        <4>2. mapCursor.ended = FALSE
          <5>1. mapCursor.ended \in BOOLEAN
            BY <1>4 DEF CursorType
          <5> QED
            BY <5>1, <1>1
        <4>3. mapCursor' = [index |-> m + 1, given |-> g, ended |-> mapCursor.ended]
          BY <3>10, <1>4 DEF CursorType
        <4> QED
          BY <3>13, <4>1, <4>2, <4>3 DEF CursorType
      <3>16. CursorInv'
        BY <2>2, <3>13, <3>14, <3>15, <1>1 DEF CursorInv
      <3> QED
        BY <3>16, <1>3 DEF MapInv
    <2> QED
      BY <2>1, <2>2
  <1> QED
    BY <1>5, <1>6

LEMMA MapKeeps == MapInv /\ [MapNext]_mapVars => MapInv'
  <1> SUFFICES ASSUME MapInv, [MapNext]_mapVars PROVE MapInv'
    OBVIOUS
  <1>1. ASSUME NEW name \in MapName, SetValue(name) PROVE MapInv'
    BY <1>1, SetValueKeeps
  <1>2. CASE GetNextElement
    BY <1>2, GetNextElementKeeps
  <1>3. CASE UNCHANGED mapVars
    BY <1>3 DEF mapVars, MapInv, TableInv, OrderInv, CursorInv, Buffer, LastSets
  <1> QED
    BY <1>1, <1>2, <1>3 DEF MapNext

\* Looking a name up ends and finds the value that it was last set to, over every collision
\* and every resizing (structures/hash_map.c), and an iterator gives each name once, that of
\* a sorted map (structures/sort_map.c) in the order that they were set in: for any names
\* no two of which have one hash, and any sizes.
THEOREM TheMapIsAFunction == MapSpec => []MapIsSound
  <1>1. MapSpec => []MapInv
    BY MapStarts, MapKeeps, PTL DEF MapSpec
  <1> QED
    BY <1>1, MapImplies, PTL
=============================================================================
