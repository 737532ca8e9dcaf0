------------------------------ MODULE ListLemmas ------------------------------
(***************************************************************************)
(* Facts about sequences, and about sets of numbers, that the proofs about *)
(* the components have in common: the lists, queues and buffers of the     *)
(* program are sequences in their models.                                  *)
(***************************************************************************)
EXTENDS Lists, SequencesExt, SequenceTheorems, FiniteSetTheorems,
        WellFoundedInduction, TLAPS

-----------------------------------------------------------------------------
(* The least of a set of numbers, which Min takes.                         *)

\* The order of the natural numbers, as a relation.
Below == {pair \in Nat \X Nat : pair[1] < pair[2]}

\* A number has no endless descent below it.
LEMMA BelowIsWellFounded == IsWellFoundedOn(Below, Nat)
  BY NatLessThanWellFounded DEF OpToRel, Below

\* Of some numbers one is the least: whatever holds of one of them holds of a first.
LEMMA HasLeast ==
    ASSUME NEW T, T \subseteq Nat, T # {}
    PROVE  \E x \in T : \A y \in T : x <= y
<1>1. PICK x \in T : \A y \in T : <<y, x>> \notin Below
  BY BelowIsWellFounded, WFMin
<1>2. ASSUME NEW y \in T PROVE x <= y
  <2>1. x \in Nat /\ y \in Nat /\ <<y, x>> \notin Below
    BY <1>1
  <2>2. ~ (y < x)
    BY <2>1 DEF Below
  <2>. QED BY <2>1, <2>2
<1>. QED BY <1>2

\* Min of a set that is not empty is in it, and below the others.
LEMMA MinIsLeast ==
    ASSUME NEW T, T \subseteq Nat, T # {}
    PROVE  Min(T) \in T /\ \A y \in T : Min(T) <= y
  BY HasLeast DEF Min

-----------------------------------------------------------------------------
(* Sequences and their elements.                                           *)

\* ToSet of the short sequences that the tasks of a step are.
LEMMA SetOfNone == ToSet(<<>>) = {}
  BY DEF ToSet
\* The same of a single element.
LEMMA SetOfOne == ASSUME NEW a PROVE ToSet(<<a>>) = {a}
  BY DEF ToSet
\* The same of two.
LEMMA SetOfTwo == ASSUME NEW a, NEW b PROVE ToSet(<<a, b>>) = {a, b}
<1>1. DOMAIN <<a, b>> = {1, 2}
  OBVIOUS
<1>. QED BY <1>1 DEF ToSet

\* Two sequences of one element make one of two.
LEMMA OneAndOne == ASSUME NEW a, NEW b PROVE <<a>> \o <<b>> = <<a, b>>
<1>. DEFINE u == <<a>> \o <<b>>
            v == <<a, b>>
<1>1. <<a>> \in Seq({a, b}) /\ <<b>> \in Seq({a, b})
  OBVIOUS
<1>2. /\ u \in Seq({a, b}) /\ Len(u) = 2
      /\ \A i \in 1..2 : u[i] = IF i <= 1 THEN a ELSE b
  BY <1>1
<1>3. /\ v \in Seq({a, b}) /\ Len(v) = 2
      /\ \A i \in 1..2 : v[i] = IF i <= 1 THEN a ELSE b
  OBVIOUS
<1>. HIDE DEF u, v
<1>4. u = v
  BY <1>2, <1>3
<1>. QED BY <1>4 DEF u, v

\* A sequence is its head and what is behind it (Becomes takes the one and keeps the
\* other).
LEMMA HeadAndRest ==
    ASSUME NEW S, NEW t \in Seq(S), t # <<>>
    PROVE  /\ Len(t) \in Nat \ {0}
           /\ Tail(t) \in Seq(S) /\ Len(Tail(t)) = Len(t) - 1
           /\ \A i \in 1..Len(t) - 1 : Tail(t)[i] = t[i + 1]
           /\ Head(t) = t[1] /\ Head(t) \in S
           /\ ToSet(t) = {Head(t)} \cup ToSet(Tail(t))
<1>1. /\ Len(t) \in Nat \ {0} /\ Tail(t) \in Seq(S) /\ Len(Tail(t)) = Len(t) - 1
      /\ Head(t) = t[1] /\ Head(t) \in S
  OBVIOUS
<1>2. \A i \in 1..Len(t) - 1 : Tail(t)[i] = t[i + 1]
  OBVIOUS
<1>3. ToSet(t) = {Head(t)} \cup ToSet(Tail(t))
  <2>1. DOMAIN t = 1..Len(t) /\ DOMAIN Tail(t) = 1..Len(t) - 1
    BY <1>1
  <2>2. ASSUME NEW i \in 1..Len(t) PROVE t[i] \in {Head(t)} \cup ToSet(Tail(t))
    <3>1. i # 1 => i - 1 \in 1..Len(t) - 1 /\ t[i] = Tail(t)[i - 1]
      BY <1>1, <1>2
    <3>. QED BY <3>1, <2>1, <1>1 DEF ToSet
  <2>3. ASSUME NEW i \in 1..Len(t) - 1 PROVE Tail(t)[i] \in ToSet(t)
    BY <1>1, <1>2, <2>1 DEF ToSet
  <2>4. Head(t) \in ToSet(t)
    BY <1>1, <2>1 DEF ToSet
  <2>. QED BY <2>1, <2>2, <2>3, <2>4 DEF ToSet
<1>. QED BY <1>1, <1>2, <1>3

\* The elements of two sequences that are put one after the other.
LEMMA Joined ==
    ASSUME NEW S, NEW a \in Seq(S), NEW b \in Seq(S)
    PROVE  /\ a \o b \in Seq(S) /\ Len(a \o b) = Len(a) + Len(b)
           /\ \A i \in 1..Len(a) + Len(b) :
                 (a \o b)[i] = IF i <= Len(a) THEN a[i] ELSE b[i - Len(a)]
           /\ ToSet(a \o b) = ToSet(a) \cup ToSet(b)
<1>1. /\ a \o b \in Seq(S) /\ Len(a \o b) = Len(a) + Len(b)
      /\ Len(a) \in Nat /\ Len(b) \in Nat
  OBVIOUS
<1>2. \A i \in 1..Len(a) + Len(b) :
         (a \o b)[i] = IF i <= Len(a) THEN a[i] ELSE b[i - Len(a)]
  OBVIOUS
<1>3. /\ DOMAIN (a \o b) = 1..Len(a) + Len(b)
      /\ DOMAIN a = 1..Len(a) /\ DOMAIN b = 1..Len(b)
  BY <1>1
<1>4. ASSUME NEW i \in 1..Len(a) + Len(b) PROVE (a \o b)[i] \in ToSet(a) \cup ToSet(b)
  <2>1. CASE i <= Len(a)
    BY <2>1, <1>1, <1>2, <1>3 DEF ToSet
  <2>2. CASE i > Len(a)
    <3>1. i - Len(a) \in 1..Len(b) /\ (a \o b)[i] = b[i - Len(a)]
      BY <2>2, <1>1, <1>2
    <3>. QED BY <3>1, <1>3 DEF ToSet
  <2>. QED BY <2>1, <2>2, <1>1
<1>5. ASSUME NEW i \in 1..Len(a) PROVE a[i] \in ToSet(a \o b)
  <2>1. i \in 1..Len(a) + Len(b) /\ (a \o b)[i] = a[i]
    BY <1>1, <1>2
  <2>. QED BY <2>1, <1>3 DEF ToSet
<1>6. ASSUME NEW i \in 1..Len(b) PROVE b[i] \in ToSet(a \o b)
  <2>1. i + Len(a) \in 1..Len(a) + Len(b) /\ (a \o b)[i + Len(a)] = b[i]
    BY <1>1, <1>2
  <2>. QED BY <2>1, <1>3 DEF ToSet
<1>7. ToSet(a \o b) = ToSet(a) \cup ToSet(b)
  BY <1>3, <1>4, <1>5, <1>6 DEF ToSet
<1>. QED BY <1>1, <1>2, <1>7

\* The joining of three sequences begins with either of them.
LEMMA JoinedInTwo ==
    ASSUME NEW S, NEW a \in Seq(S), NEW b \in Seq(S), NEW c \in Seq(S)
    PROVE  (a \o b) \o c = a \o (b \o c)
<1>1. /\ Len(a) \in Nat /\ Len(b) \in Nat /\ Len(c) \in Nat
      /\ a \o b \in Seq(S) /\ b \o c \in Seq(S)
      /\ Len(a \o b) = Len(a) + Len(b) /\ Len(b \o c) = Len(b) + Len(c)
  OBVIOUS
<1>. DEFINE u == (a \o b) \o c
            v == a \o (b \o c)
<1>2. /\ u \in Seq(S) /\ Len(u) = Len(a) + Len(b) + Len(c)
      /\ v \in Seq(S) /\ Len(v) = Len(a) + Len(b) + Len(c)
  BY <1>1
<1>3. ASSUME NEW i \in 1..Len(a) + Len(b) + Len(c) PROVE u[i] = v[i]
  <2>1. CASE i <= Len(a)
    <3>1. i \in 1..Len(a) /\ i \in 1..Len(a) + Len(b)
      BY <1>1, <2>1
    <3>2. u[i] = (a \o b)[i] /\ (a \o b)[i] = a[i] /\ v[i] = a[i]
      BY <1>1, <3>1
    <3>. QED BY <3>2
  <2>2. CASE i > Len(a) /\ i <= Len(a) + Len(b)
    <3>1. i \in 1..Len(a) + Len(b) /\ i - Len(a) \in 1..Len(b) /\ ~ (i <= Len(a))
          /\ i - Len(a) \in 1..Len(b) + Len(c)
      BY <1>1, <2>2
    <3>2. u[i] = (a \o b)[i] /\ (a \o b)[i] = b[i - Len(a)]
      BY <1>1, <3>1
    <3>3. v[i] = (b \o c)[i - Len(a)] /\ (b \o c)[i - Len(a)] = b[i - Len(a)]
      BY <1>1, <3>1
    <3>. QED BY <3>2, <3>3
  <2>3. CASE i > Len(a) + Len(b)
    <3>1. /\ ~ (i <= Len(a) + Len(b)) /\ ~ (i <= Len(a)) /\ ~ (i - Len(a) <= Len(b))
          /\ i - Len(a) \in 1..Len(b) + Len(c)
          /\ i - (Len(a) + Len(b)) = (i - Len(a)) - Len(b)
      BY <1>1, <2>3
    <3>2. u[i] = c[i - (Len(a) + Len(b))]
      BY <1>1, <3>1
    <3>3. v[i] = (b \o c)[i - Len(a)] /\ (b \o c)[i - Len(a)] = c[(i - Len(a)) - Len(b)]
      BY <1>1, <3>1
    <3>. QED BY <3>1, <3>2, <3>3
  <2>. QED BY <1>1, <2>1, <2>2, <2>3
<1>. HIDE DEF u, v
<1>4. u = v
  BY <1>2, <1>3
<1>. QED BY <1>4 DEF u, v

\* Append adds one element, the last.
LEMMA Appended ==
    ASSUME NEW S, NEW t \in Seq(S), NEW a \in S
    PROVE  /\ Append(t, a) \in Seq(S) /\ Len(Append(t, a)) = Len(t) + 1
           /\ \A i \in 1..Len(t) + 1 :
                 Append(t, a)[i] = IF i <= Len(t) THEN t[i] ELSE a
           /\ ToSet(Append(t, a)) = ToSet(t) \cup {a}
           /\ IsInjective(t) /\ a \notin ToSet(t) => IsInjective(Append(t, a))
<1>1. /\ Append(t, a) \in Seq(S) /\ Len(Append(t, a)) = Len(t) + 1 /\ Len(t) \in Nat
      /\ \A i \in 1..Len(t) + 1 : Append(t, a)[i] = IF i <= Len(t) THEN t[i] ELSE a
  OBVIOUS
<1>2. DOMAIN Append(t, a) = 1..Len(t) + 1 /\ DOMAIN t = 1..Len(t)
  BY <1>1
<1>3. ToSet(Append(t, a)) = ToSet(t) \cup {a}
  <2>1. a \in ToSet(Append(t, a))
    <3>1. Append(t, a)[Len(t) + 1] = a /\ Len(t) + 1 \in 1..Len(t) + 1
      BY <1>1
    <3>. QED BY <3>1, <1>2 DEF ToSet
  <2>2. ToSet(t) \subseteq ToSet(Append(t, a))
    BY <1>1, <1>2 DEF ToSet
  <2>3. ToSet(Append(t, a)) \subseteq ToSet(t) \cup {a}
    BY <1>1, <1>2 DEF ToSet
  <2>. QED BY <2>1, <2>2, <2>3
<1>4. ASSUME IsInjective(t), a \notin ToSet(t) PROVE IsInjective(Append(t, a))
  BY <1>1, <1>2, <1>4 DEF IsInjective, ToSet
<1>. QED BY <1>1, <1>3, <1>4

\* RemoveFirst takes out one element and leaves the others in their order; when there
\* was only one such element, none is left.
LEMMA FirstRemoved ==
    ASSUME NEW S, NEW t \in Seq(S), NEW e
    PROVE  /\ RemoveFirst(t, e) \in Seq(S)
           /\ ToSet(RemoveFirst(t, e)) \subseteq ToSet(t)
           /\ ToSet(t) \ {e} \subseteq ToSet(RemoveFirst(t, e))
           /\ IsInjective(t) => /\ IsInjective(RemoveFirst(t, e))
                                /\ e \notin ToSet(RemoveFirst(t, e))
<1>. DEFINE I == {i \in 1..Len(t) : t[i] = e}
            n == Min(I)
            r == SubSeq(t, 1, n - 1) \o SubSeq(t, n + 1, Len(t))
<1>0. Len(t) \in Nat /\ DOMAIN t = 1..Len(t)
  OBVIOUS
<1>1. CASE I = {}
  <2>1. RemoveFirst(t, e) = t
    BY <1>1 DEF RemoveFirst
  <2>2. e \notin ToSet(t)
    BY <1>0, <1>1 DEF ToSet
  <2>. QED BY <2>1, <2>2
<1>2. CASE I # {}
  <2>1. I \subseteq Nat
    OBVIOUS
  <2>2. n \in I
    BY <2>1, <1>2, MinIsLeast
  <2>3. n \in 1..Len(t) /\ t[n] = e
    BY <2>2
  <2>4. RemoveFirst(t, e) = r
    BY <1>2 DEF RemoveFirst, RemoveAt, SelectInSeq
  <2>. HIDE DEF n
  <2>5. /\ r \in Seq(S) /\ Len(r) = Len(t) - 1
        /\ \A i \in 1..Len(t) - 1 : r[i] = IF i < n THEN t[i] ELSE t[i + 1]
    <3>1. /\ SubSeq(t, 1, n - 1) \in Seq(S) /\ Len(SubSeq(t, 1, n - 1)) = n - 1
          /\ \A i \in 1..n - 1 : SubSeq(t, 1, n - 1)[i] = t[i]
      BY <1>0, <2>3
    <3>2. /\ SubSeq(t, n + 1, Len(t)) \in Seq(S)
          /\ Len(SubSeq(t, n + 1, Len(t))) = Len(t) - n
          /\ \A i \in 1..Len(t) - n : SubSeq(t, n + 1, Len(t))[i] = t[i + n]
      <4>1. n + 1 \in Int /\ Len(t) \in Int /\ \A i \in n + 1..Len(t) : t[i] \in S
        BY <1>0, <2>3
      <4>2. /\ SubSeq(t, n + 1, Len(t)) \in Seq(S)
            /\ Len(SubSeq(t, n + 1, Len(t)))
                  = IF n + 1 <= Len(t) THEN Len(t) - (n + 1) + 1 ELSE 0
            /\ \A i \in 1..Len(t) - (n + 1) + 1 :
                  SubSeq(t, n + 1, Len(t))[i] = t[(n + 1) + i - 1]
        BY <4>1, SubSeqProperties
      <4>. n \in Int /\ Len(t) \in Int /\ n <= Len(t)
        BY <1>0, <2>3
      <4>3. Len(t) - (n + 1) + 1 = Len(t) - n /\ (n + 1 <= Len(t) \/ Len(t) - n = 0)
        OBVIOUS
      <4>4. ASSUME NEW i \in 1..Len(t) - n PROVE SubSeq(t, n + 1, Len(t))[i] = t[i + n]
        <5>1. (n + 1) + i - 1 = i + n
          BY <1>0, <2>3
        <5>. QED BY <5>1, <4>2, <4>3
      <4>. QED BY <4>2, <4>3, <4>4
    <3>3. /\ r \in Seq(S) /\ Len(r) = (n - 1) + (Len(t) - n)
          /\ \A i \in 1..(n - 1) + (Len(t) - n) :
                r[i] = IF i <= n - 1 THEN SubSeq(t, 1, n - 1)[i]
                       ELSE SubSeq(t, n + 1, Len(t))[i - (n - 1)]
      BY <3>1, <3>2, Joined
    <3>4. (n - 1) + (Len(t) - n) = Len(t) - 1
      BY <1>0, <2>3
    <3>5. ASSUME NEW i \in 1..Len(t) - 1 PROVE r[i] = IF i < n THEN t[i] ELSE t[i + 1]
      <4>1. CASE i < n
        <5>1. i \in 1..n - 1 /\ i <= n - 1
          BY <4>1, <1>0, <2>3
        <5>. QED BY <5>1, <4>1, <3>1, <3>3, <3>4
      <4>2. CASE ~ (i < n)
        <5>1. i - (n - 1) \in 1..Len(t) - n /\ ~ (i <= n - 1) /\ (i - (n - 1)) + n = i + 1
          BY <4>2, <1>0, <2>3
        <5>. QED BY <5>1, <4>2, <3>2, <3>3, <3>4
      <4>. QED BY <4>1, <4>2
    <3>. QED BY <3>3, <3>4, <3>5
  <2>. HIDE DEF r
  <2>6. DOMAIN r = 1..Len(t) - 1
    BY <2>5
  <2>7. ToSet(r) \subseteq ToSet(t)
    <3>1. ASSUME NEW i \in 1..Len(t) - 1 PROVE r[i] \in ToSet(t)
      <4>1. i \in 1..Len(t) /\ i + 1 \in 1..Len(t)
        BY <1>0
      <4>. QED BY <4>1, <1>0, <2>5 DEF ToSet
    <3>. QED BY <3>1, <2>6 DEF ToSet
  <2>8. ToSet(t) \ {e} \subseteq ToSet(r)
    <3>1. ASSUME NEW i \in 1..Len(t), t[i] # e PROVE t[i] \in ToSet(r)
      <4>1. CASE i < n
        <5>1. i \in 1..Len(t) - 1 /\ r[i] = t[i]
          BY <4>1, <1>0, <2>3, <2>5
        <5>. QED BY <5>1, <2>6 DEF ToSet
      <4>2. CASE i > n
        <5>1. i - 1 \in 1..Len(t) - 1 /\ ~ (i - 1 < n) /\ (i - 1) + 1 = i
          BY <4>2, <1>0, <2>3
        <5>2. r[i - 1] = t[i]
          BY <5>1, <2>5
        <5>. QED BY <5>1, <5>2, <2>6 DEF ToSet
      <4>. QED BY <4>1, <4>2, <3>1, <2>3, <1>0
    <3>. QED BY <3>1, <1>0 DEF ToSet
  <2>9. ASSUME IsInjective(t) PROVE IsInjective(r) /\ e \notin ToSet(r)
    <3>1. ASSUME NEW i \in 1..Len(t), NEW j \in 1..Len(t), t[i] = t[j] PROVE i = j
      BY <2>9, <3>1, <1>0 DEF IsInjective
    <3>2. ASSUME NEW i \in 1..Len(t) - 1
          PROVE  \E p \in 1..Len(t) : /\ r[i] = t[p] /\ p # n
                                      /\ p = IF i < n THEN i ELSE i + 1
      BY <1>0, <2>3, <2>5
    <3>3. e \notin ToSet(r)
      <4>1. ASSUME NEW i \in 1..Len(t) - 1, r[i] = e PROVE FALSE
        <5>1. PICK p \in 1..Len(t) : r[i] = t[p] /\ p # n
          BY <3>2
        <5>. QED BY <3>1, <2>3, <4>1, <5>1
      <4>. QED BY <4>1, <2>6 DEF ToSet
    <3>4. ASSUME NEW i \in 1..Len(t) - 1, NEW j \in 1..Len(t) - 1, r[i] = r[j] PROVE i = j
      <4>1. PICK p \in 1..Len(t) : r[i] = t[p] /\ p = IF i < n THEN i ELSE i + 1
        BY <3>2
      <4>2. PICK q \in 1..Len(t) : r[j] = t[q] /\ q = IF j < n THEN j ELSE j + 1
        BY <3>2
      <4>3. p = q
        BY <3>1, <3>4, <4>1, <4>2
      <4>. QED BY <4>1, <4>2, <4>3, <1>0, <2>3
    <3>. QED BY <3>3, <3>4, <2>6 DEF IsInjective
  <2>. QED BY <2>4, <2>5, <2>7, <2>8, <2>9
<1>. QED BY <1>1, <1>2

\* A set that is finite, put in any order, has the elements that it had, each once.
LEMMA InAnyOrder ==
    ASSUME NEW S, IsFiniteSet(S), NEW order \in SetToSeqs(S)
    PROVE  order \in Seq(S) /\ ToSet(order) = S /\ IsInjective(order)
<1>. DEFINE D == 1..Cardinality(S)
<1>1. Cardinality(S) \in Nat
  BY FS_CardinalityType
<1>2. order \in [D -> S] /\ \A i, j \in D : i # j => order[i] # order[j]
  BY DEF SetToSeqs
<1>3. order \in Seq(S) /\ DOMAIN order = D
  BY <1>1, <1>2
<1>4. IsInjective(order)
  BY <1>2, <1>3 DEF IsInjective
<1>5. Cardinality(D) = Cardinality(S)
  BY <1>1, FS_Interval
<1>6. order \in Injection(D, S)
  BY <1>2, <1>4 DEF Injection, IsInjective
<1>7. order \in Surjection(D, S)
  BY <1>5, <1>6, FS_Injection
<1>8. ToSet(order) = S
  BY <1>2, <1>3, <1>7 DEF ToSet, Surjection
<1>. QED BY <1>3, <1>4, <1>8

-----------------------------------------------------------------------------
(* Those, by induction over the elements that it has looked at.            *)

\* One more element is looked at.
ThoseWith(those, S, e) == IF e \in S THEN Append(those, e) ELSE those

\* What Those has found after each number of elements.
IsThose(f, seq, S, n) ==
    f = [i \in 0..n |-> IF i = 0 THEN <<>> ELSE ThoseWith(f[i - 1], S, seq[i])]

\* Such a function exists, for any number of them.
LEMMA ThoseExists ==
    ASSUME NEW seq, NEW S, NEW n \in Nat
    PROVE  \E f : IsThose(f, seq, S, n)
<1>. DEFINE Bad == {m \in Nat : ~ \E f : IsThose(f, seq, S, m)}
<1>1. SUFFICES ASSUME Bad # {} PROVE FALSE
  OBVIOUS
<1>2. PICK m \in Bad : \A other \in Bad : m <= other
  <2>. HIDE DEF Bad
  <2>1. Bad \subseteq Nat
    BY DEF Bad
  <2>. QED BY <1>1, <2>1, HasLeast
<1>3. m \in Nat /\ ~ \E f : IsThose(f, seq, S, m)
  OBVIOUS
<1>4. CASE m = 0
  <2>. DEFINE f == [i \in 0..m |-> <<>>]
  <2>1. IsThose(f, seq, S, m)
    BY <1>4 DEF IsThose
  <2>. QED BY <2>1, <1>3
<1>5. CASE m # 0
  <2>1. m - 1 \in Nat /\ ~ (m <= m - 1)
    BY <1>3, <1>5
  <2>2. PICK g : IsThose(g, seq, S, m - 1)
    BY <2>1, <1>2
  <2>. DEFINE f == [i \in 0..m |-> IF i = m THEN ThoseWith(g[m - 1], S, seq[m]) ELSE g[i]]
  <2>3. /\ g = [i \in 0..m - 1 |-> IF i = 0 THEN <<>> ELSE ThoseWith(g[i - 1], S, seq[i])]
    BY <2>2 DEF IsThose
  <2>4. ASSUME NEW i \in 0..m
        PROVE  f[i] = IF i = 0 THEN <<>> ELSE ThoseWith(f[i - 1], S, seq[i])
    <3>1. CASE i = m
      <4>1. i - 1 \in 0..m /\ i - 1 # m /\ i # 0
        BY <3>1, <1>3, <1>5
      <4>. QED BY <3>1, <4>1
    <3>2. CASE i # m
      <4>1. i \in 0..m - 1 /\ f[i] = g[i]
        BY <3>2, <1>3
      <4>2. i # 0 => i - 1 \in 0..m /\ i - 1 # m
        BY <3>2, <1>3
      <4>. QED BY <4>1, <4>2, <2>3
    <3>. QED BY <3>1, <3>2
  <2>5. IsThose(f, seq, S, m)
    <3>1. f = [i \in 0..m |-> f[i]]
      OBVIOUS
    <3>. HIDE DEF f
    <3>. QED BY <3>1, <2>4 DEF IsThose
  <2>. QED BY <2>5, <1>3
<1>. QED BY <1>4, <1>5

\* The elements of the set and no other, each of them as often as it was.
LEMMA ThoseOf ==
    ASSUME NEW Q, NEW seq \in Seq(Q), NEW S
    PROVE  /\ Those(seq, S) \in Seq(Q) /\ ToSet(Those(seq, S)) = ToSet(seq) \cap S
           /\ IsInjective(seq) => IsInjective(Those(seq, S))
<1>. DEFINE f == CHOOSE f : IsThose(f, seq, S, Len(seq))
            Seen(n) == {seq[i] : i \in 1..n}
            Right(n) == /\ f[n] \in Seq(Q) /\ ToSet(f[n]) = Seen(n) \cap S
                        /\ IsInjective(seq) => IsInjective(f[n])
            Bad == {m \in 0..Len(seq) : ~ Right(m)}
<1>1. Len(seq) \in Nat /\ DOMAIN seq = 1..Len(seq) /\ \A i \in 1..Len(seq) : seq[i] \in Q
  OBVIOUS
<1>2. IsThose(f, seq, S, Len(seq))
  BY <1>1, ThoseExists
<1>3. Those(seq, S) = f[Len(seq)]
  BY DEF Those, IsThose, ThoseWith
<1>. HIDE DEF f
<1>4. \A i \in 0..Len(seq) : f[i] = IF i = 0 THEN <<>> ELSE ThoseWith(f[i - 1], S, seq[i])
  <2>1. f = [i \in 0..Len(seq) |-> IF i = 0 THEN <<>> ELSE ThoseWith(f[i - 1], S, seq[i])]
    BY <1>2 DEF IsThose
  <2>. QED BY <2>1
<1>5. Right(0)
  <2>1. f[0] = <<>>
    BY <1>1, <1>4
  <2>2. Seen(0) = {}
    OBVIOUS
  <2>3. IsInjective(<<>>)
    BY DEF IsInjective
  <2>. QED BY <2>1, <2>2, <2>3, SetOfNone
<1>6. ASSUME NEW m \in 1..Len(seq), Right(m - 1) PROVE Right(m)
  <2>1. m \in 0..Len(seq) /\ m # 0 /\ seq[m] \in Q /\ m - 1 \in Nat
    BY <1>1
  <2>2. f[m] = ThoseWith(f[m - 1], S, seq[m])
    BY <2>1, <1>4
  <2>3. Seen(m) = Seen(m - 1) \cup {seq[m]}
    <3>1. 1..m = (1..m - 1) \cup {m}
      BY <2>1
    <3>. QED BY <3>1
  <2>4. f[m - 1] \in Seq(Q) /\ ToSet(f[m - 1]) = Seen(m - 1) \cap S
    BY <1>6
  <2>5. CASE seq[m] \notin S
    <3>1. f[m] = f[m - 1]
      BY <2>2, <2>5 DEF ThoseWith
    <3>. QED BY <3>1, <2>3, <2>5, <1>6
  <2>6. CASE seq[m] \in S
    <3>1. f[m] = Append(f[m - 1], seq[m])
      BY <2>2, <2>6 DEF ThoseWith
    <3>2. /\ f[m] \in Seq(Q) /\ ToSet(f[m]) = ToSet(f[m - 1]) \cup {seq[m]}
          /\ IsInjective(f[m - 1]) /\ seq[m] \notin ToSet(f[m - 1]) => IsInjective(f[m])
      BY <3>1, <2>1, <2>4, Appended
    <3>3. IsInjective(seq) => seq[m] \notin Seen(m - 1)
      <4>1. HAVE IsInjective(seq)
      <4>2. ASSUME NEW i \in 1..m - 1 PROVE seq[i] # seq[m]
        <5>1. i \in 1..Len(seq) /\ i # m
          BY <2>1, <1>1
        <5>. QED BY <5>1, <4>1, <1>1 DEF IsInjective
      <4>. QED BY <4>2
    <3>. QED BY <3>2, <3>3, <2>3, <2>4, <2>6, <1>6
  <2>. QED BY <2>5, <2>6
<1>7. Bad = {}
  <2>1. SUFFICES ASSUME Bad # {} PROVE FALSE
    OBVIOUS
  <2>2. PICK m \in Bad : \A other \in Bad : m <= other
    <3>1. Bad \subseteq Nat
      OBVIOUS
    <3>. HIDE DEF Bad
    <3>. QED BY <2>1, <3>1, HasLeast
  <2>3. m \in 0..Len(seq) /\ ~ Right(m)
    OBVIOUS
  <2>4. m \in 1..Len(seq) /\ m - 1 \in 0..Len(seq) /\ ~ (m <= m - 1)
    <3>1. m # 0
      BY <2>3, <1>5
    <3>. QED BY <3>1, <2>3, <1>1
  <2>. HIDE DEF Right
  <2>5. Right(m - 1)
    BY <2>4, <2>2
  <2>. QED BY <2>3, <2>4, <2>5, <1>6
<1>8. Right(Len(seq))
  <2>1. Len(seq) \in 0..Len(seq)
    BY <1>1
  <2>. HIDE DEF Right
  <2>. QED BY <2>1, <1>7
<1>9. Seen(Len(seq)) = ToSet(seq)
  BY <1>1 DEF ToSet
<1>. QED BY <1>3, <1>8, <1>9

-----------------------------------------------------------------------------
(* Induction, and the sum of a sequence.                                   *)

\* What holds of 0 and, as far as n, of every number after one that it holds of, holds of
\* all of them.
LEMMA UpTo ==
    ASSUME NEW N \in Nat, NEW S, 0 \in S, \A n \in 0..N : n \in S /\ n < N => n + 1 \in S
    PROVE  \A n \in 0..N : n \in S
<1>. DEFINE Bad == {n \in 0..N : n \notin S}
<1>1. SUFFICES ASSUME Bad # {} PROVE FALSE
  OBVIOUS
<1>2. PICK m \in Bad : \A n \in Bad : m <= n
  <2>1. Bad \subseteq Nat
    OBVIOUS
  <2>. HIDE DEF Bad
  <2>. QED BY <1>1, <2>1, HasLeast
<1>3. m \in 0..N /\ m \notin S /\ m # 0
  OBVIOUS
<1>4. m - 1 \in 0..N /\ m - 1 < N /\ ~ (m <= m - 1) /\ (m - 1) + 1 = m
  BY <1>3
<1>5. m - 1 \in S
  BY <1>2, <1>4
<1>6. (m - 1) + 1 \in S
  BY <1>4, <1>5
<1>. QED BY <1>3, <1>4, <1>6

\* What SumOf chooses.
IsSum(f, seq, n) == f = [i \in 0..n |-> IF i = 0 THEN 0 ELSE f[i - 1] + seq[i]]

\* There is such a function.
LEMMA SumExists ==
    ASSUME NEW seq, NEW N \in Nat
    PROVE  \E f : IsSum(f, seq, N)
<1>. DEFINE S == {n \in 0..N : \E f : IsSum(f, seq, n)}
<1>1. 0 \in S
  <2>. DEFINE f == [i \in 0..0 |-> 0]
  <2>1. IsSum(f, seq, 0)
    BY DEF IsSum
  <2>. QED BY <2>1
<1>2. ASSUME NEW n \in 0..N, n \in S, n < N PROVE n + 1 \in S
  <2>1. PICK g : IsSum(g, seq, n)
    BY <1>2
  <2>2. g = [i \in 0..n |-> IF i = 0 THEN 0 ELSE g[i - 1] + seq[i]]
    BY <2>1 DEF IsSum
  <2>. DEFINE f == [i \in 0..n + 1 |-> IF i = n + 1 THEN g[n] + seq[n + 1] ELSE g[i]]
  <2>3. ASSUME NEW i \in 0..n + 1
        PROVE  f[i] = IF i = 0 THEN 0 ELSE f[i - 1] + seq[i]
    <3>1. CASE i = n + 1
      <4>1. i - 1 \in 0..n + 1 /\ i - 1 # n + 1 /\ i # 0 /\ i - 1 = n
        BY <3>1
      <4>. QED BY <3>1, <4>1
    <3>2. CASE i # n + 1
      <4>1. i \in 0..n /\ f[i] = g[i]
        BY <3>2
      <4>2. i # 0 => i - 1 \in 0..n + 1 /\ i - 1 # n + 1
        BY <3>2
      <4>. QED BY <4>1, <4>2, <2>2
    <3>. QED BY <3>1, <3>2
  <2>4. IsSum(f, seq, n + 1)
    <3>1. f = [i \in 0..n + 1 |-> f[i]]
      OBVIOUS
    <3>. HIDE DEF f
    <3>. QED BY <3>1, <2>3 DEF IsSum
  <2>5. n + 1 \in 0..N
    BY <1>2
  <2>. QED BY <2>4, <2>5
<1>. HIDE DEF S
<1>3. N \in S
  BY <1>1, <1>2, UpTo
<1>. QED BY <1>3 DEF S

\* Two sequences that begin alike have the same sums as far as that.
LEMMA SumsAgree ==
    ASSUME NEW f, NEW g, NEW a, NEW b, NEW M \in Nat, NEW N \in Nat, NEW K \in Nat,
           K <= M, K <= N, IsSum(f, a, M), IsSum(g, b, N), \A i \in 1..K : a[i] = b[i]
    PROVE  f[K] = g[K]
<1>. DEFINE S == {n \in 0..K : f[n] = g[n]}
<1>1. /\ \A i \in 0..M : f[i] = IF i = 0 THEN 0 ELSE f[i - 1] + a[i]
      /\ \A i \in 0..N : g[i] = IF i = 0 THEN 0 ELSE g[i - 1] + b[i]
  <2>1. f = [i \in 0..M |-> IF i = 0 THEN 0 ELSE f[i - 1] + a[i]]
    BY DEF IsSum
  <2>2. g = [i \in 0..N |-> IF i = 0 THEN 0 ELSE g[i - 1] + b[i]]
    BY DEF IsSum
  <2>. QED BY <2>1, <2>2, Zenon
<1>2. 0 \in S
  BY <1>1
<1>3. ASSUME NEW n \in 0..K, n \in S, n < K PROVE n + 1 \in S
  <2>1. n + 1 \in 0..M /\ n + 1 \in 0..N /\ n + 1 # 0 /\ n + 1 \in 1..K /\ (n + 1) - 1 = n
    BY <1>3
  <2>2. f[n + 1] = f[n] + a[n + 1] /\ g[n + 1] = g[n] + b[n + 1]
    BY <1>1, <2>1
  <2>. QED BY <1>3, <2>1, <2>2
<1>. HIDE DEF S
<1>4. K \in S
  BY <1>2, <1>3, UpTo
<1>. QED BY <1>4 DEF S

\* The sums of a sequence as far as each of its elements.
LEMMA SumIs ==
    ASSUME NEW seq \in Seq(Nat)
    PROVE  /\ SumOf(seq) \in Nat
           /\ \E f : IsSum(f, seq, Len(seq)) /\ SumOf(seq) = f[Len(seq)]
<1>. DEFINE f == CHOOSE f : IsSum(f, seq, Len(seq))
            S == {n \in 0..Len(seq) : f[n] \in Nat}
<1>1. Len(seq) \in Nat /\ \A i \in 1..Len(seq) : seq[i] \in Nat
  OBVIOUS
<1>2. IsSum(f, seq, Len(seq))
  BY <1>1, SumExists
<1>3. SumOf(seq) = f[Len(seq)]
  BY DEF SumOf, IsSum
<1>. HIDE DEF f
<1>4. \A i \in 0..Len(seq) : f[i] = IF i = 0 THEN 0 ELSE f[i - 1] + seq[i]
  <2>1. f = [i \in 0..Len(seq) |-> IF i = 0 THEN 0 ELSE f[i - 1] + seq[i]]
    BY <1>2 DEF IsSum
  <2>. QED BY <2>1, Zenon
<1>5. 0 \in S
  BY <1>1, <1>4
<1>6. ASSUME NEW n \in 0..Len(seq), n \in S, n < Len(seq) PROVE n + 1 \in S
  <2>1. n + 1 \in 0..Len(seq) /\ n + 1 # 0 /\ n + 1 \in 1..Len(seq) /\ (n + 1) - 1 = n
    BY <1>1, <1>6
  <2>2. f[n + 1] = f[n] + seq[n + 1] /\ f[n] \in Nat /\ seq[n + 1] \in Nat
    BY <1>1, <1>4, <1>6, <2>1
  <2>. QED BY <2>1, <2>2
<1>. HIDE DEF S
<1>7. Len(seq) \in S
  <2>1. PICK N : N = Len(seq)
    OBVIOUS
  <2>2. N \in Nat /\ 0 \in S /\ \A n \in 0..N : n \in S /\ n < N => n + 1 \in S
    BY <1>1, <1>5, <1>6, <2>1
  <2>3. \A n \in 0..N : n \in S
    BY <2>2, UpTo
  <2>. QED BY <2>1, <2>2, <2>3
<1>. QED BY <1>2, <1>3, <1>7 DEF S

\* One more at the end.
LEMMA SumWithLast ==
    ASSUME NEW seq \in Seq(Nat), NEW n, n = Len(seq), n # 0, NEW front \in Seq(Nat),
           Len(front) = n - 1, \A i \in 1..n - 1 : front[i] = seq[i]
    PROVE  SumOf(seq) = SumOf(front) + seq[n]
<1>1. n \in Nat /\ n - 1 \in Nat /\ n - 1 <= n /\ n \in 0..n
  OBVIOUS
<1>2. PICK f : IsSum(f, seq, n) /\ SumOf(seq) = f[n]
  BY SumIs
<1>3. PICK g : IsSum(g, front, n - 1) /\ SumOf(front) = g[n - 1]
  BY SumIs
<1>4. g[n - 1] = f[n - 1]
  <2>1. PICK m : m = n - 1
    OBVIOUS
  <2>2. /\ m \in Nat /\ n \in Nat /\ m <= m /\ m <= n /\ IsSum(g, front, m) /\ IsSum(f, seq, n)
        /\ \A i \in 1..m : front[i] = seq[i]
    BY <1>1, <1>2, <1>3, <2>1
  <2>3. g[m] = f[m]
    BY <2>2, SumsAgree
  <2>. QED BY <2>1, <2>3
<1>5. f[n] = f[n - 1] + seq[n]
  <2>1. f = [i \in 0..n |-> IF i = 0 THEN 0 ELSE f[i - 1] + seq[i]]
    BY <1>2 DEF IsSum
  <2>2. f[n] = IF n = 0 THEN 0 ELSE f[n - 1] + seq[n]
    BY <1>1, <2>1
  <2>. QED BY <2>2
<1>. QED BY <1>2, <1>3, <1>4, <1>5

\* Nothing sums to 0.
LEMMA SumOfNone ==
    ASSUME NEW seq \in Seq(Nat), Len(seq) = 0
    PROVE  SumOf(seq) = 0
<1>1. PICK f : IsSum(f, seq, 0) /\ SumOf(seq) = f[0]
  BY SumIs
<1>2. f = [i \in 0..0 |-> IF i = 0 THEN 0 ELSE f[i - 1] + seq[i]]
  BY <1>1 DEF IsSum
<1>3. f[0] = 0
  BY <1>2
<1>. QED BY <1>1, <1>3

-----------------------------------------------------------------------------
(* What repeats nothing, what follows one step from another.               *)

\* Nothing joined to a sequence, and one more element.
LEMMA JoinedToNothing ==
    ASSUME NEW S, NEW t \in Seq(S), NEW a \in S
    PROVE  t \o <<>> = t /\ <<>> \o t = t /\ Append(t, a) = t \o <<a>>
<1>1. t \o <<>> = t
  OBVIOUS
<1>2. <<>> \o t = t
  OBVIOUS
<1>3. Append(t, a) = t \o <<a>>
  OBVIOUS
<1>. QED BY <1>1, <1>2, <1>3

\* What has been found after a number of elements depends on those alone.
LEMMA ThoseAgree ==
    ASSUME NEW f, NEW g, NEW a, NEW b, NEW S, NEW M \in Nat, NEW N \in Nat, NEW K \in Nat,
           K <= M, K <= N, IsThose(f, a, S, M), IsThose(g, b, S, N), \A i \in 1..K : a[i] = b[i]
    PROVE  f[K] = g[K]
<1>. DEFINE T == {n \in 0..K : f[n] = g[n]}
<1>1. /\ \A i \in 0..M : f[i] = IF i = 0 THEN <<>> ELSE ThoseWith(f[i - 1], S, a[i])
      /\ \A i \in 0..N : g[i] = IF i = 0 THEN <<>> ELSE ThoseWith(g[i - 1], S, b[i])
  <2>1. f = [i \in 0..M |-> IF i = 0 THEN <<>> ELSE ThoseWith(f[i - 1], S, a[i])]
    BY DEF IsThose
  <2>2. g = [i \in 0..N |-> IF i = 0 THEN <<>> ELSE ThoseWith(g[i - 1], S, b[i])]
    BY DEF IsThose
  <2>3. \A i \in 0..M : f[i] = IF i = 0 THEN <<>> ELSE ThoseWith(f[i - 1], S, a[i])
    BY <2>1
  <2>4. \A i \in 0..N : g[i] = IF i = 0 THEN <<>> ELSE ThoseWith(g[i - 1], S, b[i])
    BY <2>2
  <2>. QED BY <2>3, <2>4
<1>2. 0 \in T
  BY <1>1
<1>3. ASSUME NEW n \in 0..K, n \in T, n < K PROVE n + 1 \in T
  <2>1. n + 1 \in 0..M /\ n + 1 \in 0..N /\ n + 1 # 0 /\ (n + 1) - 1 = n /\ n + 1 \in 1..K
    BY <1>3
  <2>2. f[n + 1] = ThoseWith(f[n], S, a[n + 1]) /\ g[n + 1] = ThoseWith(g[n], S, b[n + 1])
    BY <1>1, <2>1
  <2>3. f[n] = g[n] /\ a[n + 1] = b[n + 1]
    BY <1>3, <2>1
  <2>. QED BY <2>1, <2>2, <2>3
<1>4. \A n \in 0..K : n \in T
  <2>. HIDE DEF T
  <2>. QED BY <1>2, <1>3, UpTo
<1>. QED BY <1>4

\* The elements of the set, of a sequence that has one more at its end, and of none.
LEMMA ThoseAppended ==
    ASSUME NEW Q, NEW seq \in Seq(Q), NEW e \in Q, NEW S
    PROVE  Those(Append(seq, e), S) = IF e \in S THEN Append(Those(seq, S), e) ELSE Those(seq, S)
<1>1. PICK n, longer : n = Len(seq) /\ longer = Append(seq, e)
  OBVIOUS
<1>2. /\ n \in Nat /\ Len(longer) = n + 1 /\ longer[n + 1] = e
      /\ \A i \in 1..n : longer[i] = seq[i]
  BY <1>1
<1>. DEFINE f == CHOOSE f : IsThose(f, seq, S, n)
            g == CHOOSE g : IsThose(g, longer, S, n + 1)
<1>3. IsThose(f, seq, S, n)
  BY <1>2, ThoseExists
<1>4. IsThose(g, longer, S, n + 1)
  <2>1. n + 1 \in Nat
    BY <1>2
  <2>. QED BY <2>1, ThoseExists
<1>5. Those(seq, S) = f[n]
  BY <1>1 DEF Those, IsThose, ThoseWith
<1>6. Those(longer, S) = g[n + 1]
  BY <1>2 DEF Those, IsThose, ThoseWith
<1>. HIDE DEF f, g
<1>7. g[n + 1] = ThoseWith(g[n], S, e)
  <2>1. g = [i \in 0..n + 1 |-> IF i = 0 THEN <<>> ELSE ThoseWith(g[i - 1], S, longer[i])]
    BY <1>4 DEF IsThose
  <2>2. n + 1 \in 0..n + 1 /\ n + 1 # 0 /\ (n + 1) - 1 = n
    BY <1>2
  <2>3. g[n + 1] = ThoseWith(g[(n + 1) - 1], S, longer[n + 1])
    BY <2>1, <2>2
  <2>. QED BY <1>2, <2>2, <2>3
<1>8. g[n] = f[n]
  <2>1. n + 1 \in Nat /\ n <= n + 1 /\ n <= n
    BY <1>2
  <2>. QED BY <1>2, <1>3, <1>4, <2>1, ThoseAgree
<1>. QED BY <1>1, <1>5, <1>6, <1>7, <1>8 DEF ThoseWith

\* Of no element, and of some none of which is in the set, none is.
LEMMA ThoseOfNone ==
    ASSUME NEW Q, NEW seq \in Seq(Q), NEW S, ToSet(seq) \cap S = {}
    PROVE  Those(seq, S) = <<>>
<1>1. PICK t : t = Those(seq, S)
  OBVIOUS
<1>2. t \in Seq(Q) /\ ToSet(t) = {}
  BY <1>1, ThoseOf
<1>3. t # <<>> => t[1] \in ToSet(t)
  <2>1. t # <<>> => 1 \in DOMAIN t
    BY <1>2
  <2>. QED BY <2>1 DEF ToSet
<1>. QED BY <1>1, <1>2, <1>3

\* A sequence without one of its elements: those before it are where they were, those behind
\* it come one place forward.
LEMMA OneRemoved ==
    ASSUME NEW S, NEW t \in Seq(S), NEW i \in 1..Len(t)
    PROVE  /\ RemoveAt(t, i) \in Seq(S) /\ Len(RemoveAt(t, i)) = Len(t) - 1
           /\ \A k \in 1..Len(t) - 1 : RemoveAt(t, i)[k] = IF k <= i - 1 THEN t[k] ELSE t[k + 1]
<1>1. PICK n, a, b : n = Len(t) /\ a = SubSeq(t, 1, i - 1) /\ b = SubSeq(t, i + 1, n)
  OBVIOUS
<1>2. n \in Nat /\ i \in 1..n /\ DOMAIN t = 1..n /\ \A k \in 1..n : t[k] \in S
  BY <1>1
<1>3. a \in Seq(S) /\ Len(a) = i - 1 /\ \A k \in 1..i - 1 : a[k] = t[k]
  BY <1>1, <1>2
<1>4. b \in Seq(S) /\ Len(b) = n - i /\ \A k \in 1..n - i : b[k] = t[k + i]
  <2>1. b \in Seq(S) /\ Len(b) = n - i
    BY <1>1, <1>2
  <2>2. ASSUME NEW k \in 1..n - i PROVE b[k] = t[k + i]
    <3>1. b[k] = t[(i + 1) + k - 1]
      BY <1>1, <1>2
    <3>2. (i + 1) + k - 1 = k + i
      BY <1>2
    <3>. QED BY <3>1, <3>2
  <2>. QED BY <2>1, <2>2
<1>5. PICK c : c = a \o b
  OBVIOUS
<1>6. c = RemoveAt(t, i)
  BY <1>1, <1>5 DEF RemoveAt
<1>7. /\ c \in Seq(S) /\ Len(c) = n - 1
      /\ \A k \in 1..n - 1 : c[k] = IF k <= i - 1 THEN t[k] ELSE t[k + 1]
  <2>1. /\ c \in Seq(S) /\ Len(c) = (i - 1) + (n - i)
        /\ \A k \in 1..(i - 1) + (n - i) : c[k] = IF k <= i - 1 THEN a[k] ELSE b[k - (i - 1)]
    BY <1>3, <1>4, <1>5, Joined
  <2>2. (i - 1) + (n - i) = n - 1
    BY <1>2
  <2>3. ASSUME NEW k \in 1..n - 1 PROVE c[k] = IF k <= i - 1 THEN t[k] ELSE t[k + 1]
    <3>1. CASE k <= i - 1
      BY <1>3, <2>1, <2>2, <3>1, SMTT(20)
    <3>2. CASE ~ (k <= i - 1)
      <4>1. k - (i - 1) \in 1..n - i /\ (k - (i - 1)) + i = k + 1
        BY <1>2, <3>2
      <4>. QED BY <1>4, <2>1, <2>2, <3>2, <4>1
    <3>. QED BY <3>1, <3>2
  <2>. QED BY <2>1, <2>2, <2>3
<1>. QED BY <1>1, <1>6, <1>7

\* An element that is removed from where it stands.
LEMMA RemovedAt ==
    ASSUME NEW S, NEW t \in Seq(S), NEW i \in 1..Len(t), IsInjective(t)
    PROVE  /\ RemoveAt(t, i) \in Seq(S) /\ IsInjective(RemoveAt(t, i))
           /\ ToSet(RemoveAt(t, i)) = ToSet(t) \ {t[i]}
<1>1. PICK n, c : n = Len(t) /\ c = RemoveAt(t, i)
  OBVIOUS
<1>2. n \in Nat /\ i \in 1..n /\ DOMAIN t = 1..n /\ \A k \in 1..n : t[k] \in S
  BY <1>1
<1>3. c = RemoveAt(t, i)
  BY <1>1
<1>4. /\ c \in Seq(S) /\ Len(c) = n - 1
      /\ \A k \in 1..n - 1 : c[k] = IF k <= i - 1 THEN t[k] ELSE t[k + 1]
  BY <1>1, OneRemoved
<1>5. \A k, m \in 1..n : t[k] = t[m] => k = m
  BY <1>2 DEF IsInjective
<1>6. IsInjective(c)
  <2>1. SUFFICES ASSUME NEW k \in 1..n - 1, NEW m \in 1..n - 1, c[k] = c[m] PROVE k = m
    BY <1>4 DEF IsInjective
  <2>2. k \in 1..n /\ m \in 1..n /\ k + 1 \in 1..n /\ m + 1 \in 1..n
    BY <1>2
  <2>3. CASE k <= i - 1 /\ m <= i - 1
    BY <1>4, <1>5, <2>1, <2>2, <2>3
  <2>4. CASE ~ (k <= i - 1) /\ ~ (m <= i - 1)
    <3>1. k + 1 = m + 1
      BY <1>4, <1>5, <2>1, <2>2, <2>4
    <3>. QED BY <3>1
  <2>5. CASE k <= i - 1 /\ ~ (m <= i - 1)
    <3>1. k = m + 1
      BY <1>4, <1>5, <2>1, <2>2, <2>5
    <3>. QED BY <1>2, <2>5, <3>1
  <2>6. CASE ~ (k <= i - 1) /\ m <= i - 1
    <3>1. k + 1 = m
      BY <1>4, <1>5, <2>1, <2>2, <2>6
    <3>. QED BY <1>2, <2>6, <3>1
  <2>. QED BY <2>3, <2>4, <2>5, <2>6
<1>7. ASSUME NEW x PROVE x \in ToSet(c) <=> x \in ToSet(t) /\ x # t[i]
  <2>1. DOMAIN c = 1..n - 1
    BY <1>4
  <2>2. ASSUME NEW k \in 1..n - 1 PROVE c[k] \in ToSet(t) /\ c[k] # t[i]
    <3>1. k \in 1..n /\ k + 1 \in 1..n
      BY <1>2
    <3>2. CASE k <= i - 1
      <4>1. c[k] = t[k] /\ k # i
        BY <1>2, <1>4, <3>2
      <4>. QED BY <1>2, <1>5, <3>1, <4>1 DEF ToSet
    <3>3. CASE ~ (k <= i - 1)
      <4>1. c[k] = t[k + 1] /\ k + 1 # i
        BY <1>2, <1>4, <3>3
      <4>. QED BY <1>2, <1>5, <3>1, <4>1 DEF ToSet
    <3>. QED BY <3>2, <3>3
  <2>3. ASSUME NEW k \in 1..n, t[k] # t[i] PROVE t[k] \in ToSet(c)
    <3>1. CASE k <= i - 1
      <4>1. k \in 1..n - 1 /\ c[k] = t[k]
        BY <1>2, <1>4, <3>1
      <4>. QED BY <2>1, <4>1 DEF ToSet
    <3>2. CASE ~ (k <= i - 1)
      <4>1. k - 1 \in 1..n - 1 /\ ~ (k - 1 <= i - 1) /\ (k - 1) + 1 = k
        <5>1. k # i
          BY <2>3
        <5>. QED BY <1>2, <3>2, <5>1
      <4>2. c[k - 1] = t[k]
        BY <1>4, <4>1
      <4>. QED BY <2>1, <4>1, <4>2 DEF ToSet
    <3>. QED BY <3>1, <3>2
  <2>4. x \in ToSet(c) => \E k \in 1..n - 1 : x = c[k]
    BY <2>1 DEF ToSet
  <2>5. x \in ToSet(t) => \E k \in 1..n : x = t[k]
    BY <1>2 DEF ToSet
  <2>. QED BY <2>2, <2>3, <2>4, <2>5
<1>8. ToSet(c) = ToSet(t) \ {t[i]}
  BY <1>7
<1>. QED BY <1>3, <1>4, <1>6, <1>8

\* The rest of a sequence in which nothing comes twice is such a one, without its head.
LEMMA RestIsInjective ==
    ASSUME NEW S, NEW t \in Seq(S), t # <<>>, IsInjective(t)
    PROVE  IsInjective(Tail(t)) /\ Head(t) \notin ToSet(Tail(t))
<1>1. PICK n, r : n = Len(t) /\ r = Tail(t)
  OBVIOUS
<1>2. n \in Nat \ {0} /\ r \in Seq(S) /\ Len(r) = n - 1 /\ Head(t) = t[1] /\ \A i \in 1..n - 1 : r[i] = t[i + 1]
  BY <1>1, HeadAndRest
<1>3. DOMAIN t = 1..n /\ DOMAIN r = 1..n - 1
  BY <1>1, <1>2
<1>4. \A k, m \in 1..n : t[k] = t[m] => k = m
  BY <1>3 DEF IsInjective
<1>5. \A i \in 1..n - 1 : i + 1 \in 1..n /\ i + 1 # 1
  BY <1>2
<1>6. \A i, j \in 1..n - 1 : r[i] = r[j] => i = j
  <2>1. SUFFICES ASSUME NEW i \in 1..n - 1, NEW j \in 1..n - 1, r[i] = r[j] PROVE i = j
    OBVIOUS
  <2>2. i + 1 = j + 1
    BY <1>2, <1>4, <1>5, <2>1
  <2>. QED BY <2>2
<1>7. \A i \in 1..n - 1 : r[i] # t[1]
  BY <1>2, <1>4, <1>5
<1>8. IsInjective(r) /\ t[1] \notin ToSet(r)
  BY <1>3, <1>6, <1>7 DEF IsInjective, ToSet
<1>. QED BY <1>1, <1>2, <1>8

\* What each value of a function follows from the one before it by.
Iterates(f, N, S, base, F) ==
    /\ f \in [0..N -> S] /\ f[0] = base
    /\ \A i \in 1..N : f[i] = F[i][f[i - 1]]

\* A function that is defined by what follows each of its values, over a set that holds
\* them all: what the recursive functions of the models choose exists.
LEMMA IterationExists ==
    ASSUME NEW N \in Nat, NEW S, NEW base \in S, NEW F \in [1..N -> [S -> S]]
    PROVE  \E f : Iterates(f, N, S, base, F)
<1>. DEFINE Good(f, n) == /\ f[0] = base
                          /\ \A i \in 1..n : f[i] = F[i][f[i - 1]]
            T == {n \in 0..N : \E f \in [0..n -> S] : Good(f, n)}
<1>1. 0 \in T
  <2>. DEFINE f == [i \in 0..0 |-> base]
  <2>1. f \in [0..0 -> S] /\ Good(f, 0)
    OBVIOUS
  <2>. HIDE DEF f
  <2>2. 0 \in 0..N
    OBVIOUS
  <2>. QED BY <2>1, <2>2
<1>2. ASSUME NEW n \in 0..N, n \in T, n < N PROVE n + 1 \in T
  <2>1. PICK g \in [0..n -> S] : Good(g, n)
    BY <1>2
  <2>2. n + 1 \in 1..N /\ n \in 0..n /\ F[n + 1][g[n]] \in S
    BY <1>2
  <2>. DEFINE f == [i \in 0..n + 1 |-> IF i = n + 1 THEN F[n + 1][g[n]] ELSE g[i]]
  <2>3. f \in [0..n + 1 -> S]
    BY <2>2
  <2>4. f[0] = base
    BY <2>1, <1>2
  <2>5. ASSUME NEW i \in 1..n + 1 PROVE f[i] = F[i][f[i - 1]]
    <3>1. i - 1 \in 0..n /\ i - 1 # n + 1 /\ f[i - 1] = g[i - 1]
      BY <1>2
    <3>2. CASE i = n + 1
      <4>1. f[i] = F[n + 1][g[n]] /\ i - 1 = n
        BY <3>2, <1>2
      <4>. QED BY <3>1, <3>2, <4>1
    <3>3. CASE i # n + 1
      <4>1. i \in 1..n /\ f[i] = g[i]
        BY <3>3, <1>2
      <4>. QED BY <2>1, <3>1, <4>1
    <3>. QED BY <3>2, <3>3
  <2>6. n + 1 \in 0..N
    BY <1>2
  <2>. HIDE DEF f
  <2>7. Good(f, n + 1)
    BY <2>4, <2>5
  <2>. QED BY <2>3, <2>6, <2>7
<1>. HIDE DEF T
<1>3. N \in T
  <2>1. \A n \in 0..N : n \in T
    BY <1>1, <1>2, UpTo
  <2>. QED BY <2>1
<1>4. PICK f \in [0..N -> S] : Good(f, N)
  BY <1>3 DEF T
<1>5. Iterates(f, N, S, base, F)
  BY <1>4 DEF Iterates
<1>. QED BY <1>5

-----------------------------------------------------------------------------
(* What is left of a list that grows by one element after another.           *)

\* What holds of no elements, and of one more when it holds of some, holds of any.
LEMMA ByAppending ==
    ASSUME NEW Q, NEW T, <<>> \in T, \A s \in Seq(Q), e \in Q : s \in T => Append(s, e) \in T
    PROVE  Seq(Q) \subseteq T
<1>. SUFFICES ASSUME NEW seq \in Seq(Q) PROVE seq \in T
  OBVIOUS
<1>1. PICK N : N = Len(seq)
  OBVIOUS
<1>2. N \in Nat /\ DOMAIN seq = 1..N /\ \A i \in 1..N : seq[i] \in Q
  BY <1>1
<1>. DEFINE U == {k \in 0..N : SubSeq(seq, 1, k) \in T}
<1>3. 0 \in U
  <2>1. PICK none : none = SubSeq(seq, 1, 0)
    OBVIOUS
  <2>2. none = <<>>
    BY <2>1
  <2>3. none \in T
    BY <2>2
  <2>4. 0 \in 0..N
    BY <1>2
  <2>. QED BY <2>1, <2>3, <2>4
<1>4. ASSUME NEW k \in 0..N, k \in U, k < N PROVE k + 1 \in U
  <2>1. PICK a, b, e : a = SubSeq(seq, 1, k) /\ b = SubSeq(seq, 1, k + 1) /\ e = seq[k + 1]
    OBVIOUS
  <2>2. a \in Seq(Q) /\ Len(a) = k /\ \A i \in 1..k : a[i] = seq[i]
    BY <1>1, <1>2, <2>1
  <2>3. b \in Seq(Q) /\ Len(b) = k + 1 /\ \A i \in 1..k + 1 : b[i] = seq[i]
    BY <1>1, <1>2, <1>4, <2>1
  <2>4. e \in Q /\ k \in Nat
    BY <1>2, <1>4, <2>1
  <2>5. PICK d : d = Append(a, e)
    OBVIOUS
  <2>6. d \in Seq(Q) /\ Len(d) = k + 1 /\ \A i \in 1..k + 1 : d[i] = IF i <= k THEN a[i] ELSE e
    BY <2>2, <2>4, <2>5, Appended
  <2>7. \A i \in 1..k + 1 : d[i] = b[i]
    <3>1. \A i \in 1..k + 1 : (i <= k /\ i \in 1..k) \/ (i = k + 1 /\ ~(i <= k))
      BY <2>4
    <3>. QED BY <2>1, <2>2, <2>3, <2>6, <3>1
  <2>8. d = b
    BY <2>3, <2>4, <2>6, <2>7
  <2>9. a \in T
    BY <1>4, <2>1
  <2>10. b \in T
    BY <2>2, <2>4, <2>5, <2>8, <2>9
  <2>. QED BY <1>2, <1>4, <2>1, <2>10
<1>5. \A k \in 0..N : k \in U
  <2>. HIDE DEF U
  <2>. QED BY <1>2, <1>3, <1>4, UpTo
<1>6. PICK all : all = SubSeq(seq, 1, N)
  OBVIOUS
<1>7. all = seq
  BY <1>1, <1>6
<1>8. N \in U
  <2>. HIDE DEF U
  <2>. QED BY <1>2, <1>5
<1>. QED BY <1>6, <1>7, <1>8

\* Nothing is left of nothing.
LEMMA ThoseOfNothing == ASSUME NEW S PROVE Those(<<>>, S) = <<>>
<1>1. <<>> \in Seq({}) /\ ToSet(<<>>) \cap S = {}
  BY SetOfNone
<1>. QED BY <1>1, ThoseOfNone

\* All of it is left when all of it is in the set.
LEMMA ThoseOfAll ==
    ASSUME NEW Q, NEW seq \in Seq(Q), NEW S, Q \subseteq S
    PROVE  Those(seq, S) = seq
<1>. DEFINE T == {s \in Seq(Q) : Those(s, S) = s}
<1>1. <<>> \in T
  BY ThoseOfNothing
<1>2. ASSUME NEW s \in Seq(Q), NEW e \in Q, s \in T PROVE Append(s, e) \in T
  <2>1. Those(Append(s, e), S) = Append(Those(s, S), e)
    BY ThoseAppended
  <2>. QED BY <1>2, <2>1
<1>3. Seq(Q) \subseteq T
  <2>. HIDE DEF T
  <2>. QED BY <1>1, <1>2, ByAppending
<1>. QED BY <1>3

\* What is left of what is left.
LEMMA ThoseOfThose ==
    ASSUME NEW Q, NEW seq \in Seq(Q), NEW S, NEW T, S \subseteq T
    PROVE  Those(Those(seq, T), S) = Those(seq, S)
<1>. DEFINE U == {s \in Seq(Q) : Those(Those(s, T), S) = Those(s, S)}
<1>1. <<>> \in U
  BY ThoseOfNothing
<1>2. ASSUME NEW s \in Seq(Q), NEW e \in Q, s \in U PROVE Append(s, e) \in U
  <2>1. PICK t : t = Those(s, T)
    OBVIOUS
  <2>2. t \in Seq(Q)
    BY <2>1, ThoseOf
  <2>3. Those(Append(s, e), T) = IF e \in T THEN Append(t, e) ELSE t
    BY <2>1, ThoseAppended
  <2>4. Those(Append(s, e), S) = IF e \in S THEN Append(Those(s, S), e) ELSE Those(s, S)
    BY ThoseAppended
  <2>5. Those(Append(t, e), S) = IF e \in S THEN Append(Those(t, S), e) ELSE Those(t, S)
    BY <2>2, ThoseAppended
  <2>6. Those(t, S) = Those(s, S)
    BY <1>2, <2>1
  <2>7. PICK longer, u : longer = Append(s, e) /\ u = Those(longer, T)
    OBVIOUS
  <2>8. Those(u, S) = Those(longer, S)
    BY <2>3, <2>4, <2>5, <2>6, <2>7
  <2>9. longer \in Seq(Q)
    BY <2>7
  <2>. QED BY <2>7, <2>8, <2>9
<1>3. Seq(Q) \subseteq U
  <2>. HIDE DEF U
  <2>. QED BY <1>1, <1>2, ByAppending
<1>. QED BY <1>3

\* What is left is in the order that it was in.
StandsBefore(s, x, y) == \E i, j \in 1..Len(s) : i < j /\ s[i] = x /\ s[j] = y

LEMMA ThoseInOrder ==
    ASSUME NEW Q, NEW seq \in Seq(Q), NEW S, NEW x, NEW y, StandsBefore(Those(seq, S), x, y)
    PROVE  StandsBefore(seq, x, y)
<1>. DEFINE U == {s \in Seq(Q) : StandsBefore(Those(s, S), x, y) => StandsBefore(s, x, y)}
<1>1. <<>> \in U
  <2>1. Those(<<>>, S) = <<>> /\ Len(<<>>) = 0
    BY ThoseOfNothing
  <2>2. ~StandsBefore(<<>>, x, y)
    BY <2>1 DEF StandsBefore
  <2>. QED BY <2>1, <2>2
<1>2. ASSUME NEW s \in Seq(Q), NEW e \in Q, s \in U PROVE Append(s, e) \in U
  <2>1. PICK t, longer : t = Those(s, S) /\ longer = Append(s, e)
    OBVIOUS
  <2>2. /\ t \in Seq(Q) /\ \A i \in 1..Len(t) : \E k \in 1..Len(s) : s[k] = t[i]
    <3>1. t \in Seq(Q) /\ ToSet(t) = ToSet(s) \cap S
      BY <2>1, ThoseOf
    <3>2. \A i \in 1..Len(t) : t[i] \in ToSet(s)
      <4>1. \A i \in 1..Len(t) : t[i] \in ToSet(t)
        BY <3>1 DEF ToSet
      <4>. QED BY <3>1, <4>1
    <3>3. DOMAIN s = 1..Len(s)
      OBVIOUS
    <3>. QED BY <3>1, <3>2, <3>3 DEF ToSet
  <2>3. /\ longer \in Seq(Q) /\ Len(longer) = Len(s) + 1 /\ Len(s) \in Nat
        /\ longer[Len(s) + 1] = e /\ \A i \in 1..Len(s) : longer[i] = s[i]
    BY <2>1
  <2>4. StandsBefore(s, x, y) => StandsBefore(longer, x, y)
    <3>1. \A i \in 1..Len(s) : i \in 1..Len(longer)
      BY <2>3
    <3>. QED BY <2>3, <3>1 DEF StandsBefore
  <2>5. CASE e \notin S
    <3>1. Those(longer, S) = t
      BY <2>1, <2>5, ThoseAppended
    <3>. QED BY <1>2, <2>1, <2>3, <2>4, <3>1
  <2>6. CASE e \in S
    <3>1. Those(longer, S) = Append(t, e)
      BY <2>1, <2>6, ThoseAppended
    <3>2. PICK u : u = Append(t, e)
      OBVIOUS
    <3>3. /\ Len(t) \in Nat /\ Len(u) = Len(t) + 1 /\ u[Len(t) + 1] = e
          /\ \A i \in 1..Len(t) : u[i] = t[i]
      BY <2>2, <3>2
    <3>4. ASSUME StandsBefore(u, x, y) PROVE StandsBefore(longer, x, y)
      <4>1. PICK i \in 1..Len(u), j \in 1..Len(u) : i < j /\ u[i] = x /\ u[j] = y
        BY <3>4 DEF StandsBefore
      <4>2. i \in 1..Len(t)
        BY <3>3, <4>1
      <4>3. CASE j \in 1..Len(t)
        <5>1. StandsBefore(t, x, y)
          BY <3>3, <4>1, <4>2, <4>3 DEF StandsBefore
        <5>. QED BY <1>2, <2>1, <2>4, <5>1
      <4>4. CASE j \notin 1..Len(t)
        <5>1. j = Len(t) + 1 /\ y = e
          BY <3>3, <4>1, <4>4
        <5>2. PICK k \in 1..Len(s) : s[k] = x
          BY <2>2, <3>3, <4>1, <4>2
        <5>3. k \in 1..Len(longer) /\ Len(s) + 1 \in 1..Len(longer) /\ k < Len(s) + 1
          BY <2>3
        <5>4. longer[k] = x /\ longer[Len(s) + 1] = y
          BY <2>3, <5>1, <5>2
        <5>. QED BY <5>3, <5>4 DEF StandsBefore
      <4>. QED BY <4>3, <4>4
    <3>. QED BY <2>1, <2>3, <3>1, <3>2, <3>4
  <2>. QED BY <2>5, <2>6
<1>3. Seq(Q) \subseteq U
  <2>. HIDE DEF U
  <2>. QED BY <1>1, <1>2, ByAppending
<1>. QED BY <1>3

\* More elements, all of which are in the set, or none.
LEMMA ThoseJoined ==
    ASSUME NEW Q, NEW seq \in Seq(Q), NEW more \in Seq(Q), NEW S
    PROVE  /\ (\A i \in 1..Len(more) : more[i] \in S) => Those(seq \o more, S) = Those(seq, S) \o more
           /\ (\A i \in 1..Len(more) : more[i] \notin S) => Those(seq \o more, S) = Those(seq, S)
<1>. DEFINE In(s) == \A i \in 1..Len(s) : s[i] \in S
            Out(s) == \A i \in 1..Len(s) : s[i] \notin S
            U == {s \in Seq(Q) : /\ In(s) => Those(seq \o s, S) = Those(seq, S) \o s
                                 /\ Out(s) => Those(seq \o s, S) = Those(seq, S)}
<1>1. Those(seq, S) \in Seq(Q)
  BY ThoseOf
<1>2. <<>> \in U
  <2>1. PICK none : none = <<>>
    OBVIOUS
  <2>2. none \in Seq(Q) /\ seq \o none = seq
    BY <2>1
  <2>3. Those(seq, S) \o none = Those(seq, S)
    BY <1>1, <2>1
  <2>4. none \in U
    BY <2>2, <2>3
  <2>. HIDE DEF U
  <2>. QED BY <2>1, <2>4
<1>3. ASSUME NEW s \in Seq(Q), NEW e \in Q, s \in U PROVE Append(s, e) \in U
  <2>1. PICK longer, n : longer = Append(s, e) /\ n = Len(s)
    OBVIOUS
  <2>2. /\ longer \in Seq(Q) /\ n \in Nat /\ Len(longer) = n + 1 /\ longer[n + 1] = e
        /\ \A i \in 1..n : longer[i] = s[i]
    BY <2>1
  <2>3. PICK a, b : a = seq \o s /\ b = Those(seq, S)
    OBVIOUS
  <2>4. a \in Seq(Q) /\ b \in Seq(Q) /\ <<e>> \in Seq(Q)
    BY <1>1, <2>3
  <2>5. longer = s \o <<e>>
    BY <2>1, JoinedToNothing
  <2>6. seq \o longer = Append(a, e)
    <3>1. (seq \o s) \o <<e>> = seq \o (s \o <<e>>)
      BY <2>4, JoinedInTwo, SMTT(20)
    <3>2. Append(a, e) = a \o <<e>>
      BY <2>4, JoinedToNothing
    <3>. QED BY <2>3, <2>5, <3>1, <3>2
  <2>7. Those(seq \o longer, S) = IF e \in S THEN Append(Those(a, S), e) ELSE Those(a, S)
    BY <2>4, <2>6, ThoseAppended
  <2>8. \A i \in 1..n : i \in 1..n + 1
    BY <2>2
  <2>9. n + 1 \in 1..n + 1
    BY <2>2
  <2>10. (In(longer) => In(s) /\ e \in S) /\ (Out(longer) => Out(s) /\ e \notin S)
    BY <2>1, <2>2, <2>8, <2>9
  <2>11. ASSUME In(longer) PROVE Those(seq \o longer, S) = b \o longer
    <3>1. Those(a, S) = b \o s /\ e \in S
      BY <1>3, <2>3, <2>10, <2>11
    <3>2. Append(b \o s, e) = (b \o s) \o <<e>>
      <4>1. b \o s \in Seq(Q)
        BY <2>4
      <4>. QED BY <4>1, JoinedToNothing
    <3>3. (b \o s) \o <<e>> = b \o (s \o <<e>>)
      BY <2>4, JoinedInTwo
    <3>. QED BY <2>5, <2>7, <3>1, <3>2, <3>3
  <2>12. ASSUME Out(longer) PROVE Those(seq \o longer, S) = b
    BY <1>3, <2>3, <2>7, <2>10, <2>12
  <2>. HIDE DEF In, Out
  <2>. QED BY <2>1, <2>2, <2>3, <2>11, <2>12
<1>4. Seq(Q) \subseteq U
  <2>. HIDE DEF U
  <2>. QED BY <1>2, <1>3, ByAppending
<1>. QED BY <1>4
=============================================================================
