------------------------ MODULE Http2Streams_proofs ------------------------
(***************************************************************************)
(* Proofs about what the streams of HTTP/2 are made of: Http2Priority, for *)
(* any streams and any steps that the peer takes in the order it may take  *)
(* them in, the dependencies making no cycle and an exclusive one taking   *)
(* what it stands over; and Http2Message, for any fields in any order, a   *)
(* block of them being either told as a whole message or refused.          *)
(***************************************************************************)
EXTENDS Http2Priority, Http2Message, ListLemmas

-----------------------------------------------------------------------------
(***************************************************************************)
(* What is above a stream, without the walks that the code finds it by: a  *)
(* set of open streams is closed when what each of them depends on is in   *)
(* it too, unless that is not open.                                        *)
(***************************************************************************)
ClosedAbove(dep, up, C) == \A c \in C : dep[c] \in up => dep[c] \in C
Reaches(dep, up, x, y) ==
    x \in up /\ y \in up /\ \A C \in SUBSET up : ClosedAbove(dep, up, C) /\ x \in C => y \in C

\* Of some open streams one does not depend on another of them.
NoCycle(dep, up) == \A X \in SUBSET up : X # {} => \E x \in X : dep[x] \notin X

\* A stream is reached from itself, and whatever is reached from another is reached from
\* what depends on that.
LEMMA ReachesFrom ==
    ASSUME NEW dep, NEW up, NEW x \in up
    PROVE  /\ Reaches(dep, up, x, x)
           /\ dep[x] \in up => Reaches(dep, up, x, dep[x])
           /\ \A y, z : Reaches(dep, up, x, y) /\ Reaches(dep, up, y, z) => Reaches(dep, up, x, z)
<1>1. Reaches(dep, up, x, x)
  BY DEF Reaches
<1>2. dep[x] \in up => Reaches(dep, up, x, dep[x])
  BY DEF Reaches, ClosedAbove
<1>3. \A y, z : Reaches(dep, up, x, y) /\ Reaches(dep, up, y, z) => Reaches(dep, up, x, z)
  BY DEF Reaches
<1>. QED BY <1>1, <1>2, <1>3

\* A stream that is reached from another is that one, or is reached from what that one
\* depends on.
LEMMA ReachesNext ==
    ASSUME NEW dep, NEW up, NEW x, NEW y, Reaches(dep, up, x, y), x # y
    PROVE  dep[x] \in up /\ Reaches(dep, up, dep[x], y)
<1>1. x \in up /\ y \in up
  BY DEF Reaches
<1>2. dep[x] \in up
  <2>1. SUFFICES ASSUME dep[x] \notin up PROVE FALSE
    OBVIOUS
  <2>2. ClosedAbove(dep, up, {x}) /\ {x} \in SUBSET up /\ x \in {x} /\ y \notin {x}
    BY <1>1, <2>1 DEF ClosedAbove
  <2>. QED BY <2>2 DEF Reaches
<1>3. ASSUME NEW C \in SUBSET up, ClosedAbove(dep, up, C), dep[x] \in C PROVE y \in C
  <2>1. ClosedAbove(dep, up, C \cup {x}) /\ C \cup {x} \in SUBSET up
    BY <1>1, <1>3 DEF ClosedAbove
  <2>. QED BY <2>1 DEF Reaches
<1>. QED BY <1>1, <1>2, <1>3 DEF Reaches

\* What reaches one of some streams, each of which is reached from what it depends on,
\* would be a cycle.
LEMMA NoneReachesAll ==
    ASSUME NEW dep, NEW up, NoCycle(dep, up), NEW H \in SUBSET up, H # {}
    PROVE  \E h \in H : ~ (dep[h] \in up /\ \E g \in H : Reaches(dep, up, dep[h], g))
<1>1. SUFFICES ASSUME \A h \in H : dep[h] \in up /\ \E g \in H : Reaches(dep, up, dep[h], g)
               PROVE  FALSE
  OBVIOUS
<1>. DEFINE X == {x \in up : \E h \in H : Reaches(dep, up, x, h)}
<1>2. X \in SUBSET up
  OBVIOUS
<1>3. X # {}
  <2>1. PICK h \in H : h \in up
    OBVIOUS
  <2>2. Reaches(dep, up, h, h)
    BY <2>1, ReachesFrom
  <2>. QED BY <2>1, <2>2
<1>4. ASSUME NEW x \in X PROVE dep[x] \in X
  <2>1. PICK h \in H : Reaches(dep, up, x, h)
    OBVIOUS
  <2>2. CASE x = h
    BY <1>1, <2>2
  <2>3. CASE x # h
    <3>1. dep[x] \in up /\ Reaches(dep, up, dep[x], h)
      BY <2>1, <2>3, ReachesNext
    <3>. QED BY <3>1
  <2>. QED BY <2>2, <2>3
<1>. HIDE DEF X
<1>. QED BY <1>2, <1>3, <1>4 DEF NoCycle

\* No stream is above itself.
LEMMA NoneAboveItself ==
    ASSUME NEW dep, NEW up, NoCycle(dep, up), NEW s \in up, dep[s] \in up
    PROVE  ~ Reaches(dep, up, dep[s], s)
<1>1. {s} \in SUBSET up /\ {s} # {}
  OBVIOUS
<1>2. \E h \in {s} : ~ (dep[h] \in up /\ \E g \in {s} : Reaches(dep, up, dep[h], g))
  <2>1. PICK H : H = {s}
    OBVIOUS
  <2>2. \E h \in H : ~ (dep[h] \in up /\ \E g \in H : Reaches(dep, up, dep[h], g))
    BY <1>1, <2>1, NoneReachesAll
  <2>. QED BY <2>1, <2>2
<1>. QED BY <1>2

-----------------------------------------------------------------------------
(* The walk of the code.                                                     *)

\* A walk up from a stream, step by step.
Follows(w, dep, up, id) ==
    \A n \in 0..Cardinality(up) :
       w[n] = IF n = 0 THEN id ELSE IF w[n - 1] \in up THEN dep[w[n - 1]] ELSE 0

\* The walk is what it is defined to be.
LEMMA WalkIs ==
    ASSUME NEW dep, NEW up, IsFiniteSet(up), NEW id
    PROVE  Follows(Walk(dep, up, id), dep, up, id)
<1>. DEFINE N == Cardinality(up)
            U == up \cup {id, 0} \cup {dep[x] : x \in up}
            G == [x \in U |-> IF x \in up THEN dep[x] ELSE 0]
            F == [i \in 1..N |-> G]
            IsWalk(w) == w = [n \in 0..N |-> IF n = 0 THEN id
                                             ELSE IF w[n - 1] \in up THEN dep[w[n - 1]] ELSE 0]
<1>1. N \in Nat
  BY FS_CardinalityType
<1>2. id \in U /\ F \in [1..N -> [U -> U]]
  OBVIOUS
<1>3. PICK f : Iterates(f, N, U, id, F)
  <2>. HIDE DEF N, U, F
  <2>. QED BY <1>1, <1>2, IterationExists
<1>4. IsWalk(f)
  <2>1. ASSUME NEW i \in 1..N PROVE f[i] = IF f[i - 1] \in up THEN dep[f[i - 1]] ELSE 0
    <3>1. i - 1 \in 0..N
      BY <1>1
    <3>2. f[i - 1] \in U /\ f[i] = G[f[i - 1]]
      BY <1>3, <3>1 DEF Iterates
    <3>. QED BY <3>2
  <2>2. f = [n \in 0..N |-> f[n]]
    BY <1>3 DEF Iterates
  <2>3. \A n \in 0..N : f[n] = IF n = 0 THEN id
                              ELSE IF f[n - 1] \in up THEN dep[f[n - 1]] ELSE 0
    BY <1>1, <1>3, <2>1 DEF Iterates
  <2>. HIDE DEF N
  <2>. QED BY <2>2, <2>3
<1>5. Walk(dep, up, id) = CHOOSE w : IsWalk(w)
  BY DEF Walk
<1>6. IsWalk(Walk(dep, up, id))
  <2>. HIDE DEF IsWalk
  <2>. QED BY <1>4, <1>5
<1>7. PICK w : w = Walk(dep, up, id)
  OBVIOUS
<1>8. w = [n \in 0..N |-> IF n = 0 THEN id ELSE IF w[n - 1] \in up THEN dep[w[n - 1]] ELSE 0]
  BY <1>6, <1>7
<1>9. \A n \in 0..N : w[n] = IF n = 0 THEN id ELSE IF w[n - 1] \in up THEN dep[w[n - 1]] ELSE 0
  <2>. HIDE DEF N
  <2>. QED BY <1>8
<1>. QED BY <1>7, <1>9 DEF Follows

\* The streams that the walk of the code visits are above the one it starts at.
LEMMA WalkReaches ==
    ASSUME NEW dep, NEW up, IsFiniteSet(up), 0 \notin up, NEW id
    PROVE  \A n \in 0..Cardinality(up) :
              Walk(dep, up, id)[n] \in up =>
                 /\ Reaches(dep, up, id, Walk(dep, up, id)[n])
                 /\ n # 0 => dep[id] \in up /\ Reaches(dep, up, dep[id], Walk(dep, up, id)[n])
<1>1. PICK N, w : N = Cardinality(up) /\ w = Walk(dep, up, id)
  OBVIOUS
<1>2. N \in Nat
  BY <1>1, FS_CardinalityType
<1>3. \A n \in 0..N : w[n] = IF n = 0 THEN id ELSE IF w[n - 1] \in up THEN dep[w[n - 1]] ELSE 0
  <2>1. Follows(Walk(dep, up, id), dep, up, id)
    BY WalkIs
  <2>. QED BY <1>1, <2>1 DEF Follows
<1>. DEFINE Good(n) == w[n] \in up =>
                         /\ Reaches(dep, up, id, w[n])
                         /\ n # 0 => dep[id] \in up /\ Reaches(dep, up, dep[id], w[n])
            S == {n \in 0..N : Good(n)}
<1>4. 0 \in S
  <2>1. 0 \in 0..N /\ w[0] = id
    BY <1>2, <1>3
  <2>2. Good(0)
    BY <2>1, ReachesFrom
  <2>. QED BY <2>1, <2>2
<1>5. ASSUME NEW n \in 0..N, n \in S, n < N PROVE n + 1 \in S
  <2>1. n + 1 \in 0..N /\ n + 1 # 0 /\ (n + 1) - 1 = n
    BY <1>2, <1>5
  <2>2. w[n + 1] = IF w[n] \in up THEN dep[w[n]] ELSE 0
    BY <1>3, <2>1
  <2>3. ASSUME w[n + 1] \in up
        PROVE  /\ Reaches(dep, up, id, w[n + 1])
               /\ dep[id] \in up /\ Reaches(dep, up, dep[id], w[n + 1])
    <3>1. w[n] \in up /\ w[n + 1] = dep[w[n]]
      BY <2>2, <2>3
    <3>2. Good(n)
      BY <1>5
    <3>3. Reaches(dep, up, w[n], w[n + 1])
      BY <3>1, <2>3, ReachesFrom
    <3>4. id \in up
      BY <3>1, <3>2 DEF Reaches
    <3>5. Reaches(dep, up, id, w[n + 1])
      BY <3>1, <3>2, <3>3, <3>4, ReachesFrom
    <3>6. CASE n = 0
      <4>1. w[n] = id
        BY <1>3, <3>6
      <4>. QED BY <3>1, <3>5, <2>3, <4>1, ReachesFrom
    <3>7. CASE n # 0
      <4>1. dep[id] \in up /\ Reaches(dep, up, dep[id], w[n])
        BY <3>1, <3>2, <3>7
      <4>. QED BY <4>1, <3>3, <3>5, ReachesFrom
    <3>. QED BY <3>6, <3>7
  <2>. QED BY <2>1, <2>3
<1>6. \A n \in 0..N : n \in S
  <2>. HIDE DEF S
  <2>. QED BY <1>2, <1>4, <1>5, UpTo
<1>. QED BY <1>1, <1>6

\* Where nothing is above itself, the walk has left the open streams by its last step.
LEMMA WalkEnds ==
    ASSUME NEW dep, NEW up, IsFiniteSet(up), 0 \notin up, NEW id, NoCycle(dep, up)
    PROVE  Walk(dep, up, id)[Cardinality(up)] \notin up
<1>1. PICK N, w : N = Cardinality(up) /\ w = Walk(dep, up, id)
  OBVIOUS
<1>2. N \in Nat
  BY <1>1, FS_CardinalityType
<1>3. \A n \in 0..N : w[n] = IF n = 0 THEN id ELSE IF w[n - 1] \in up THEN dep[w[n - 1]] ELSE 0
  <2>1. Follows(Walk(dep, up, id), dep, up, id)
    BY WalkIs
  <2>. QED BY <1>1, <2>1 DEF Follows
<1>4. SUFFICES ASSUME w[N] \in up PROVE FALSE
  BY <1>1
<1>5. \A k \in 0..N : w[k] \in up
  <2>1. SUFFICES ASSUME NEW k \in 0..N, w[k] \notin up PROVE FALSE
    OBVIOUS
  <2>. DEFINE S == {n \in 0..N : k <= n => w[n] \notin up}
  <2>2. 0 \in S
    BY <1>2, <2>1
  <2>3. ASSUME NEW n \in 0..N, n \in S, n < N PROVE n + 1 \in S
    <3>1. n + 1 \in 0..N /\ (n + 1) - 1 = n /\ n + 1 # 0
      BY <1>2, <2>3
    <3>2. w[n + 1] = IF w[n] \in up THEN dep[w[n]] ELSE 0
      BY <1>3, <3>1
    <3>3. CASE k <= n
      BY <2>3, <3>1, <3>2, <3>3
    <3>4. CASE ~ (k <= n)
      <4>1. k <= n + 1 => k = n + 1
        BY <3>4
      <4>. QED BY <4>1, <2>1, <3>1
    <3>. QED BY <3>3, <3>4
  <2>4. \A n \in 0..N : n \in S
    <3>. HIDE DEF S
    <3>. QED BY <1>2, <2>2, <2>3, UpTo
  <2>5. N \in 0..N /\ k <= N
    BY <1>2
  <2>. QED BY <2>4, <2>5, <1>4
<1>6. PICK i \in 0..N, j \in 0..N : i < j /\ w[i] = w[j]
  <2>. DEFINE f == [n \in 0..N |-> w[n]]
              D == 0..N
  <2>1. IsFiniteSet(D) /\ Cardinality(D) = N + 1
    BY <1>2, FS_Interval
  <2>2. f \in [D -> up]
    BY <1>5
  <2>3. Cardinality(up) < Cardinality(D)
    BY <1>1, <1>2, <2>1
  <2>4. \E x, y \in D : x # y /\ f[x] = f[y]
    <3>. HIDE DEF f, D
    <3>. QED BY <2>1, <2>2, <2>3, FS_PigeonHole
  <2>5. PICK x \in D, y \in D : x # y /\ f[x] = f[y]
    BY <2>4
  <2>6. CASE x < y
    BY <2>5, <2>6
  <2>7. CASE ~ (x < y)
    <3>1. y < x
      BY <2>5, <2>7
    <3>. QED BY <2>5, <3>1
  <2>. QED BY <2>6, <2>7
<1>. DEFINE X == {w[k] : k \in i..j - 1}
<1>7. X \in SUBSET up /\ X # {}
  <2>1. i \in i..j - 1 /\ i..j - 1 \subseteq 0..N
    BY <1>2, <1>6
  <2>. QED BY <1>5, <2>1
<1>8. ASSUME NEW k \in i..j - 1 PROVE dep[w[k]] \in X
  <2>1. k \in 0..N /\ k + 1 \in 0..N /\ (k + 1) - 1 = k /\ k + 1 # 0
    BY <1>2, <1>6
  <2>2. w[k + 1] = dep[w[k]]
    BY <1>3, <1>5, <2>1
  <2>3. CASE k + 1 = j
    <3>1. i \in i..j - 1
      BY <1>6
    <3>. QED BY <1>6, <2>2, <2>3, <3>1
  <2>4. CASE k + 1 # j
    <3>1. k + 1 \in i..j - 1
      BY <2>4
    <3>. QED BY <2>2, <3>1
  <2>. QED BY <2>3, <2>4
<1>9. \A x \in X : dep[x] \in X
  BY <1>8
<1>. HIDE DEF X
<1>. QED BY <1>7, <1>9 DEF NoCycle

\* Every stream that is above another is one the walk from that visits.
LEMMA ReachedByWalk ==
    ASSUME NEW dep, NEW up, IsFiniteSet(up), 0 \notin up, NEW id, NoCycle(dep, up),
           NEW y, Reaches(dep, up, id, y)
    PROVE  \E n \in 0..Cardinality(up) - 1 : Walk(dep, up, id)[n] = y
<1>1. PICK N, w : N = Cardinality(up) /\ w = Walk(dep, up, id)
  OBVIOUS
<1>2. N \in Nat
  BY <1>1, FS_CardinalityType
<1>3. \A n \in 0..N : w[n] = IF n = 0 THEN id ELSE IF w[n - 1] \in up THEN dep[w[n - 1]] ELSE 0
  <2>1. Follows(Walk(dep, up, id), dep, up, id)
    BY WalkIs
  <2>. QED BY <1>1, <2>1 DEF Follows
<1>4. w[N] \notin up
  BY <1>1, WalkEnds
<1>. DEFINE C == {w[n] : n \in 0..N} \cap up
<1>5. ClosedAbove(dep, up, C)
  <2>1. SUFFICES ASSUME NEW n \in 0..N, w[n] \in up, dep[w[n]] \in up PROVE dep[w[n]] \in C
    BY DEF ClosedAbove
  <2>2. n # N
    BY <1>4, <2>1
  <2>3. n + 1 \in 0..N /\ n + 1 # 0 /\ (n + 1) - 1 = n
    BY <1>2, <2>2
  <2>4. w[n + 1] = dep[w[n]]
    BY <1>3, <2>1, <2>3
  <2>. QED BY <2>1, <2>3, <2>4
<1>6. id \in C
  <2>1. 0 \in 0..N /\ w[0] = id
    BY <1>2, <1>3
  <2>. QED BY <2>1 DEF Reaches
<1>7. y \in C
  BY <1>5, <1>6 DEF Reaches
<1>8. PICK n \in 0..N : w[n] = y /\ y \in up
  BY <1>7
<1>9. n \in 0..N - 1
  BY <1>2, <1>4, <1>8
<1>. QED BY <1>1, <1>8, <1>9

\* What the code asks before it moves a stream is whether one is above another.
LEMMA DescendsIs ==
    ASSUME NEW dep, NEW up, IsFiniteSet(up), 0 \notin up, NEW id, NoCycle(dep, up), NEW a \in up
    PROVE  Descends(dep, up, id, a) <=> Reaches(dep, up, id, a)
<1>1. ASSUME Descends(dep, up, id, a) PROVE Reaches(dep, up, id, a)
  <2>1. PICK n \in 0..Cardinality(up) - 1 : Walk(dep, up, id)[n] = a
    BY <1>1 DEF Descends
  <2>2. n \in 0..Cardinality(up)
    BY FS_CardinalityType
  <2>. QED BY <2>1, <2>2, WalkReaches
<1>2. ASSUME Reaches(dep, up, id, a) PROVE Descends(dep, up, id, a)
  BY <1>2, ReachedByWalk DEF Descends
<1>. QED BY <1>1, <1>2
-----------------------------------------------------------------------------
\* The streams above one.
Above(dep, up, s) == {t \in up : dep[s] \in up /\ Reaches(dep, up, dep[s], t)}

\* The closure that the properties speak of finds the same streams.
LEMMA AncestorsAre ==
    ASSUME NEW dep, NEW up, IsFiniteSet(up), 0 \notin up, NEW s \in up, NoCycle(dep, up)
    PROVE  Ancestors(dep, up, s) = Above(dep, up, s)
<1>1. PICK N : N = Cardinality(up) /\ N \in Nat
  BY FS_CardinalityType
<1>. DEFINE Grown(X) == X \cup Parents(dep, up, X \cup {s})
            G == [X \in SUBSET up |-> Grown(X)]
            F == [i \in 1..N |-> G]
            IsAbove(f) == f = [n \in 0..N |-> IF n = 0 THEN {}
                                 ELSE LET X == f[n - 1] IN X \cup Parents(dep, up, X \cup {s})]
            f == CHOOSE f : IsAbove(f)
<1>2. F \in [1..N -> [SUBSET up -> SUBSET up]]
  BY DEF Parents
<1>3. PICK g : Iterates(g, N, SUBSET up, {}, F)
  <2>1. {} \in SUBSET up
    OBVIOUS
  <2>. HIDE DEF F
  <2>. QED BY <1>1, <1>2, <2>1, IterationExists
<1>4. /\ g \in [0..N -> SUBSET up] /\ g[0] = {}
      /\ \A n \in 1..N : g[n] = F[n][g[n - 1]]
  BY <1>3 DEF Iterates
<1>5. \A n \in 1..N : n - 1 \in 0..N /\ n \in 0..N
  BY <1>1
<1>6. \A n \in 1..N : g[n] = Grown(g[n - 1])
  <2>1. SUFFICES ASSUME NEW n \in 1..N PROVE g[n] = Grown(g[n - 1])
    OBVIOUS
  <2>2. g[n - 1] \in SUBSET up
    BY <1>4, <1>5
  <2>3. F[n] = G /\ G[g[n - 1]] = Grown(g[n - 1])
    BY <2>2
  <2>4. g[n] = F[n][g[n - 1]]
    BY <1>4
  <2>. QED BY <2>3, <2>4
<1>7. IsAbove(g)
  <2>1. \A n \in 0..N : g[n] = IF n = 0 THEN {} ELSE Grown(g[n - 1])
    <3>1. \A n \in 0..N : n # 0 => n \in 1..N
      BY <1>1
    <3>. HIDE DEF Grown
    <3>. QED BY <1>4, <1>6, <3>1
  <2>2. g = [n \in 0..N |-> g[n]]
    BY <1>4
  <2>. QED BY <2>1, <2>2
<1>8. IsAbove(f)
  <2>. HIDE DEF IsAbove
  <2>. QED BY <1>7
<1>9. Ancestors(dep, up, s) = f[N]
  BY <1>1 DEF Ancestors
<1>. HIDE DEF f
<1>10. /\ f[0] = {}
       /\ \A n \in 1..N : f[n] = f[n - 1] \cup Parents(dep, up, f[n - 1] \cup {s})
  <2>1. f = [n \in 0..N |-> IF n = 0 THEN {}
                             ELSE LET X == f[n - 1] IN X \cup Parents(dep, up, X \cup {s})]
    BY <1>8
  <2>2. 0 \in 0..N /\ \A n \in 1..N : n \in 0..N /\ n # 0
    BY <1>1
  <2>3. \A n \in 0..N : f[n] = IF n = 0 THEN {}
                          ELSE LET X == f[n - 1] IN X \cup Parents(dep, up, X \cup {s})
    BY <2>1
  <2>. QED BY <2>2, <2>3
<1>. HIDE DEF IsAbove, F, G, Grown
<1>. DEFINE A == Above(dep, up, s)
<1>11. f[N] \subseteq A
  <2>. DEFINE S == {n \in 0..N : f[n] \subseteq A}
  <2>1. 0 \in S
    BY <1>1, <1>10
  <2>2. ASSUME NEW n \in 0..N, n \in S, n < N PROVE n + 1 \in S
    <3>1. n + 1 \in 1..N /\ n + 1 \in 0..N /\ (n + 1) - 1 = n
      BY <1>1, <2>2
    <3>2. f[n + 1] = f[n] \cup Parents(dep, up, f[n] \cup {s})
      BY <1>10, <3>1
    <3>3. ASSUME NEW x \in f[n] \cup {s}, x \in up, dep[x] \in up PROVE dep[x] \in A
      <4>1. CASE x = s
        BY <3>3, <4>1, ReachesFrom DEF Above
      <4>2. CASE x \in f[n]
        <5>1. dep[s] \in up /\ Reaches(dep, up, dep[s], x)
          BY <2>2, <4>2 DEF Above
        <5>2. Reaches(dep, up, x, dep[x])
          BY <3>3, ReachesFrom
        <5>3. Reaches(dep, up, dep[s], dep[x])
          BY <5>1, <5>2, ReachesFrom
        <5>. QED BY <3>3, <5>1, <5>3 DEF Above
      <4>. QED BY <3>3, <4>1, <4>2
    <3>4. Parents(dep, up, f[n] \cup {s}) \subseteq A
      BY <3>3 DEF Parents
    <3>. QED BY <2>2, <3>1, <3>2, <3>4
  <2>3. \A n \in 0..N : n \in S
    <3>. HIDE DEF S
    <3>. QED BY <1>1, <2>1, <2>2, UpTo
  <2>. QED BY <1>1, <2>3
<1>12. A \subseteq f[N]
  <2>1. SUFFICES ASSUME NEW t \in A PROVE t \in f[N]
    OBVIOUS
  <2>2. dep[s] \in up /\ Reaches(dep, up, dep[s], t) /\ t \in up
    BY <2>1 DEF Above
  <2>3. PICK w : w = Walk(dep, up, dep[s])
    OBVIOUS
  <2>4. \A n \in 0..N : w[n] = IF n = 0 THEN dep[s]
                              ELSE IF w[n - 1] \in up THEN dep[w[n - 1]] ELSE 0
    <3>1. Follows(Walk(dep, up, dep[s]), dep, up, dep[s])
      BY WalkIs
    <3>. QED BY <1>1, <2>3, <3>1 DEF Follows
  <2>5. PICK k \in 0..N - 1 : w[k] = t
    BY <1>1, <2>2, <2>3, ReachedByWalk
  <2>. DEFINE S == {n \in 0..N : \A m \in 0..n - 1 : w[m] \in up => w[m] \in f[n]}
  <2>6. 0 \in S
    BY <1>1
  <2>7. ASSUME NEW n \in 0..N, n \in S, n < N PROVE n + 1 \in S
    <3>1. n + 1 \in 1..N /\ n + 1 \in 0..N /\ (n + 1) - 1 = n
      BY <1>1, <2>7
    <3>2. f[n + 1] = f[n] \cup Parents(dep, up, f[n] \cup {s})
      BY <1>10, <3>1
    <3>3. ASSUME NEW m \in 0..n, w[m] \in up PROVE w[m] \in f[n + 1]
      <4>1. CASE m = n
        <5>1. CASE n = 0
          <6>1. w[m] = dep[s]
            BY <2>4, <4>1, <5>1
          <6>. QED BY <2>2, <3>2, <6>1 DEF Parents
        <5>2. CASE n # 0
          <6>1. n - 1 \in 0..n - 1 /\ w[n] = IF w[n - 1] \in up THEN dep[w[n - 1]] ELSE 0
            BY <2>4, <5>2
          <6>2. w[n - 1] \in up /\ w[n] = dep[w[n - 1]]
            BY <3>3, <4>1, <6>1
          <6>3. w[n - 1] \in f[n]
            BY <2>7, <6>1, <6>2
          <6>. QED BY <3>2, <3>3, <4>1, <6>2, <6>3 DEF Parents
        <5>. QED BY <5>1, <5>2
      <4>2. CASE m # n
        <5>1. m \in 0..n - 1
          BY <4>2
        <5>. QED BY <2>7, <3>2, <3>3, <5>1
      <4>. QED BY <4>1, <4>2
    <3>. QED BY <3>1, <3>3
  <2>8. \A n \in 0..N : n \in S
    <3>. HIDE DEF S
    <3>. QED BY <1>1, <2>6, <2>7, UpTo
  <2>9. N \in S
    BY <1>1, <2>8
  <2>. QED BY <2>2, <2>5, <2>9
<1>. QED BY <1>9, <1>11, <1>12

\* A stream that is moved under another makes no cycle: when the other is below it, that
\* one takes the place of the stream first.
LEMMA PrioritiseKeeps ==
    ASSUME NEW D, NEW V, NEW dep \in [D -> V], NEW up \in SUBSET D, IsFiniteSet(up),
           0 \notin up, NoCycle(dep, up), NEW s \in up, NEW d, d # s, NEW exclusive
    PROVE  NoCycle(Prioritise(dep, up, s, d, exclusive), up)
<1>. DEFINE l == IF Descends(dep, up, d, s) THEN [dep EXCEPT ![d] = dep[s]] ELSE dep
            adopted == {x \in up \ {s} : exclusive /\ l[x] = d}
            new == [x \in D |-> IF x = s THEN d ELSE IF x \in adopted THEN s ELSE l[x]]
<1>1. new = Prioritise(dep, up, s, d, exclusive)
  BY DEF Prioritise
<1>2. Descends(dep, up, d, s) <=> Reaches(dep, up, d, s)
  BY DescendsIs
<1>3. NoCycle(l, up) /\ ~ Reaches(l, up, d, s)
  <2>1. CASE ~ Descends(dep, up, d, s)
    BY <1>2, <2>1
  <2>2. CASE Descends(dep, up, d, s)
    <3>1. l = [dep EXCEPT ![d] = dep[s]]
      BY <2>2
    <3>2. Reaches(dep, up, d, s) /\ d \in up /\ d \in D
      BY <1>2, <2>2 DEF Reaches
    <3>3. l[d] = dep[s] /\ \A x \in up : x # d => l[x] = dep[x]
      BY <3>1, <3>2
    <3>. HIDE DEF l
    <3>4. ASSUME NEW X \in SUBSET up, X # {}, \A x \in X : l[x] \in X PROVE FALSE
      <4>. DEFINE Y == {y \in up : y \in X \/ (d \in X /\ Reaches(dep, up, d, y) /\ Reaches(dep, up, y, s))}
      <4>1. Y \in SUBSET up /\ Y # {}
        BY <3>4
      <4>2. ASSUME NEW y \in Y PROVE dep[y] \in Y
        <5>1. CASE d \in X /\ Reaches(dep, up, d, y) /\ Reaches(dep, up, y, s)
          <6>1. CASE y = s
            <7>1. dep[s] \in X
              BY <3>3, <3>4, <5>1
            <7>. QED BY <6>1, <7>1
          <6>2. CASE y # s
            <7>1. dep[y] \in up /\ Reaches(dep, up, dep[y], s)
              BY <5>1, <6>2, ReachesNext
            <7>2. Reaches(dep, up, y, dep[y])
              BY <7>1, ReachesFrom
            <7>3. Reaches(dep, up, d, dep[y])
              BY <3>2, <5>1, <7>2, ReachesFrom
            <7>. QED BY <5>1, <7>1, <7>3
          <6>. QED BY <6>1, <6>2
        <5>2. CASE y \in X
          <6>1. CASE y = d
            <7>1. Reaches(dep, up, d, d)
              BY <3>2, ReachesFrom
            <7>. QED BY <3>2, <5>1, <5>2, <6>1, <7>1
          <6>2. CASE y # d
            <7>1. l[y] = dep[y] /\ l[y] \in X
              BY <3>3, <3>4, <5>2, <6>2
            <7>. QED BY <7>1
          <6>. QED BY <6>1, <6>2
        <5>. QED BY <5>1, <5>2
      <4>. HIDE DEF Y
      <4>. QED BY <4>1, <4>2 DEF NoCycle
    <3>5. NoCycle(l, up)
      BY <3>4 DEF NoCycle
    <3>. DEFINE C == {z \in up : z = d \/ (dep[s] \in up /\ Reaches(dep, up, dep[s], z))}
    <3>6. ClosedAbove(l, up, C)
      <4>1. SUFFICES ASSUME NEW c \in C, l[c] \in up PROVE l[c] \in C
        BY DEF ClosedAbove
      <4>2. CASE c = d
        <5>1. l[c] = dep[s]
          BY <3>3, <4>2
        <5>. QED BY <4>1, <5>1, ReachesFrom
      <4>3. CASE c # d
        <5>1. l[c] = dep[c] /\ dep[s] \in up /\ Reaches(dep, up, dep[s], c) /\ c \in up
          BY <3>3, <4>3
        <5>2. Reaches(dep, up, c, dep[c])
          BY <4>1, <5>1, ReachesFrom
        <5>3. Reaches(dep, up, dep[s], dep[c])
          BY <5>1, <5>2, ReachesFrom
        <5>. QED BY <4>1, <5>1, <5>3
      <4>. QED BY <4>2, <4>3
    <3>7. s \notin C
      <4>1. dep[s] \in up => ~ Reaches(dep, up, dep[s], s)
        BY NoneAboveItself
      <4>. QED BY <4>1
    <3>8. d \in C /\ C \in SUBSET up
      BY <3>2
    <3>. HIDE DEF C
    <3>. QED BY <3>5, <3>6, <3>7, <3>8 DEF Reaches
  <2>. QED BY <2>1, <2>2
<1>4. DOMAIN l = D /\ \A x \in D : new[x] = IF x = s THEN d ELSE IF x \in adopted THEN s ELSE l[x]
  OBVIOUS
<1>. HIDE DEF l, new
<1>5. SUFFICES ASSUME NEW X \in SUBSET up, X # {}, \A x \in X : new[x] \in X PROVE FALSE
  BY <1>1 DEF NoCycle
<1>6. CASE s \notin X
  <2>1. ASSUME NEW x \in X PROVE l[x] \in X
    <3>1. x # s /\ x \in D /\ new[x] \in X
      BY <1>5, <1>6
    <3>2. x \notin adopted
      <4>1. x \in adopted => new[x] = s
        BY <1>4, <3>1
      <4>. QED BY <1>6, <3>1, <4>1
    <3>3. new[x] = l[x]
      BY <1>4, <3>1, <3>2
    <3>. QED BY <3>1, <3>3
  <2>. QED BY <1>3, <1>5, <2>1 DEF NoCycle
<1>7. CASE s \in X
  <2>. DEFINE Y == {y \in X : ~ Reaches(l, up, y, s)}
  <2>1. d \in X
    BY <1>4, <1>5, <1>7
  <2>2. d \in Y /\ Y \in SUBSET up
    BY <1>3, <2>1
  <2>3. ASSUME NEW y \in Y PROVE l[y] \in Y
    <3>1. y # s
      BY ReachesFrom
    <3>2. CASE y \in adopted
      BY <2>2, <3>2
    <3>3. CASE y \notin adopted
      <4>1. new[y] = l[y] /\ l[y] \in X
        BY <1>4, <1>5, <3>1, <3>3
      <4>2. l[y] \in up /\ Reaches(l, up, y, l[y])
        BY <4>1, ReachesFrom
      <4>3. ~ Reaches(l, up, l[y], s)
        BY <4>2, ReachesFrom
      <4>. QED BY <4>1, <4>3
    <3>. QED BY <3>2, <3>3
  <2>4. Y # {}
    BY <2>2
  <2>. HIDE DEF Y
  <2>. QED BY <1>3, <2>2, <2>3, <2>4 DEF NoCycle
<1>. QED BY <1>6, <1>7

\* A stream that closes leaves no cycle: what hung from it hangs from what it hung from.
LEMMA OrphanedKeeps ==
    ASSUME NEW D, NEW V, NEW dep \in [D -> V], NEW up \in SUBSET D, NoCycle(dep, up), NEW s \in up
    PROVE  NoCycle(Orphaned(dep, up, s), up \ {s})
<1>. DEFINE new == Orphaned(dep, up, s)
<1>1. \A x \in up \ {s} : new[x] = IF dep[x] = s THEN dep[s] ELSE dep[x]
  BY DEF Orphaned
<1>2. SUFFICES ASSUME NEW X \in SUBSET (up \ {s}), X # {}, \A x \in X : new[x] \in X PROVE FALSE
  BY DEF NoCycle
<1>. HIDE DEF new
<1>3. CASE \A x \in X : dep[x] # s
  <2>1. \A x \in X : dep[x] \in X
    BY <1>1, <1>2, <1>3
  <2>. QED BY <1>2, <2>1 DEF NoCycle
<1>4. ASSUME NEW z \in X, dep[z] = s PROVE FALSE
  <2>1. dep[s] \in X
    BY <1>1, <1>2, <1>4
  <2>2. \A x \in X \cup {s} : dep[x] \in X \cup {s}
    BY <1>1, <1>2, <2>1
  <2>3. X \cup {s} \in SUBSET up /\ X \cup {s} # {}
    OBVIOUS
  <2>. QED BY <2>2, <2>3 DEF NoCycle
<1>. QED BY <1>3, <1>4

\* A stream that opens at the root, or under one that is not open, makes none.
LEMMA OpenKeeps ==
    ASSUME NEW dep, NEW up, NoCycle(dep, up), NEW s, dep[s] \notin up \cup {s}
    PROVE  NoCycle(dep, up \cup {s})
<1>1. SUFFICES ASSUME NEW X \in SUBSET (up \cup {s}), X # {}, \A x \in X : dep[x] \in X PROVE FALSE
  BY DEF NoCycle
<1>2. s \notin X
  BY <1>1
<1>3. X \in SUBSET up
  BY <1>2
<1>. QED BY <1>1, <1>3 DEF NoCycle

\* Nor does one that is promised, which nothing depends on.
LEMMA PushKeeps ==
    ASSUME NEW D, NEW V, NEW dep \in [D -> V], NEW up \in SUBSET D, NoCycle(dep, up), NEW s \in up,
           NEW p \in D, p \notin up, \A x \in up : dep[x] # p
    PROVE  NoCycle([dep EXCEPT ![p] = s], up \cup {p})
<1>. DEFINE new == [dep EXCEPT ![p] = s]
<1>1. new[p] = s /\ \A x \in up : new[x] = dep[x]
  OBVIOUS
<1>2. SUFFICES ASSUME NEW X \in SUBSET (up \cup {p}), X # {}, \A x \in X : new[x] \in X PROVE FALSE
  BY DEF NoCycle
<1>. HIDE DEF new
<1>. DEFINE Y == X \ {p}
<1>3. Y \in SUBSET up
  OBVIOUS
<1>4. Y # {}
  <2>1. p \in X => s \in Y
    BY <1>1, <1>2
  <2>. QED BY <1>2, <2>1
<1>5. \A y \in Y : dep[y] \in Y
  BY <1>1, <1>2
<1>. HIDE DEF Y
<1>. QED BY <1>3, <1>4, <1>5 DEF NoCycle
-----------------------------------------------------------------------------
\* What keeps the tree one: besides its shape, no slot that is free names a stream, and no
\* stream names one that has not been promised yet.
TreeInv ==
    /\ TypeOK
    /\ IsFiniteSet(live)
    /\ NoCycle(dependency, live)
    /\ \A s \in StreamId \ live : dependency[s] = 0
    /\ \A s \in live : s <= (IF s % 2 = 0 THEN pushStreamId ELSE lastStreamId)
    /\ \A s \in live : dependency[s] % 2 = 0 => dependency[s] <= pushStreamId
    /\ pushStreamId % 2 = 0

NamedIdleAreOdd == \A s \in NamedIdle : s % 2 = 1

\* The dependencies that a priority leaves are those that were there, the stream that is
\* moved and the one it is moved under.
LEMMA PrioritiseValues ==
    ASSUME NEW D, NEW V, NEW dep \in [D -> V], NEW up \in SUBSET D, IsFiniteSet(up),
           0 \notin up, NoCycle(dep, up), NEW s \in up, NEW d \in V, d # s, s \in V,
           NEW exclusive, NEW placed, placed = Prioritise(dep, up, s, d, exclusive)
    PROVE  /\ placed \in [D -> V]
           /\ \A x \in D \ up : placed[x] = dep[x]
           /\ \A x \in up : placed[x] \in {d, s} \cup {dep[y] : y \in up}
<1>. DEFINE l == IF Descends(dep, up, d, s) THEN [dep EXCEPT ![d] = dep[s]] ELSE dep
            adopted == {x \in up \ {s} : exclusive /\ l[x] = d}
            new == [x \in D |-> IF x = s THEN d ELSE IF x \in adopted THEN s ELSE l[x]]
<1>1. new = Prioritise(dep, up, s, d, exclusive)
  BY DEF Prioritise
<1>2. Descends(dep, up, d, s) => d \in up
  BY DescendsIs DEF Reaches
<1>3. l \in [D -> V] /\ \A x \in D : l[x] = dep[x] \/ (x \in up /\ l[x] = dep[s])
  BY <1>2
<1>4. adopted \subseteq up
  OBVIOUS
<1>. HIDE DEF l, adopted
<1>5. new \in [D -> V]
  BY <1>3
<1>6. \A x \in D \ up : new[x] = dep[x]
  BY <1>3, <1>4
<1>7. \A x \in up : new[x] \in {d, s} \cup {dep[y] : y \in up}
  BY <1>3
<1>. QED BY <1>1, <1>5, <1>6, <1>7

\* The facts about the numbers that the streams have.
LEMMA TreeNumbers ==
    ASSUME TreeInv
    PROVE  /\ StreamId \subseteq Nat \ {0} /\ 0 \notin StreamId
           /\ live \in SUBSET StreamId /\ 0 \notin live
           /\ dependency \in [StreamId -> StreamId \cup {0}]
           /\ lastStreamId \in Nat /\ pushStreamId \in Nat
           /\ IsFiniteSet(live) /\ NoCycle(dependency, live)
  BY StreamIdAssumption DEF TreeInv, TypeOK

\* An odd stream that is newer than all of its kind is not open.
LEMMA NewIsNotOpen ==
    ASSUME TreeInv, NEW s \in StreamId, CanOpen(s)
    PROVE  s \notin live /\ dependency[s] = 0
<1>1. s \in Nat /\ lastStreamId \in Nat /\ s > lastStreamId /\ s % 2 = 1
  BY TreeNumbers DEF CanOpen
<1>2. s \notin live
  <2>1. s \in live => s <= lastStreamId
    BY <1>1 DEF TreeInv
  <2>. QED BY <1>1, <2>1
<1>. QED BY <1>2 DEF TreeInv

\* What a peer may write in a priority is no stream that is still to be promised.
LEMMA MayNameWhat ==
    ASSUME TreeInv, NamedIdleAreOdd, NEW d \in StreamId \cup {0}, MayName(d)
    PROVE  d % 2 = 0 => d <= pushStreamId
<1>1. d \in Nat
  BY TreeNumbers
<1>2. d \in NamedIdle => d % 2 = 1
  BY DEF NamedIdleAreOdd
<1>. QED BY <1>1, <1>2 DEF MayName

\* A stream that is moved, or opened with a priority, keeps the tree.
LEMMA PlacedKeeps ==
    ASSUME TreeInv, NEW up \in SUBSET StreamId, IsFiniteSet(up), live \subseteq up,
           NoCycle(dependency, up), NEW s \in up, up \subseteq live \cup {s},
           s % 2 = 0 => s <= pushStreamId,
           NEW d \in StreamId \cup {0}, d # s, d % 2 = 0 => d <= pushStreamId, dependency[s] % 2 = 0 => dependency[s] <= pushStreamId, NEW exclusive,
           live' = up, dependency' = Prioritise(dependency, up, s, d, exclusive), pushStreamId' = pushStreamId,
           lastStreamId' \in StreamId \cup {0},
           \A x \in up : x <= (IF x % 2 = 0 THEN pushStreamId ELSE lastStreamId')
    PROVE  TreeInv'
<1>. DEFINE V == StreamId \cup {0}
            new == Prioritise(dependency, up, s, d, exclusive)
<1>1. /\ dependency \in [StreamId -> V] /\ 0 \notin up /\ s \in V /\ d \in V
      /\ pushStreamId \in V
  BY TreeNumbers DEF TreeInv, TypeOK
<1>2. NoCycle(new, up)
  BY <1>1, PrioritiseKeeps
<1>3. /\ new \in [StreamId -> V]
      /\ \A x \in StreamId \ up : new[x] = dependency[x]
      /\ \A x \in up : new[x] \in {d, s} \cup {dependency[y] : y \in up}
  <2>1. PICK placed : placed = Prioritise(dependency, up, s, d, exclusive)
    OBVIOUS
  <2>. HIDE DEF V
  <2>. QED BY <1>1, <2>1, PrioritiseValues
<1>. HIDE DEF new
<1>4. \A x \in StreamId \ up : new[x] = 0
  BY <1>3 DEF TreeInv
<1>5. ASSUME NEW x \in up, new[x] % 2 = 0 PROVE new[x] <= pushStreamId
  <2>1. CASE new[x] \in {d, s}
    BY <1>5, <2>1
  <2>2. CASE new[x] \in {dependency[y] : y \in up}
    <3>1. PICK y \in up : new[x] = dependency[y]
      BY <2>2
    <3>2. dependency[y] % 2 = 0 => dependency[y] <= pushStreamId
      BY DEF TreeInv
    <3>. QED BY <1>5, <3>1, <3>2
  <2>. QED BY <1>3, <2>1, <2>2
<1>6. dependency' = new
  BY DEF new
<1>7. TypeOK'
  BY <1>1, <1>3, <1>6 DEF TypeOK
<1>. QED BY <1>2, <1>4, <1>5, <1>6, <1>7 DEF TreeInv

\* Every step keeps it.
LEMMA TreeStep ==
    ASSUME TreeInv, NamedIdleAreOdd, [Next]_vars
    PROVE  TreeInv'
<1>. USE TreeNumbers
<1>1. ASSUME NEW s \in StreamId, Open(s) PROVE TreeInv'
  <2>1. s \notin live /\ dependency[s] = 0 /\ s % 2 = 1 /\ s > lastStreamId
    BY <1>1, NewIsNotOpen DEF Open, CanOpen
  <2>2. live' = live \cup {s} /\ lastStreamId' = s /\ dependency' = dependency /\ pushStreamId' = pushStreamId
    BY <1>1 DEF Open
  <2>3. NoCycle(dependency, live \cup {s})
    BY <2>1, OpenKeeps
  <2>4. IsFiniteSet(live')
    BY <2>2, FS_AddElement
  <2>5. TypeOK'
    BY <2>2 DEF TreeInv, TypeOK
  <2>6. \A x \in live' : x <= (IF x % 2 = 0 THEN pushStreamId' ELSE lastStreamId')
    <3>1. \A x \in live : x \in Nat
      OBVIOUS
    <3>. QED BY <2>1, <2>2, <3>1 DEF TreeInv
  <2>7. \A x \in live' : dependency'[x] % 2 = 0 => dependency'[x] <= pushStreamId'
    BY <2>1, <2>2 DEF TreeInv
  <2>. QED BY <2>2, <2>3, <2>4, <2>5, <2>6, <2>7 DEF TreeInv
<1>2. ASSUME NEW s \in StreamId, NEW d \in StreamId \cup {0}, NEW exclusive \in BOOLEAN,
             OpenUnder(s, d, exclusive)
      PROVE  TreeInv'
  <2>1. s \notin live /\ dependency[s] = 0 /\ s % 2 = 1 /\ s > lastStreamId
    BY <1>2, NewIsNotOpen DEF OpenUnder, CanOpen
  <2>2. /\ live' = live \cup {s} /\ lastStreamId' = s /\ pushStreamId' = pushStreamId
        /\ dependency' = IF d = s THEN dependency
                         ELSE Prioritise(dependency, live \cup {s}, s, d, exclusive)
        /\ d # s => MayName(d)
    BY <1>2 DEF OpenUnder
  <2>3. CASE d = s
    <3>1. Open(s)
      BY <1>2, <2>2, <2>3 DEF Open, OpenUnder
    <3>. QED BY <1>1, <3>1
  <2>4. CASE d # s
    <3>1. PICK up : up = live \cup {s}
      OBVIOUS
    <3>2. NoCycle(dependency, up)
      BY <2>1, <3>1, OpenKeeps
    <3>3. IsFiniteSet(up)
      BY <3>1, FS_AddElement
    <3>4. \A x \in up : x <= (IF x % 2 = 0 THEN pushStreamId ELSE lastStreamId')
      <4>1. \A x \in live : x \in Nat
        OBVIOUS
      <4>. QED BY <2>1, <2>2, <3>1, <4>1 DEF TreeInv
    <3>5. d % 2 = 0 => d <= pushStreamId
      BY <2>2, <2>4, MayNameWhat
    <3>6. dependency[s] % 2 = 0 => dependency[s] <= pushStreamId
      BY <2>1
    <3>7. up \in SUBSET StreamId /\ live \subseteq up /\ s \in up /\ up \subseteq live \cup {s}
      BY <3>1
    <3>8. live' = up /\ dependency' = Prioritise(dependency, up, s, d, exclusive)
      BY <2>2, <2>4, <3>1
    <3>9. (s % 2 = 0 => s <= pushStreamId) /\ lastStreamId' \in StreamId \cup {0}
      BY <2>1, <2>2
    <3>. QED BY <2>2, <2>4, <3>2, <3>3, <3>4, <3>5, <3>6, <3>7, <3>8, <3>9, PlacedKeeps
  <2>. QED BY <2>3, <2>4
<1>3. ASSUME NEW s \in StreamId, NEW d \in StreamId \cup {0}, NEW exclusive \in BOOLEAN,
             Move(s, d, exclusive)
      PROVE  TreeInv'
  <2>1. /\ s \in live /\ d # s /\ MayName(d) /\ live' = live /\ lastStreamId' = lastStreamId
        /\ pushStreamId' = pushStreamId
        /\ dependency' = Prioritise(dependency, live, s, d, exclusive)
    BY <1>3 DEF Move
  <2>2. d % 2 = 0 => d <= pushStreamId
    BY <2>1, MayNameWhat
  <2>3. /\ dependency[s] % 2 = 0 => dependency[s] <= pushStreamId
        /\ s % 2 = 0 => s <= pushStreamId
        /\ \A x \in live : x <= (IF x % 2 = 0 THEN pushStreamId ELSE lastStreamId')
        /\ lastStreamId' \in StreamId \cup {0}
    BY <2>1 DEF TreeInv, TypeOK
  <2>4. live \subseteq live \cup {s}
    OBVIOUS
  <2>. QED BY <2>1, <2>2, <2>3, <2>4, PlacedKeeps
<1>4. ASSUME NEW s \in StreamId, Push(s) PROVE TreeInv'
  <2>. DEFINE p == pushStreamId + 2
  <2>1. /\ s \in live /\ p \in StreamId /\ pushStreamId' = p /\ live' = live \cup {p}
        /\ dependency' = [dependency EXCEPT ![p] = s] /\ lastStreamId' = lastStreamId
    BY <1>4 DEF Push
  <2>2. p % 2 = 0 /\ p \in Nat /\ p > pushStreamId
    BY DEF TreeInv
  <2>3. ASSUME NEW x \in live, dependency[x] = p PROVE FALSE
    <3>1. dependency[x] % 2 = 0 => dependency[x] <= pushStreamId
      BY DEF TreeInv
    <3>. QED BY <2>2, <2>3, <3>1
  <2>4. p \notin live
    <3>1. p \in live => p <= pushStreamId
      BY <2>2 DEF TreeInv
    <3>. QED BY <2>2, <3>1
  <2>. HIDE DEF p
  <2>5. NoCycle(dependency', live')
    <3>1. NoCycle([dependency EXCEPT ![p] = s], live \cup {p})
      BY <2>1, <2>3, <2>4, PushKeeps
    <3>. QED BY <2>1, <3>1
  <2>6. IsFiniteSet(live')
    BY <2>1, FS_AddElement
  <2>7. dependency'[p] = s /\ \A x \in StreamId : x # p => dependency'[x] = dependency[x]
    BY <2>1
  <2>8. TypeOK'
    BY <2>1 DEF TreeInv, TypeOK
  <2>9. ASSUME NEW x \in live'
        PROVE  /\ x <= (IF x % 2 = 0 THEN pushStreamId' ELSE lastStreamId')
               /\ dependency'[x] % 2 = 0 => dependency'[x] <= pushStreamId'
    <3>1. CASE x = p
      <4>1. s % 2 = 0 => s <= pushStreamId
        BY <2>1 DEF TreeInv
      <4>2. s \in Nat
        BY <2>1
      <4>. QED BY <2>1, <2>2, <2>7, <3>1, <4>1, <4>2
    <3>2. CASE x # p
      <4>1. x \in live /\ x \in Nat /\ dependency'[x] = dependency[x] /\ dependency[x] \in Nat
        BY <2>1, <2>7, <3>2
      <4>2. /\ x <= (IF x % 2 = 0 THEN pushStreamId ELSE lastStreamId)
            /\ dependency[x] % 2 = 0 => dependency[x] <= pushStreamId
        BY <4>1 DEF TreeInv
      <4>. QED BY <2>1, <2>2, <4>1, <4>2
    <3>. QED BY <3>1, <3>2
  <2>10. \A x \in StreamId \ live' : dependency'[x] = 0
    BY <2>1, <2>7 DEF TreeInv
  <2>. QED BY <2>1, <2>2, <2>5, <2>6, <2>8, <2>9, <2>10 DEF TreeInv
<1>5. ASSUME NEW s \in StreamId, Close(s) PROVE TreeInv'
  <2>1. /\ s \in live /\ dependency' = Orphaned(dependency, live, s) /\ live' = live \ {s}
        /\ lastStreamId' = lastStreamId /\ pushStreamId' = pushStreamId
    BY <1>5 DEF Close
  <2>2. NoCycle(dependency', live')
    BY <2>1, OrphanedKeeps
  <2>3. IsFiniteSet(live')
    BY <2>1, FS_RemoveElement
  <2>4. dependency' = [x \in StreamId |-> IF x = s THEN 0
                          ELSE IF x \in live /\ dependency[x] = s THEN dependency[s]
                          ELSE dependency[x]]
    BY <2>1 DEF Orphaned
  <2>5. TypeOK'
    BY <2>1, <2>4 DEF TreeInv, TypeOK
  <2>6. \A x \in StreamId \ live' : dependency'[x] = 0
    BY <2>1, <2>4 DEF TreeInv
  <2>7. \A x \in live' : x <= (IF x % 2 = 0 THEN pushStreamId' ELSE lastStreamId')
    BY <2>1 DEF TreeInv
  <2>8. ASSUME NEW x \in live' PROVE dependency'[x] % 2 = 0 => dependency'[x] <= pushStreamId'
    <3>1. dependency'[x] = dependency[x] \/ dependency'[x] = dependency[s]
      BY <2>1, <2>4
    <3>2. /\ dependency[x] % 2 = 0 => dependency[x] <= pushStreamId
          /\ dependency[s] % 2 = 0 => dependency[s] <= pushStreamId
      BY <2>1 DEF TreeInv
    <3>. QED BY <2>1, <3>1, <3>2
  <2>. QED BY <2>1, <2>2, <2>3, <2>5, <2>6, <2>7, <2>8 DEF TreeInv
<1>6. CASE UNCHANGED vars
  BY <1>6 DEF vars, TreeInv, TypeOK
<1>. QED BY <1>1, <1>2, <1>3, <1>4, <1>5, <1>6 DEF Next

\* No stream is above itself, and of those that hold something one is below none of them.
LEMMA TreeInvIsSound == ASSUME TreeInv PROVE TreeIsSound
<1>. USE TreeNumbers
<1>1. ASSUME NEW s \in live PROVE s \notin Ancestors(dependency, live, s)
  <2>1. Ancestors(dependency, live, s) = Above(dependency, live, s)
    BY AncestorsAre
  <2>2. dependency[s] \in live => ~ Reaches(dependency, live, dependency[s], s)
    BY NoneAboveItself
  <2>. QED BY <2>1, <2>2 DEF Above
<1>2. ASSUME NEW holding \in SUBSET live, holding # {}
      PROVE  \E s \in holding : ~ Blocked(dependency, live, s, holding)
  <2>1. PICK s \in holding : ~ (/\ dependency[s] \in live
                                /\ \E g \in holding : Reaches(dependency, live, dependency[s], g))
    BY <1>2, NoneReachesAll
  <2>2. ASSUME NEW n \in 1..Cardinality(live), Walk(dependency, live, s)[n] \in holding PROVE FALSE
    <3>1. n \in 0..Cardinality(live) /\ n # 0
      BY FS_CardinalityType
    <3>2. PICK t : t = Walk(dependency, live, s)[n] /\ t \in holding /\ t \in live
      BY <2>2
    <3>3. /\ dependency[s] \in live
          /\ Reaches(dependency, live, dependency[s], Walk(dependency, live, s)[n])
      BY <3>1, <3>2, WalkReaches
    <3>. QED BY <2>1, <3>2, <3>3
  <2>. QED BY <2>2 DEF Blocked
<1>. QED BY <1>1, <1>2 DEF TreeIsSound, Acyclic, SomeStreamMayWrite, TreeInv

\* What is above a stream once another has closed is what was, but for that one.
LEMMA OrphanedShape ==
    ASSUME NEW D, NEW V, NEW dep \in [D -> V], NEW up \in SUBSET D, NoCycle(dep, up),
           NEW s \in up, NEW x \in up, x # s, NEW new, new = Orphaned(dep, up, s),
           NEW rest, rest = up \ {s}
    PROVE  Above(new, rest, x) = Above(dep, up, x) \ {s}
<1>1. rest = up \ {s}
  OBVIOUS
<1>2. \A z \in rest : new[z] = IF dep[z] = s THEN dep[s] ELSE dep[z]
  BY DEF Orphaned
<1>3. dep[s] # s
  <2>1. {s} \in SUBSET up /\ {s} # {}
    OBVIOUS
  <2>2. \E z \in {s} : dep[z] \notin {s}
    BY <2>1 DEF NoCycle
  <2>. QED BY <2>2
<1>. DEFINE A == Above(dep, up, x)
            B == Above(new, rest, x)
<1>4. \A z \in A : dep[z] \in up => dep[z] \in A
  BY ReachesFrom DEF Above
<1>5. dep[x] \in up => dep[x] \in A
  BY ReachesFrom DEF Above
<1>6. \A z \in B : new[z] \in rest => new[z] \in B
  BY ReachesFrom DEF Above
<1>7. new[x] \in rest => new[x] \in B
  BY ReachesFrom DEF Above
<1>8. ASSUME NEW t \in B PROVE t \in A \ {s}
  <2>1. t \in rest /\ new[x] \in rest /\ Reaches(new, rest, new[x], t)
    BY DEF Above
  <2>. DEFINE C == A \ {s}
  <2>2. C \in SUBSET rest
    BY <1>1 DEF Above
  <2>3. \A z \in A : z # s /\ new[z] \in rest => new[z] \in C
    <3>1. A \subseteq up
      BY DEF Above
    <3>. HIDE DEF A
    <3>. QED BY <1>1, <1>2, <1>4, <3>1
  <2>4. new[x] \in C
    <3>. HIDE DEF A
    <3>. QED BY <1>1, <1>2, <1>4, <1>5, <2>1
  <2>5. ClosedAbove(new, rest, C)
    BY <2>3 DEF ClosedAbove
  <2>. HIDE DEF C
  <2>6. t \in C
    BY <2>1, <2>2, <2>4, <2>5 DEF Reaches
  <2>. QED BY <2>6 DEF C
<1>9. ASSUME NEW t \in A, t # s PROVE t \in B
  <2>1. t \in up /\ dep[x] \in up /\ Reaches(dep, up, dep[x], t)
    BY DEF Above
  <2>2. B \subseteq rest
    BY DEF Above
  <2>. HIDE DEF B, A
  <2>. DEFINE G == B \cup {z \in {s} : dep[s] \in up => dep[s] \in B}
  <2>3. G \in SUBSET up
    BY <1>1, <2>2
  <2>4. ASSUME NEW g \in G, dep[g] \in up PROVE dep[g] \in G
    <3>1. CASE g \in B
      <4>1. CASE dep[g] # s
        <5>1. new[g] = dep[g] /\ new[g] \in rest
          BY <1>1, <1>2, <2>2, <2>4, <3>1, <4>1
        <5>. QED BY <1>6, <3>1, <5>1
      <4>2. CASE dep[g] = s
        <5>1. new[g] = dep[s]
          BY <1>2, <2>2, <3>1, <4>2
        <5>2. dep[s] \in up => dep[s] \in B
          BY <1>1, <1>3, <1>6, <3>1, <5>1
        <5>. QED BY <4>2, <5>2
      <4>. QED BY <4>1, <4>2
    <3>2. CASE g \notin B
      BY <2>4, <3>2
    <3>. QED BY <3>1, <3>2
  <2>5. dep[x] \in G
    <3>0. x \in rest
      BY <1>1
    <3>1. CASE dep[x] # s
      <4>1. new[x] = dep[x] /\ new[x] \in rest
        BY <1>1, <1>2, <2>1, <3>0, <3>1
      <4>. QED BY <1>7, <4>1
    <3>2. CASE dep[x] = s
      <4>1. new[x] = dep[s]
        BY <1>2, <3>0, <3>2
      <4>2. dep[s] \in up => dep[s] \in B
        BY <1>1, <1>3, <1>7, <4>1
      <4>. QED BY <3>2, <4>2
    <3>. QED BY <3>1, <3>2
  <2>6. ClosedAbove(dep, up, G)
    BY <2>4 DEF ClosedAbove
  <2>7. t \in G
    <3>. HIDE DEF G
    <3>. QED BY <2>1, <2>3, <2>5, <2>6 DEF Reaches
  <2>. QED BY <1>9, <2>7
<1>. HIDE DEF A, B
<1>10. A \ {s} = B
  BY <1>8, <1>9 DEF B, Above
<1>. QED BY <1>10 DEF A, B

\* What is above a stream once it has been moved under one that is not below it: that one
\* and what was above that one.
LEMMA MovedShape ==
    ASSUME NEW D, NEW V, NEW dep \in [D -> V], NEW up \in SUBSET D, NEW s \in up,
           NEW d \in up, ~ Reaches(dep, up, d, s), NEW new, new = [dep EXCEPT ![s] = d]
    PROVE  \A t : t \in Above(new, up, s) <=> t = d \/ t \in Above(dep, up, d)
<1>1. new[s] = d /\ \A x \in up : x # s => new[x] = dep[x]
  OBVIOUS
<1>. DEFINE A == {t \in up : Reaches(dep, up, d, t)}
            B == {t \in up : Reaches(new, up, d, t)}
<1>2. A \in SUBSET up /\ B \in SUBSET up /\ d \in A /\ d \in B /\ s \notin A
  BY ReachesFrom
<1>3. ClosedAbove(new, up, A)
  <2>1. ASSUME NEW c \in A, new[c] \in up PROVE new[c] \in A
    <3>1. new[c] = dep[c] /\ c \in up /\ Reaches(dep, up, d, c)
      BY <1>1, <1>2
    <3>2. Reaches(dep, up, c, dep[c])
      BY <2>1, <3>1, ReachesFrom
    <3>3. Reaches(dep, up, d, dep[c])
      BY <3>1, <3>2, ReachesFrom
    <3>. QED BY <2>1, <3>1, <3>3
  <2>. QED BY <2>1 DEF ClosedAbove
<1>4. B \subseteq A
  <2>1. SUFFICES ASSUME NEW t \in B PROVE t \in A
    OBVIOUS
  <2>2. Reaches(new, up, d, t)
    OBVIOUS
  <2>. HIDE DEF A
  <2>. QED BY <1>2, <1>3, <2>2 DEF Reaches
<1>5. ClosedAbove(dep, up, B)
  <2>1. ASSUME NEW c \in B, dep[c] \in up PROVE dep[c] \in B
    <3>1. c # s
      <4>. HIDE DEF A, B
      <4>. QED BY <1>2, <1>4
    <3>2. new[c] = dep[c] /\ c \in up /\ Reaches(new, up, d, c)
      BY <1>1, <3>1
    <3>3. Reaches(new, up, c, new[c])
      BY <2>1, <3>2, ReachesFrom
    <3>4. Reaches(new, up, d, new[c])
      BY <3>2, <3>3, ReachesFrom
    <3>. QED BY <2>1, <3>2, <3>4
  <2>. QED BY <2>1 DEF ClosedAbove
<1>6. A \subseteq B
  <2>1. SUFFICES ASSUME NEW t \in A PROVE t \in B
    OBVIOUS
  <2>2. Reaches(dep, up, d, t)
    OBVIOUS
  <2>. HIDE DEF B
  <2>. QED BY <1>2, <1>5, <2>2 DEF Reaches
<1>7. Above(new, up, s) = B
  BY <1>1 DEF Above
<1>8. {d} \cup Above(dep, up, d) = A
  <2>1. ASSUME NEW t \in A, t # d PROVE t \in Above(dep, up, d)
    <3>1. Reaches(dep, up, d, t)
      OBVIOUS
    <3>. QED BY <2>1, <3>1, ReachesNext DEF Above
  <2>2. ASSUME NEW t \in Above(dep, up, d) PROVE t \in A
    <3>1. t \in up /\ dep[d] \in up /\ Reaches(dep, up, dep[d], t)
      BY DEF Above
    <3>2. Reaches(dep, up, d, dep[d])
      BY <3>1, ReachesFrom
    <3>3. Reaches(dep, up, d, t)
      BY <3>1, <3>2, ReachesFrom
    <3>. QED BY <3>1, <3>3
  <2>. HIDE DEF A
  <2>. QED BY <1>2, <2>1, <2>2
<1>. QED BY <1>4, <1>6, <1>7, <1>8

\* No step disturbs the streams that it is not about.
LEMMA TreeShape ==
    ASSUME TreeInv, TreeInv'
    PROVE  ClosingKeepsTheShape /\ MovingKeepsTheShape
<1>1. /\ StreamId \subseteq Nat \ {0} /\ live \in SUBSET StreamId /\ 0 \notin live
      /\ dependency \in [StreamId -> StreamId \cup {0}]
      /\ IsFiniteSet(live) /\ NoCycle(dependency, live)
  BY TreeNumbers
<1>2. IsFiniteSet(live') /\ NoCycle(dependency', live') /\ 0 \notin live'
  BY StreamIdAssumption DEF TreeInv, TypeOK
<1>3. ASSUME NEW s \in live, Close(s), NEW x \in live'
      PROVE  Ancestors(dependency', live', x) = Ancestors(dependency, live, x) \ {s}
  <2>1. dependency' = Orphaned(dependency, live, s) /\ live' = live \ {s} /\ x \in live /\ x # s
    BY <1>3 DEF Close
  <2>2. Ancestors(dependency, live, x) = Above(dependency, live, x)
    BY <1>1, <2>1, AncestorsAre
  <2>3. Ancestors(dependency', live', x) = Above(dependency', live', x)
    BY <1>2, AncestorsAre
  <2>4. Above(dependency', live', x) = Above(dependency, live, x) \ {s}
    <3>1. PICK V, dep, up : V = StreamId \cup {0} /\ dep = dependency /\ up = live
      OBVIOUS
    <3>2. PICK new, rest : new = dependency' /\ rest = live'
      OBVIOUS
    <3>3. dep \in [StreamId -> V] /\ up \in SUBSET StreamId /\ NoCycle(dep, up)
      BY <1>1, <3>1
    <3>4. s \in up /\ x \in up /\ x # s /\ new = Orphaned(dep, up, s) /\ rest = up \ {s}
      BY <2>1, <3>1, <3>2
    <3>5. Above(new, rest, x) = Above(dep, up, x) \ {s}
      BY <3>3, <3>4, OrphanedShape, SMTT(20)
    <3>. QED BY <3>1, <3>2, <3>5
  <2>. QED BY <2>1, <2>2, <2>3, <2>4
<1>4. ASSUME NEW s \in live, NEW d \in live, Move(s, d, FALSE),
             s \notin Ancestors(dependency, live, d)
      PROVE  /\ Ancestors(dependency', live, s) = {d} \cup Ancestors(dependency, live, d)
             /\ \A x \in live : x # s => dependency'[x] = dependency[x]
  <2>1. live' = live /\ d # s /\ dependency' = Prioritise(dependency, live, s, d, FALSE)
    BY <1>4 DEF Move
  <2>2. Ancestors(dependency, live, d) = Above(dependency, live, d)
    BY <1>1, AncestorsAre
  <2>3. ~ Reaches(dependency, live, d, s)
    <3>1. SUFFICES ASSUME Reaches(dependency, live, d, s) PROVE FALSE
      OBVIOUS
    <3>2. dependency[d] \in live /\ Reaches(dependency, live, dependency[d], s)
      BY <2>1, <3>1, ReachesNext
    <3>. QED BY <1>4, <2>2, <3>2 DEF Above
  <2>4. ~ Descends(dependency, live, d, s)
    BY <1>1, <2>3, DescendsIs
  <2>5. dependency' = [dependency EXCEPT ![s] = d]
    <3>1. dependency' = [x \in StreamId |-> IF x = s THEN d ELSE dependency[x]]
      BY <1>1, <2>1, <2>4 DEF Prioritise
    <3>. QED BY <1>1, <3>1
  <2>6. Above(dependency', live, s) = {d} \cup Above(dependency, live, d)
    <3>1. PICK V, dep, up : V = StreamId \cup {0} /\ dep = dependency /\ up = live
      OBVIOUS
    <3>2. PICK new : new = dependency'
      OBVIOUS
    <3>3. dep \in [StreamId -> V] /\ up \in SUBSET StreamId
      BY <1>1, <3>1
    <3>4. /\ s \in up /\ d \in up /\ ~ Reaches(dep, up, d, s)
          /\ new = [dep EXCEPT ![s] = d]
      BY <2>3, <2>5, <3>1, <3>2
    <3>5. \A t : t \in Above(new, up, s) <=> t = d \/ t \in Above(dep, up, d)
      BY <3>3, <3>4, MovedShape
    <3>. QED BY <3>1, <3>2, <3>5
  <2>7. Ancestors(dependency', live, s) = Above(dependency', live, s)
    BY <1>2, <2>1, AncestorsAre
  <2>8. \A x \in live : x # s => dependency'[x] = dependency[x]
    BY <1>1, <2>5
  <2>. QED BY <2>1, <2>2, <2>5, <2>6, <2>7, <2>8
<1>5. ClosingKeepsTheShape
  BY <1>3 DEF ClosingKeepsTheShape
<1>6. MovingKeepsTheShape
  BY <1>4 DEF MovingKeepsTheShape
<1>. QED BY <1>5, <1>6

\* The dependencies stay a tree, in which some stream may always write.
THEOREM TheTreeIsSound == ASSUME NamedIdleAreOdd PROVE Spec => []TreeIsSound
<1>1. Init => TreeInv
  <2>1. SUFFICES ASSUME Init PROVE TreeInv
    OBVIOUS
  <2>2. IsFiniteSet({})
    BY FS_EmptySet
  <2>. QED BY <2>1, <2>2, StreamIdAssumption DEF Init, TreeInv, TypeOK, NoCycle
<1>2. TreeInv /\ [Next]_vars => TreeInv'
  BY TreeStep
<1>3. TreeInv => TreeIsSound
  BY TreeInvIsSound
<1>. QED BY <1>1, <1>2, <1>3, PTL DEF Spec

\* No closing and no move disturbs the streams that it is not about.
THEOREM TheShapeIsKept == ASSUME NamedIdleAreOdd PROVE Spec => ShapeIsKept
<1>1. Init => TreeInv
  <2>1. SUFFICES ASSUME Init PROVE TreeInv
    OBVIOUS
  <2>2. IsFiniteSet({})
    BY FS_EmptySet
  <2>. QED BY <2>1, <2>2, StreamIdAssumption DEF Init, TreeInv, TypeOK, NoCycle
<1>2. TreeInv /\ [Next]_vars => TreeInv'
  BY TreeStep
<1>3. TreeInv /\ TreeInv' /\ [Next]_vars => [ClosingKeepsTheShape /\ MovingKeepsTheShape]_vars
  BY TreeShape
<1>. QED BY <1>1, <1>2, <1>3, PTL DEF Spec, ShapeIsKept

-----------------------------------------------------------------------------
(* The fields of a block, and the calls that they are told with.           *)

\* The calls that a message makes at most once, and every call.
OnceTold == {"begin", "url", "host", "headers"}
MessageCall == OnceTold \cup Kind

\* None of some calls comes twice.
ToldOnce(calls, S) ==
    \A i, j \in DOMAIN calls : calls[i] \in S /\ calls[i] = calls[j] => i = j

\* Calls that come after others, none of those among them, keep it so.
LEMMA ToldOnceJoined ==
    ASSUME NEW Q, NEW a \in Seq(Q), NEW b \in Seq(Q), NEW S, ToldOnce(a, S), ToldOnce(b, S),
           ToSet(a) \cap ToSet(b) \cap S = {}
    PROVE  ToldOnce(a \o b, S)
<1>1. PICK c : c = a \o b
  OBVIOUS
<1>2. /\ c \in Seq(Q) /\ Len(c) = Len(a) + Len(b)
      /\ \A i \in 1..Len(a) + Len(b) : c[i] = IF i <= Len(a) THEN a[i] ELSE b[i - Len(a)]
  BY <1>1, Joined
<1>3. /\ Len(a) \in Nat /\ Len(b) \in Nat /\ DOMAIN a = 1..Len(a) /\ DOMAIN b = 1..Len(b)
      /\ DOMAIN c = 1..Len(a) + Len(b)
  BY <1>2
<1>4. ASSUME NEW i \in DOMAIN c, NEW j \in DOMAIN c, c[i] \in S, c[i] = c[j] PROVE i = j
  <2>1. CASE i <= Len(a) /\ j <= Len(a)
    <3>1. i \in DOMAIN a /\ j \in DOMAIN a /\ c[i] = a[i] /\ c[j] = a[j]
      BY <1>2, <1>3, <2>1
    <3>. QED BY <1>4, <3>1 DEF ToldOnce
  <2>2. CASE ~ (i <= Len(a)) /\ ~ (j <= Len(a))
    <3>1. /\ i - Len(a) \in DOMAIN b /\ j - Len(a) \in DOMAIN b
          /\ c[i] = b[i - Len(a)] /\ c[j] = b[j - Len(a)]
      BY <1>2, <1>3, <2>2
    <3>2. i - Len(a) = j - Len(a)
      BY <1>4, <3>1 DEF ToldOnce
    <3>. QED BY <1>3, <3>2
  <2>3. CASE i <= Len(a) /\ ~ (j <= Len(a))
    <3>1. /\ i \in DOMAIN a /\ c[i] = a[i]
          /\ j - Len(a) \in DOMAIN b /\ c[j] = b[j - Len(a)]
      BY <1>2, <1>3, <2>3
    <3>2. c[i] \in ToSet(a) /\ c[i] \in ToSet(b)
      BY <1>4, <3>1 DEF ToSet
    <3>. QED BY <1>4, <3>2
  <2>4. CASE ~ (i <= Len(a)) /\ j <= Len(a)
    <3>1. /\ j \in DOMAIN a /\ c[j] = a[j]
          /\ i - Len(a) \in DOMAIN b /\ c[i] = b[i - Len(a)]
      BY <1>2, <1>3, <2>4
    <3>2. c[i] \in ToSet(a) /\ c[i] \in ToSet(b)
      BY <1>4, <3>1 DEF ToSet
    <3>. QED BY <1>4, <3>2
  <2>. QED BY <2>1, <2>2, <2>3, <2>4
<1>. QED BY <1>1, <1>4 DEF ToldOnce

\* What the handler has been told of a message while it comes.
ToldSoFar ==
    IF trailers THEN gathered
    ELSE IF regular THEN (<<"begin", "url">> \o (IF ":authority" \in pseudo THEN <<"host">> ELSE <<>>))
                         \o Those(gathered, Regular)
    ELSE <<"begin">>

\* What keeps a block a message: while it is open, what has been gathered is legal, the pseudo
\* headers are those of it, they are handed over with the first field that is none, and the
\* handler has been told what there is.
MessageTypes ==
    /\ gathered \in Seq(Kind) /\ handlerCalls \in Seq(MessageCall)
    /\ trailers \in BOOLEAN /\ regular \in BOOLEAN /\ flushed \in BOOLEAN
    /\ pseudo \subseteq Pseudo

OpenMessage ==
    /\ flushed = regular
    /\ pseudo = ToSet(gathered) \cap Pseudo
    /\ ToSet(gathered) \cap (WrongPseudo \cup WrongRegular) = {}
    /\ regular <=> ToSet(gathered) \cap Regular # {}
    /\ trailers => pseudo = {}
    /\ regular /\ ~trailers => Required \subseteq pseudo
    /\ \A i, j \in DOMAIN gathered :
              /\ gathered[i] = gathered[j] /\ gathered[i] \in Pseudo => i = j
              /\ i < j /\ gathered[j] \in Pseudo => gathered[i] \in Pseudo
    /\ handlerCalls = ToldSoFar

MessageInv ==
    /\ MessageTypes
    /\ outcome = "open" => OpenMessage
    /\ NothingOfTheIncomplete
    /\ ReachesTheHandlerInOrder
    /\ OnlyLegalBlocks

\* The kinds of fields have nothing in common, and no field is one of the calls that are
\* made once.
LEMMA KindsDiffer ==
    /\ Pseudo \cap Regular = {} /\ Pseudo \cap WrongRegular = {} /\ Regular \cap WrongRegular = {}
    /\ Kind = Pseudo \cup Regular \cup WrongRegular /\ WrongPseudo \subseteq Pseudo
    /\ RequestPseudo \cap WrongPseudo = {}
    /\ Kind \cap OnceTold = {} /\ Required \subseteq RequestPseudo /\ RequestPseudo \subseteq Pseudo
    /\ WrongPseudo \cap Regular = {} /\ Required # {}
  BY DEF Pseudo, Regular, WrongRegular, Kind, RequestPseudo, WrongPseudo, OnceTold, Required

\* What the handler has been told while the message comes: the elements of it.
LEMMA WhatIsTold ==
    ASSUME MessageTypes, OpenMessage
    PROVE  /\ trailers => ToSet(handlerCalls) \cap OnceTold = {}
           /\ ~trailers /\ ~regular => ToSet(handlerCalls) = {"begin"}
           /\ ~trailers /\ regular =>
                  /\ {"begin", "url"} \subseteq ToSet(handlerCalls)
                  /\ ToSet(handlerCalls) \subseteq {"begin", "url", "host"} \cup Regular
<1>1. CASE trailers
  <2>1. handlerCalls = gathered
    BY <1>1 DEF OpenMessage, ToldSoFar
  <2>2. ToSet(gathered) \subseteq Kind
    BY DEF MessageTypes, ToSet
  <2>. QED BY <1>1, <2>1, <2>2, KindsDiffer
<1>2. CASE ~trailers /\ ~regular
  <2>1. handlerCalls = <<"begin">>
    BY <1>2 DEF OpenMessage, ToldSoFar
  <2>. QED BY <1>2, <2>1, SetOfOne
<1>3. CASE ~trailers /\ regular
  <2>1. PICK a, h, t : /\ a = <<"begin", "url">> /\ t = Those(gathered, Regular)
                       /\ h = (IF ":authority" \in pseudo THEN <<"host">> ELSE <<>>)
    OBVIOUS
  <2>2. handlerCalls = (a \o h) \o t
    BY <1>3, <2>1 DEF OpenMessage, ToldSoFar
  <2>3. /\ a \in Seq(MessageCall) /\ h \in Seq(MessageCall)
        /\ ToSet(a) = {"begin", "url"} /\ ToSet(h) \subseteq {"host"}
    <3>1. ToSet(a) = {"begin", "url"}
      BY <2>1, SetOfTwo
    <3>2. ToSet(h) \subseteq {"host"}
      <4>1. ToSet(<<"host">>) = {"host"} /\ ToSet(<<>>) = {}
        BY SetOfOne, SetOfNone
      <4>2. h = <<"host">> \/ h = <<>>
        BY <2>1
      <4>. QED BY <4>1, <4>2
    <3>3. {"begin", "url", "host"} \subseteq MessageCall
      BY DEF MessageCall, OnceTold
    <3>. QED BY <2>1, <3>1, <3>2, <3>3
  <2>4. t \in Seq(Kind) /\ ToSet(t) = ToSet(gathered) \cap Regular
    BY <2>1, ThoseOf DEF MessageTypes
  <2>5. t \in Seq(MessageCall)
    BY <2>4 DEF MessageCall
  <2>6. a \o h \in Seq(MessageCall) /\ ToSet(a \o h) = ToSet(a) \cup ToSet(h)
    BY <2>3, Joined
  <2>7. ToSet(handlerCalls) = ToSet(a \o h) \cup ToSet(t)
    <3>1. PICK p : p = a \o h
      OBVIOUS
    <3>2. handlerCalls = p \o t /\ p \in Seq(MessageCall)
      BY <2>2, <2>6, <3>1
    <3>3. ToSet(p \o t) = ToSet(p) \cup ToSet(t)
      BY <2>5, <3>2, Joined
    <3>. QED BY <3>1, <3>2, <3>3
  <2>. QED BY <1>3, <2>3, <2>4, <2>6, <2>7
<1>. QED BY <1>1, <1>2, <1>3 DEF MessageTypes

\* What the handler has been told once the pseudo headers have been handed over.
LEMMA AfterPseudo ==
    ASSUME MessageTypes, OpenMessage, ToldOnce(handlerCalls, OnceTold), ~PseudoIncomplete,
           NEW calls, calls = handlerCalls \o PseudoCalls
    PROVE  /\ calls \in Seq(MessageCall) /\ ToldOnce(calls, OnceTold) /\ "headers" \notin ToSet(calls)
           /\ trailers => calls = gathered
           /\ ~trailers => /\ Required \subseteq pseudo
                           /\ calls = (<<"begin", "url">> \o (IF ":authority" \in pseudo THEN <<"host">> ELSE <<>>))
                                        \o Those(gathered, Regular)
<1>1. /\ trailers \in BOOLEAN /\ regular \in BOOLEAN /\ flushed = regular
      /\ handlerCalls = ToldSoFar /\ handlerCalls \in Seq(MessageCall) /\ gathered \in Seq(Kind)
  BY DEF MessageTypes, OpenMessage
<1>2. {"begin", "url", "host", "headers"} \subseteq MessageCall
  BY DEF MessageCall, OnceTold
<1>3. CASE trailers \/ regular
  <2>1. PseudoCalls = <<>>
    BY <1>1, <1>3 DEF PseudoCalls
  <2>2. calls = handlerCalls
    BY <1>1, <1>2, <2>1, JoinedToNothing
  <2>3. "headers" \notin ToSet(calls)
    <3>1. "headers" \in OnceTold /\ "headers" \notin {"begin", "url", "host"} \cup Regular
      BY DEF OnceTold, Regular
    <3>. QED BY <1>3, <2>2, <3>1, WhatIsTold DEF MessageTypes
  <2>4. ~trailers => Required \subseteq pseudo
    BY <1>3 DEF OpenMessage
  <2>. QED BY <1>1, <1>3, <2>2, <2>3, <2>4 DEF ToldSoFar
<1>4. CASE ~trailers /\ ~regular
  <2>1. PICK h : h = (IF ":authority" \in pseudo THEN <<"host">> ELSE <<>>)
    OBVIOUS
  <2>2. PICK b, u : b = <<"begin">> /\ u = <<"url">>
    OBVIOUS
  <2>3. PICK v : v = u \o h
    OBVIOUS
  <2>4. PseudoCalls = v /\ handlerCalls = b /\ calls = b \o v
    BY <1>1, <1>4, <2>1, <2>2, <2>3 DEF PseudoCalls, ToldSoFar
  <2>5. b \in Seq(MessageCall) /\ u \in Seq(MessageCall) /\ h \in Seq(MessageCall)
    BY <1>2, <2>1, <2>2
  <2>6. ToSet(b) = {"begin"} /\ ToSet(u) = {"url"} /\ ToSet(h) \subseteq {"host"}
    <3>1. ToSet(<<"host">>) = {"host"} /\ ToSet(<<>>) = {}
      BY SetOfOne, SetOfNone
    <3>2. h = <<"host">> \/ h = <<>>
      BY <2>1
    <3>3. ToSet(b) = {"begin"} /\ ToSet(u) = {"url"}
      BY <2>2, SetOfOne
    <3>. QED BY <3>1, <3>2, <3>3
  <2>7. ToldOnce(b, OnceTold) /\ ToldOnce(u, OnceTold) /\ ToldOnce(h, OnceTold)
    <3>1. ToldOnce(<<>>, OnceTold)
      BY DEF ToldOnce
    <3>2. ASSUME NEW x PROVE ToldOnce(<<x>>, OnceTold)
      BY DEF ToldOnce
    <3>. QED BY <2>1, <2>2, <3>1, <3>2
  <2>8. v \in Seq(MessageCall) /\ ToSet(v) = ToSet(u) \cup ToSet(h) /\ ToldOnce(v, OnceTold)
    <3>1. v \in Seq(MessageCall) /\ ToSet(v) = ToSet(u) \cup ToSet(h)
      BY <2>3, <2>5, Joined
    <3>2. ToSet(u) \cap ToSet(h) \cap OnceTold = {}
      BY <2>6
    <3>. QED BY <2>3, <2>5, <2>7, <3>1, <3>2, ToldOnceJoined
  <2>9. calls \in Seq(MessageCall) /\ ToSet(calls) = ToSet(b) \cup ToSet(v)
    BY <2>4, <2>5, <2>8, Joined
  <2>10. ToldOnce(calls, OnceTold)
    <3>1. ToSet(b) \cap ToSet(v) \cap OnceTold = {}
      BY <2>6, <2>8
    <3>. QED BY <2>4, <2>5, <2>7, <2>8, <3>1, ToldOnceJoined
  <2>11. Those(gathered, Regular) = <<>>
    <3>1. ToSet(gathered) \cap Regular = {}
      BY <1>4 DEF OpenMessage
    <3>. QED BY <1>1, <3>1, ThoseOfNone
  <2>12. calls = (<<"begin", "url">> \o h) \o <<>>
    <3>1. PICK a : a = <<"begin", "url">>
      OBVIOUS
    <3>2. a = b \o u
      BY <2>2, <3>1, OneAndOne
    <3>3. (b \o u) \o h = b \o (u \o h)
      BY <2>5, JoinedInTwo
    <3>4. calls = a \o h
      BY <2>3, <2>4, <3>2, <3>3
    <3>5. calls \o <<>> = calls
      BY <1>2, <2>9, JoinedToNothing
    <3>. QED BY <3>1, <3>4, <3>5
  <2>13. Required \subseteq pseudo
    BY <1>1, <1>4 DEF PseudoIncomplete
  <2>. QED BY <1>4, <2>1, <2>6, <2>8, <2>9, <2>10, <2>11, <2>12, <2>13
<1>. QED BY <1>1, <1>3, <1>4

\* One more field: what has been gathered with it.
LEMMA FieldAppended ==
    ASSUME MessageTypes, NEW f \in Kind
    PROVE  /\ Append(gathered, f) \in Seq(Kind) /\ Len(Append(gathered, f)) = Len(gathered) + 1
           /\ \A i \in 1..Len(gathered) + 1 :
                 Append(gathered, f)[i] = IF i <= Len(gathered) THEN gathered[i] ELSE f
           /\ ToSet(Append(gathered, f)) = ToSet(gathered) \cup {f}
           /\ Those(Append(gathered, f), Regular) =
                 IF f \in Regular THEN Append(Those(gathered, Regular), f) ELSE Those(gathered, Regular)
<1>1. gathered \in Seq(Kind)
  BY DEF MessageTypes
<1>. QED BY <1>1, Appended, ThoseAppended

\* It may stand where it does, when it is of a kind that may come there.
LEMMA OrderKept ==
    ASSUME MessageTypes, OpenMessage, NEW f \in Kind, NEW longer, longer = Append(gathered, f),
           f \in Pseudo => f \notin ToSet(gathered) /\ ToSet(gathered) \subseteq Pseudo
    PROVE  \A i, j \in DOMAIN longer :
              /\ longer[i] = longer[j] /\ longer[i] \in Pseudo => i = j
              /\ i < j /\ longer[j] \in Pseudo => longer[i] \in Pseudo
<1>1. PICK n : n = Len(gathered)
  OBVIOUS
<1>2. /\ n \in Nat /\ DOMAIN gathered = 1..n /\ DOMAIN longer = 1..n + 1
      /\ \A i \in 1..n + 1 : longer[i] = IF i <= n THEN gathered[i] ELSE f
  <2>1. gathered \in Seq(Kind)
    BY DEF MessageTypes
  <2>2. longer \in Seq(Kind) /\ Len(longer) = n + 1
    BY <1>1, FieldAppended
  <2>3. \A i \in 1..n + 1 : longer[i] = IF i <= n THEN gathered[i] ELSE f
    BY <1>1, FieldAppended
  <2>. QED BY <1>1, <2>1, <2>2, <2>3
<1>3. \A i \in 1..n : longer[i] = gathered[i] /\ gathered[i] \in ToSet(gathered)
  BY <1>2 DEF ToSet
<1>4. longer[n + 1] = f
  BY <1>2
<1>5. SUFFICES ASSUME NEW i \in 1..n + 1, NEW j \in 1..n + 1
               PROVE  /\ longer[i] = longer[j] /\ longer[i] \in Pseudo => i = j
                      /\ i < j /\ longer[j] \in Pseudo => longer[i] \in Pseudo
  BY <1>2
<1>6. CASE i \in 1..n /\ j \in 1..n
  <2>1. /\ gathered[i] = gathered[j] /\ gathered[i] \in Pseudo => i = j
        /\ i < j /\ gathered[j] \in Pseudo => gathered[i] \in Pseudo
    BY <1>2, <1>6 DEF OpenMessage
  <2>. QED BY <1>3, <1>6, <2>1
<1>7. CASE i = n + 1 /\ j \in 1..n
  <2>1. ~ (i < j)
    BY <1>2, <1>7
  <2>2. longer[i] = f /\ longer[j] \in ToSet(gathered)
    BY <1>3, <1>4, <1>7
  <2>. QED BY <2>1, <2>2
<1>8. CASE i \in 1..n /\ j = n + 1
  <2>1. longer[j] = f /\ longer[i] \in ToSet(gathered)
    BY <1>3, <1>4, <1>8
  <2>. QED BY <2>1
<1>9. CASE i = n + 1 /\ j = n + 1
  <2>1. ~ (i < j)
    BY <1>2, <1>9
  <2>. QED BY <1>9, <2>1
<1>10. (i \in 1..n \/ i = n + 1) /\ (j \in 1..n \/ j = n + 1)
  BY <1>2, <1>5
<1>. QED BY <1>6, <1>7, <1>8, <1>9, <1>10

\* A pseudo header is kept, or is refused.
LEMMA PseudoFieldKeeps ==
    ASSUME MessageInv, outcome = "open", NEW f \in Kind, gathered' = Append(gathered, f),
           PseudoField(f), UNCHANGED trailers
    PROVE  MessageInv'
<1>1. MessageTypes /\ OpenMessage /\ NothingOfTheIncomplete
  BY DEF MessageInv
<1>2. /\ gathered' \in Seq(Kind) /\ ToSet(gathered') = ToSet(gathered) \cup {f}
      /\ Those(gathered', Regular) =
            IF f \in Regular THEN Append(Those(gathered, Regular), f) ELSE Those(gathered, Regular)
  BY <1>1, FieldAppended
<1>3. handlerCalls' = handlerCalls /\ regular' = regular /\ flushed' = flushed /\ trailers' = trailers
  BY DEF PseudoField, RefuseField
<1>4. NothingOfTheIncomplete'
  BY <1>1, <1>2, <1>3 DEF NothingOfTheIncomplete
<1>5. CASE regular \/ trailers \/ f \in WrongPseudo \/ f \in pseudo
  <2>1. outcome' = "refused" /\ pseudo' = pseudo
    BY <1>5 DEF PseudoField, RefuseField
  <2>2. MessageTypes'
    BY <1>1, <1>2, <1>3, <2>1 DEF MessageTypes
  <2>. QED BY <1>4, <2>1, <2>2 DEF MessageInv, ReachesTheHandlerInOrder, OnlyLegalBlocks
<1>6. CASE ~ (regular \/ trailers \/ f \in WrongPseudo \/ f \in pseudo)
  <2>1. pseudo' = pseudo \cup {f} /\ outcome' = outcome /\ f \in Pseudo
    BY <1>6 DEF PseudoField
  <2>2. MessageTypes'
    BY <1>1, <1>2, <1>3, <2>1 DEF MessageTypes
  <2>3. f \notin Regular /\ f \notin WrongRegular
    BY <2>1, KindsDiffer
  <2>4. ToSet(gathered) \subseteq Pseudo
    <3>1. ToSet(gathered) \subseteq Kind
      BY <1>1 DEF MessageTypes, ToSet
    <3>2. ToSet(gathered) \cap Regular = {} /\ ToSet(gathered) \cap WrongRegular = {}
      BY <1>1, <1>6 DEF OpenMessage
    <3>. QED BY <3>1, <3>2, KindsDiffer
  <2>5. f \notin ToSet(gathered)
    BY <1>1, <1>6, <2>1 DEF OpenMessage
  <2>6. \A i, j \in DOMAIN gathered' :
              /\ gathered'[i] = gathered'[j] /\ gathered'[i] \in Pseudo => i = j
              /\ i < j /\ gathered'[j] \in Pseudo => gathered'[i] \in Pseudo
    <3>1. PICK longer : longer = gathered'
      OBVIOUS
    <3>2. \A i, j \in DOMAIN longer :
              /\ longer[i] = longer[j] /\ longer[i] \in Pseudo => i = j
              /\ i < j /\ longer[j] \in Pseudo => longer[i] \in Pseudo
      BY <1>1, <2>4, <2>5, <3>1, OrderKept
    <3>. QED BY <3>1, <3>2
  <2>7. ToldSoFar' = handlerCalls'
    BY <1>1, <1>3, <1>6 DEF OpenMessage, ToldSoFar, MessageTypes
  <2>8. pseudo' = ToSet(gathered') \cap Pseudo
    BY <1>1, <1>2, <2>1 DEF OpenMessage
  <2>9. ToSet(gathered') \cap (WrongPseudo \cup WrongRegular) = {}
    BY <1>1, <1>2, <1>6, <2>3 DEF OpenMessage
  <2>10. regular' <=> ToSet(gathered') \cap Regular # {}
    BY <1>1, <1>2, <1>3, <2>3 DEF OpenMessage
  <2>11. OpenMessage'
    BY <1>1, <1>3, <1>6, <2>6, <2>7, <2>8, <2>9, <2>10 DEF OpenMessage
  <2>. QED BY <1>4, <2>1, <2>2, <2>11 DEF MessageInv, ReachesTheHandlerInOrder, OnlyLegalBlocks
<1>. QED BY <1>5, <1>6

\* A field that is no pseudo header hands those over, and is told or refused.
LEMMA RegularFieldKeeps ==
    ASSUME MessageInv, outcome = "open", NEW f \in Kind, gathered' = Append(gathered, f),
           RegularField(f), UNCHANGED trailers
    PROVE  MessageInv'
<1>1. MessageTypes /\ OpenMessage /\ NothingOfTheIncomplete
  BY DEF MessageInv
<1>2. /\ gathered' \in Seq(Kind) /\ ToSet(gathered') = ToSet(gathered) \cup {f}
      /\ Those(gathered', Regular) =
            IF f \in Regular THEN Append(Those(gathered, Regular), f) ELSE Those(gathered, Regular)
  BY <1>1, FieldAppended
<1>3. f \notin Pseudo /\ flushed' = TRUE /\ pseudo' = pseudo /\ trailers' = trailers
  BY DEF RegularField
<1>4. ToldOnce(handlerCalls, OnceTold)
  BY <1>1 DEF NothingOfTheIncomplete, ToldOnce, OnceTold
<1>5. CASE PseudoIncomplete
  <2>1. outcome' = "refused" /\ handlerCalls' = handlerCalls /\ regular' = regular
    BY <1>5 DEF RegularField
  <2>2. MessageTypes'
    BY <1>1, <1>2, <1>3, <2>1 DEF MessageTypes
  <2>3. NothingOfTheIncomplete'
    BY <1>1, <1>2, <1>3, <2>1 DEF NothingOfTheIncomplete
  <2>. QED BY <2>1, <2>2, <2>3 DEF MessageInv, ReachesTheHandlerInOrder, OnlyLegalBlocks
<1>6. CASE ~PseudoIncomplete
  <2>1. PICK calls : calls = handlerCalls \o PseudoCalls
    OBVIOUS
  <2>2. /\ calls \in Seq(MessageCall) /\ ToldOnce(calls, OnceTold) /\ "headers" \notin ToSet(calls)
        /\ trailers => calls = gathered
        /\ ~trailers => /\ Required \subseteq pseudo
                        /\ calls = (<<"begin", "url">> \o (IF ":authority" \in pseudo THEN <<"host">> ELSE <<>>))
                                     \o Those(gathered, Regular)
    BY <1>1, <1>4, <1>6, <2>1, AfterPseudo
  <2>3. regular' = TRUE
    BY <1>6 DEF RegularField
  <2>4. trailers \/ Required \subseteq ToSet(gathered')
    BY <1>1, <1>2, <2>2 DEF OpenMessage
  <2>5. CASE f \in WrongRegular
    <3>1. handlerCalls' = calls /\ outcome' = "refused"
      BY <1>6, <2>1, <2>5 DEF RegularField
    <3>2. MessageTypes'
      BY <1>1, <1>2, <1>3, <2>2, <2>3, <3>1 DEF MessageTypes
    <3>3. NothingOfTheIncomplete'
      BY <1>3, <2>2, <2>4, <3>1 DEF NothingOfTheIncomplete, ToldOnce, OnceTold
    <3>. QED BY <3>1, <3>2, <3>3 DEF MessageInv, ReachesTheHandlerInOrder, OnlyLegalBlocks
  <2>6. CASE f \notin WrongRegular
    <3>1. handlerCalls' = calls \o <<f>> /\ outcome' = outcome
      BY <1>6, <2>1, <2>6 DEF RegularField
    <3>2. f \in Regular /\ f \in MessageCall /\ f \notin OnceTold
      BY <1>3, <2>6, KindsDiffer DEF MessageCall
    <3>3. handlerCalls' = Append(calls, f)
      BY <2>2, <3>1, <3>2, JoinedToNothing
    <3>4. handlerCalls' \in Seq(MessageCall) /\ ToldOnce(handlerCalls', OnceTold)
      <4>1. PICK one : one = <<f>>
        OBVIOUS
      <4>2. one \in Seq(MessageCall) /\ ToSet(one) = {f}
        BY <3>2, <4>1, SetOfOne
      <4>3. ToldOnce(one, OnceTold)
        BY <4>1 DEF ToldOnce
      <4>4. ToSet(calls) \cap ToSet(one) \cap OnceTold = {}
        BY <3>2, <4>2
      <4>5. ToldOnce(calls \o one, OnceTold)
        BY <2>2, <4>2, <4>3, <4>4, ToldOnceJoined
      <4>6. calls \o one \in Seq(MessageCall)
        BY <2>2, <4>2
      <4>. QED BY <3>1, <4>1, <4>5, <4>6
    <3>5. MessageTypes'
      BY <1>1, <1>2, <1>3, <2>3, <3>4 DEF MessageTypes
    <3>6. NothingOfTheIncomplete'
      BY <1>3, <2>4, <3>4 DEF NothingOfTheIncomplete, ToldOnce, OnceTold
    <3>7. handlerCalls' = ToldSoFar'
      <4>1. CASE trailers
        BY <1>3, <2>2, <3>3, <4>1 DEF ToldSoFar
      <4>2. CASE ~trailers
        <5>1. PICK a, t : /\ a = (<<"begin", "url">> \o (IF ":authority" \in pseudo THEN <<"host">> ELSE <<>>))
                          /\ t = Those(gathered, Regular)
          OBVIOUS
        <5>2. calls = a \o t
          BY <2>2, <4>2, <5>1
        <5>3. a \in Seq(MessageCall) /\ t \in Seq(MessageCall) /\ <<f>> \in Seq(MessageCall)
          <6>1. {"begin", "url", "host"} \subseteq MessageCall
            BY DEF MessageCall, OnceTold
          <6>2. t \in Seq(Kind)
            BY <1>1, <5>1, ThoseOf DEF MessageTypes
          <6>3. t \in Seq(MessageCall)
            BY <6>2 DEF MessageCall
          <6>4. <<"begin", "url">> \in Seq(MessageCall)
            BY <6>1
          <6>5. (IF ":authority" \in pseudo THEN <<"host">> ELSE <<>>) \in Seq(MessageCall)
            BY <6>1
          <6>6. a \in Seq(MessageCall)
            <7>1. PICK x, h : x = <<"begin", "url">> /\ h = (IF ":authority" \in pseudo THEN <<"host">> ELSE <<>>)
              OBVIOUS
            <7>. QED BY <5>1, <6>4, <6>5, <7>1
          <6>. QED BY <3>2, <6>3, <6>6
        <5>4. handlerCalls' = a \o (t \o <<f>>)
          BY <3>1, <5>2, <5>3, JoinedInTwo
        <5>5. t \o <<f>> = Append(t, f)
          BY <3>2, <5>3, JoinedToNothing
        <5>6. Those(gathered', Regular) = Append(t, f)
          BY <1>2, <3>2, <5>1
        <5>7. ToldSoFar' = a \o Those(gathered', Regular)
          BY <1>3, <2>3, <4>2, <5>1 DEF ToldSoFar
        <5>. QED BY <5>4, <5>5, <5>6, <5>7
      <4>. QED BY <4>1, <4>2 DEF MessageTypes
    <3>8. \A i, j \in DOMAIN gathered' :
              /\ gathered'[i] = gathered'[j] /\ gathered'[i] \in Pseudo => i = j
              /\ i < j /\ gathered'[j] \in Pseudo => gathered'[i] \in Pseudo
      <4>1. PICK longer : longer = gathered'
        OBVIOUS
      <4>2. \A i, j \in DOMAIN longer :
                /\ longer[i] = longer[j] /\ longer[i] \in Pseudo => i = j
                /\ i < j /\ longer[j] \in Pseudo => longer[i] \in Pseudo
        BY <1>1, <1>3, <4>1, OrderKept
      <4>. QED BY <4>1, <4>2
    <3>9. pseudo' = ToSet(gathered') \cap Pseudo
      BY <1>1, <1>2, <1>3 DEF OpenMessage
    <3>10. ToSet(gathered') \cap (WrongPseudo \cup WrongRegular) = {}
      BY <1>1, <1>2, <1>3, <2>6, KindsDiffer DEF OpenMessage
    <3>11. regular' <=> ToSet(gathered') \cap Regular # {}
      BY <1>2, <2>3, <3>2
    <3>12. OpenMessage'
      BY <1>1, <1>3, <2>2, <2>3, <3>7, <3>8, <3>9, <3>10, <3>11 DEF OpenMessage
    <3>. QED BY <3>1, <3>5, <3>6, <3>12 DEF MessageInv, ReachesTheHandlerInOrder, OnlyLegalBlocks
  <2>. QED BY <2>5, <2>6
<1>. QED BY <1>5, <1>6

\* The end of a block completes the message, or refuses it.
LEMMA EndOfFieldsKeeps ==
    ASSUME MessageInv, EndOfFields
    PROVE  MessageInv'
<1>1. MessageTypes /\ OpenMessage /\ NothingOfTheIncomplete
  BY DEF MessageInv, EndOfFields
<1>2. gathered' = gathered /\ trailers' = trailers /\ pseudo' = pseudo /\ regular' = regular /\ flushed' = TRUE
  BY DEF EndOfFields
<1>3. ToldOnce(handlerCalls, OnceTold)
  BY <1>1 DEF NothingOfTheIncomplete, ToldOnce, OnceTold
<1>4. CASE PseudoIncomplete
  <2>1. outcome' = "refused" /\ handlerCalls' = handlerCalls
    BY <1>4 DEF EndOfFields
  <2>2. MessageTypes'
    BY <1>1, <1>2, <2>1 DEF MessageTypes
  <2>3. NothingOfTheIncomplete'
    BY <1>1, <1>2, <2>1 DEF NothingOfTheIncomplete
  <2>. QED BY <2>1, <2>2, <2>3 DEF MessageInv, ReachesTheHandlerInOrder, OnlyLegalBlocks
<1>5. CASE ~PseudoIncomplete
  <2>1. PICK calls, last : /\ calls = handlerCalls \o PseudoCalls
                           /\ last = (IF trailers THEN <<>> ELSE <<"headers">>)
    OBVIOUS
  <2>2. /\ calls \in Seq(MessageCall) /\ ToldOnce(calls, OnceTold) /\ "headers" \notin ToSet(calls)
        /\ trailers => calls = gathered
        /\ ~trailers => /\ Required \subseteq pseudo
                        /\ calls = (<<"begin", "url">> \o (IF ":authority" \in pseudo THEN <<"host">> ELSE <<>>))
                                     \o Those(gathered, Regular)
    BY <1>1, <1>3, <1>5, <2>1, AfterPseudo
  <2>3. outcome' = "complete" /\ handlerCalls' = calls \o last
    BY <1>5, <2>1 DEF EndOfFields
  <2>4. last \in Seq(MessageCall) /\ ToSet(last) \subseteq {"headers"} /\ ToldOnce(last, OnceTold)
    <3>1. ToSet(<<"headers">>) = {"headers"} /\ ToSet(<<>>) = {}
      BY SetOfOne, SetOfNone
    <3>2. ToldOnce(<<"headers">>, OnceTold) /\ ToldOnce(<<>>, OnceTold)
      BY DEF ToldOnce
    <3>3. "headers" \in MessageCall
      BY DEF MessageCall, OnceTold
    <3>4. last = <<>> \/ last = <<"headers">>
      BY <2>1
    <3>5. CASE last = <<>>
      BY <3>1, <3>2, <3>5
    <3>6. CASE last = <<"headers">>
      <4>1. <<"headers">> \in Seq(MessageCall)
        BY <3>3
      <4>. QED BY <3>1, <3>2, <3>6, <4>1
    <3>. QED BY <3>4, <3>5, <3>6
  <2>5. handlerCalls' \in Seq(MessageCall) /\ ToldOnce(handlerCalls', OnceTold)
    <3>1. ToSet(calls) \cap ToSet(last) \cap OnceTold = {}
      BY <2>2, <2>4
    <3>2. ToldOnce(calls \o last, OnceTold)
      BY <2>2, <2>4, <3>1, ToldOnceJoined
    <3>. QED BY <2>2, <2>3, <2>4, <3>2
  <2>6. MessageTypes'
    BY <1>1, <1>2, <2>5 DEF MessageTypes
  <2>7. trailers \/ Required \subseteq ToSet(gathered)
    BY <1>1, <2>2 DEF OpenMessage
  <2>8. NothingOfTheIncomplete'
    BY <1>2, <2>5, <2>7 DEF NothingOfTheIncomplete, ToldOnce, OnceTold
  <2>9. ":authority" \in pseudo <=> ":authority" \in ToSet(gathered)
    BY <1>1 DEF OpenMessage, Pseudo, RequestPseudo
  <2>10. ReachesTheHandlerInOrder'
    <3>1. CASE trailers
      <4>1. last = <<>> /\ "begin" \in MessageCall
        BY <2>1, <3>1 DEF MessageCall, OnceTold
      <4>2. calls \o <<>> = calls
        BY <2>2, <4>1, JoinedToNothing
      <4>. QED BY <1>2, <2>2, <2>3, <3>1, <4>1, <4>2 DEF ReachesTheHandlerInOrder
    <3>2. CASE ~trailers
      <4>1. PICK h : h = (IF ":authority" \in pseudo THEN <<"host">> ELSE <<>>)
        OBVIOUS
      <4>2. h = (IF ":authority" \in ToSet(gathered) THEN <<"host">> ELSE <<>>)
        BY <2>9, <4>1
      <4>3. handlerCalls' = ((<<"begin", "url">> \o h) \o Those(gathered, Regular)) \o <<"headers">>
        BY <2>1, <2>2, <2>3, <3>2, <4>1
      <4>. QED BY <1>2, <3>2, <4>2, <4>3 DEF ReachesTheHandlerInOrder, SelectFields
    <3>. QED BY <3>1, <3>2 DEF MessageTypes
  <2>11. OnlyLegalBlocks'
    <3>1. ToSet(gathered) \cap (WrongPseudo \cup WrongRegular) = {}
      BY <1>1 DEF OpenMessage
    <3>2. \A i, j \in DOMAIN gathered :
              /\ gathered[i] = gathered[j] /\ gathered[i] \in Pseudo => i = j
              /\ i < j /\ gathered[j] \in Pseudo => gathered[i] \in Pseudo
      BY <1>1 DEF OpenMessage
    <3>3. trailers => ToSet(gathered) \cap Pseudo = {}
      BY <1>1 DEF OpenMessage
    <3>. QED BY <1>2, <3>1, <3>2, <3>3 DEF OnlyLegalBlocks
  <2>. QED BY <2>3, <2>6, <2>8, <2>10, <2>11 DEF MessageInv
<1>. QED BY <1>4, <1>5

\* A block of fields, in whatever order they come, is a whole message to the handler, or
\* trailers of one, or it is refused and never told to its end.
THEOREM EveryBlockIsAMessage == MessageSpec => []BlocksAreMessages
<1>1. MessageInit => MessageInv
  <2>1. SUFFICES ASSUME MessageInit PROVE MessageInv
    OBVIOUS
  <2>2. /\ trailers \in BOOLEAN /\ gathered = <<>> /\ pseudo = {} /\ regular = FALSE /\ flushed = FALSE
        /\ handlerCalls = (IF trailers THEN <<>> ELSE <<"begin">>) /\ outcome = "open"
    BY <2>1 DEF MessageInit
  <2>3. ToSet(gathered) = {}
    BY <2>2, SetOfNone
  <2>4. MessageTypes
    <3>1. "begin" \in MessageCall
      BY DEF MessageCall, OnceTold
    <3>2. <<>> \in Seq(MessageCall) /\ <<"begin">> \in Seq(MessageCall) /\ <<>> \in Seq(Kind)
      BY <3>1
    <3>3. handlerCalls \in Seq(MessageCall)
      <4>1. handlerCalls = <<>> \/ handlerCalls = <<"begin">>
        BY <2>2
      <4>. QED BY <3>2, <4>1
    <3>. QED BY <2>2, <3>2, <3>3 DEF MessageTypes
  <2>5. OpenMessage
    <3>1. handlerCalls = ToldSoFar
      BY <2>2 DEF ToldSoFar
    <3>2. \A i, j \in DOMAIN gathered :
              /\ gathered[i] = gathered[j] /\ gathered[i] \in Pseudo => i = j
              /\ i < j /\ gathered[j] \in Pseudo => gathered[i] \in Pseudo
      <4>1. DOMAIN gathered = {}
        BY <2>2
      <4>. QED BY <4>1
    <3>. QED BY <2>2, <2>3, <3>1, <3>2 DEF OpenMessage
  <2>6. NothingOfTheIncomplete
    <3>1. ToSet(handlerCalls) \subseteq {"begin"}
      BY <2>2, SetOfNone, SetOfOne
    <3>2. "begin" \notin {"url", "host"} \cup Regular
      BY DEF Regular
    <3>3. \A i, j \in DOMAIN handlerCalls : i = j
      BY <2>2
    <3>4. ToSet(handlerCalls) \cap ({"url", "host"} \cup Regular) = {}
      BY <3>1, <3>2
    <3>. QED BY <3>3, <3>4 DEF NothingOfTheIncomplete
  <2>. QED BY <2>2, <2>4, <2>5, <2>6 DEF MessageInv, ReachesTheHandlerInOrder, OnlyLegalBlocks
<1>2. MessageInv /\ [MessageNext]_messageVars => MessageInv'
  <2>1. SUFFICES ASSUME MessageInv, [MessageNext]_messageVars PROVE MessageInv'
    OBVIOUS
  <2>2. ASSUME NEW f \in Kind, GatherField(f) PROVE MessageInv'
    <3>1. /\ outcome = "open" /\ gathered' = Append(gathered, f) /\ UNCHANGED trailers
          /\ PseudoField(f) \/ RegularField(f)
      BY <2>2 DEF GatherField
    <3>. QED BY <2>1, <3>1, PseudoFieldKeeps, RegularFieldKeeps
  <2>3. CASE UNCHANGED messageVars
    <3>1. /\ gathered' = gathered /\ trailers' = trailers /\ pseudo' = pseudo /\ regular' = regular
          /\ flushed' = flushed /\ handlerCalls' = handlerCalls /\ outcome' = outcome
      BY <2>3 DEF messageVars
    <3>2. MessageTypes' <=> MessageTypes
      BY <3>1 DEF MessageTypes
    <3>3. OpenMessage' <=> OpenMessage
      BY <3>1 DEF OpenMessage, ToldSoFar
    <3>4. NothingOfTheIncomplete' <=> NothingOfTheIncomplete
      BY <3>1 DEF NothingOfTheIncomplete
    <3>5. ReachesTheHandlerInOrder' <=> ReachesTheHandlerInOrder
      BY <3>1 DEF ReachesTheHandlerInOrder, SelectFields
    <3>6. OnlyLegalBlocks' <=> OnlyLegalBlocks
      BY <3>1 DEF OnlyLegalBlocks
    <3>. QED BY <2>1, <3>1, <3>2, <3>3, <3>4, <3>5, <3>6 DEF MessageInv
  <2>. QED BY <2>1, <2>2, <2>3, EndOfFieldsKeeps DEF MessageNext
<1>3. MessageInv => BlocksAreMessages
  BY DEF MessageInv, BlocksAreMessages
<1>. QED BY <1>1, <1>2, <1>3, PTL DEF MessageSpec

=============================================================================
