-------------------------- MODULE FileHandler_proofs --------------------------
(***************************************************************************)
(* Proofs about FileHandler, for any paths, slots of the cache, requests,  *)
(* sizes, ranges and lengths of a fragment: who owns each descriptor, and  *)
(* that what a response says of a file was true of it. The descriptors     *)
(* that the cache and the requests keep outlive the names of their files,  *)
(* so that the invariant says of every content whether its path still      *)
(* names it, and of every descriptor which content it leads to. And proofs *)
(* about Proxy, for any exchanges and backends of a client that has one    *)
(* message answered at a time: whose answer is told to whom; and about     *)
(* Listing, for any templates and directories: how old a page may be.      *)
(***************************************************************************)
EXTENDS FileHandler, Proxy, Listing, ListLemmas

-----------------------------------------------------------------------------
(* The types.                                                              *)

Slots == {FileSlot[p] : p \in FilePath}

Version == [path : FilePath, size : Nat, written : Nat, until : Nat \cup {-1}]
Entry == [path : FilePath \cup {""}, descriptor : Nat, size : Nat, time : Nat, checked : Nat]
Context ==
    [state : {"idle", "sending", "answered"}, path : FilePath \cup {""}, descriptor : Nat,
     offset : Nat, initial : Nat, final : Int, status : Nat, announced : Int,
     version : Nat, sent : Seq(Nat)]

FileTypeOK ==
    /\ versions \in Seq(Version)
    /\ files \in Seq(Nat) /\ \A f \in 1..Len(files) : files[f] \in 1..Len(versions)
    /\ disk \in [FilePath -> Int] /\ \A p \in FilePath : disk[p] \in -1..Len(files)
    /\ clock \in Nat
    /\ entries \in [Slots -> Entry]
    /\ \A i \in Slots : entries[i].descriptor \in 0..Len(files)
    /\ requests \in [FileStream -> Context]
    /\ \A s \in FileStream : /\ requests[s].descriptor \in 0..Len(files)
                             /\ requests[s].version \in 0..Len(versions)

-----------------------------------------------------------------------------
(* The invariant.                                                          *)

\* Every content is in a file of its own, and is told from the others of its path by
\* when it was written, which is what the tags are made of.
ContentsDiffer ==
    /\ IsInjective(files)
    /\ \A v, w \in 1..Len(versions) :
          versions[v].path = versions[w].path /\ versions[v].written = versions[w].written => v = w

IsFile(p) == disk[p] \notin {NoFile, Directory}

\* A content that has not ended is what its path names, and the other way around.
NamesAreCurrent ==
    /\ \A p \in FilePath :
          IsFile(p) => Stored(disk[p]).path = p /\ Stored(disk[p]).until = -1
    /\ \A v \in 1..Len(versions) :
          versions[v].until = -1 => IsFile(versions[v].path) /\ files[disk[versions[v].path]] = v

\* What an entry of the cache leads to was named by its path when it was checked.
EntryIsRecent(e) ==
    e.descriptor # NoFile =>
        /\ Stored(e.descriptor).path = e.path
        /\ Stored(e.descriptor).until # -1 => Stored(e.descriptor).until >= e.checked
EntriesAreRecent == \A i \in Slots : entries[i].checked <= clock /\ EntryIsRecent(entries[i])

\* What the head of a response said; a descriptor is only held while it sends.
Knows(c) ==
    /\ c.version # 0 => versions[c.version].path = c.path
    /\ c.state = "sending" =>
          /\ c.version # 0 /\ c.path \in FilePath
          /\ c.announced = c.final - c.initial + 1
          /\ c.descriptor = NoFile => c.sent = <<>>
    /\ c.state # "sending" => c.descriptor = NoFile

\* As long as the content that was announced has not ended, it is what will be opened, or
\* what is being read, and what was sent of it is the run of it up to the offset.
ReadsWhatItSaid(c) ==
    c.state = "sending" /\ versions[c.version].until = -1 =>
        /\ c.descriptor = NoFile /\ Holds(c.path) => EntryOf(c.path).descriptor = disk[c.path]
        /\ c.descriptor # NoFile =>
              /\ c.descriptor = disk[c.path]
              /\ c.offset >= c.initial /\ (c.offset <= c.final + 1 \/ c.offset = c.initial)
              /\ c.sent = [i \in 1..c.offset - c.initial |-> c.version]

RequestsAreFine == \A s \in FileStream : Knows(requests[s]) /\ ReadsWhatItSaid(requests[s])

FileInv ==
    /\ FileTypeOK /\ ContentsDiffer /\ NamesAreCurrent /\ EntriesAreRecent
    /\ RequestsAreFine /\ DescriptorsAreOwned

-----------------------------------------------------------------------------
(* What the actions are made of.                                           *)

\* How many there are in a set, and one of them more or less.
LEMMA CountWith ==
    ASSUME NEW S, IsFiniteSet(S), NEW d
    PROVE  /\ Cardinality(S) \in Nat /\ IsFiniteSet(S \ {d}) /\ Cardinality(S \ {d}) \in Nat
           /\ Cardinality(S) = Cardinality(S \ {d}) + (IF d \in S THEN 1 ELSE 0)
<1>1. IsFiniteSet(S \ {d}) /\ Cardinality(S) \in Nat
  BY FS_Subset, FS_CardinalityType
<1>2. Cardinality(S \ {d}) \in Nat
  BY <1>1, FS_CardinalityType
<1>3. CASE d \in S
  BY <1>1, <1>2, <1>3, FS_RemoveElement
<1>4. CASE d \notin S
  <2>1. S \ {d} = S
    BY <1>4
  <2>. QED BY <1>1, <1>4, <2>1
<1>. QED BY <1>1, <1>2, <1>3, <1>4

\* The greater of two numbers, which keeps what is left of a file from being less than 0.
LEMMA MaxOfTwo ==
    ASSUME NEW a \in Int, NEW b \in Int
    PROVE  Max({a, b}) = IF a >= b THEN a ELSE b
<1>1. \E x \in {a, b} : \A y \in {a, b} : x >= y
  OBVIOUS
<1>2. Max({a, b}) \in {a, b} /\ \A y \in {a, b} : Max({a, b}) >= y
  BY <1>1 DEF Max
<1>. QED BY <1>2

\* The least of three, which a fragment is cut to.
LEMMA MinOfThree ==
    ASSUME NEW a \in Int, NEW b \in Int, NEW c \in Int
    PROVE  /\ Min({a, b, c}) \in {a, b, c}
           /\ Min({a, b, c}) <= a /\ Min({a, b, c}) <= b /\ Min({a, b, c}) <= c
<1>1. \E x \in {a, b, c} : \A y \in {a, b, c} : x <= y
  <2>1. \/ a <= b /\ a <= c
        \/ b <= a /\ b <= c
        \/ c <= a /\ c <= b
    OBVIOUS
  <2>. QED BY <2>1
<1>2. Min({a, b, c}) \in {a, b, c} /\ \A y \in {a, b, c} : Min({a, b, c}) <= y
  BY <1>1 DEF Min
<1>. QED BY <1>2

\* The descriptors of the cache and those of the requests; a step changes one entry and
\* one request at most.
InEntries(es) == {i \in Slots : es[i].descriptor # NoFile}
InRequests(rs) == {s \in FileStream : rs[s].descriptor # NoFile}

One(e) == IF e.descriptor # NoFile THEN 1 ELSE 0

\* The descriptors of both are finite in number.
LEMMA CountsAre ==
    /\ \A es : IsFiniteSet(InEntries(es)) /\ Cardinality(InEntries(es)) \in Nat
    /\ \A rs : IsFiniteSet(InRequests(rs)) /\ Cardinality(InRequests(rs)) \in Nat
<1>1. IsFiniteSet(Slots)
  <2>1. Slots = {FileSlot[p] : p \in FilePath}
    BY DEF Slots
  <2>2. [p \in FilePath |-> FileSlot[p]] \in Surjection(FilePath, Slots)
    BY <2>1 DEF Surjection
  <2>. QED BY <2>2, FileAssumption, FS_Surjection
<1>2. ASSUME NEW es PROVE IsFiniteSet(InEntries(es)) /\ Cardinality(InEntries(es)) \in Nat
  <2>1. InEntries(es) \subseteq Slots
    BY DEF InEntries
  <2>. QED BY <1>1, <2>1, FS_Subset, FS_CardinalityType
<1>3. ASSUME NEW rs PROVE IsFiniteSet(InRequests(rs)) /\ Cardinality(InRequests(rs)) \in Nat
  <2>1. InRequests(rs) \subseteq FileStream
    BY DEF InRequests
  <2>. QED BY FileAssumption, <2>1, FS_Subset, FS_CardinalityType
<1>. QED BY <1>2, <1>3

\* An entry is replaced.
LEMMA EntryCounts ==
    ASSUME NEW es \in [Slots -> Entry], NEW i \in Slots, NEW e
    PROVE  Cardinality(InEntries([es EXCEPT ![i] = e]))
              = Cardinality(InEntries(es)) - One(es[i]) + One(e)
<1>. DEFINE fs == [es EXCEPT ![i] = e]
<1>2. IsFiniteSet(InEntries(es)) /\ IsFiniteSet(InEntries(fs))
  BY CountsAre
<1>3. InEntries(fs) \ {i} = InEntries(es) \ {i}
  BY DEF InEntries
<1>4. fs[i] = e
  OBVIOUS
<1>5. /\ i \in InEntries(fs) <=> One(e) = 1
      /\ i \in InEntries(es) <=> One(es[i]) = 1
      /\ One(e) \in {0, 1} /\ One(es[i]) \in {0, 1}
  BY <1>4 DEF InEntries, One
<1>. HIDE DEF fs
<1>6. /\ Cardinality(InEntries(es)) = Cardinality(InEntries(es) \ {i}) + One(es[i])
      /\ Cardinality(InEntries(es) \ {i}) \in Nat
  BY <1>2, <1>5, CountWith
<1>7. Cardinality(InEntries(fs)) = Cardinality(InEntries(fs) \ {i}) + One(e)
  BY <1>2, <1>5, CountWith
<1>8. Cardinality(InEntries(fs)) = Cardinality(InEntries(es)) - One(es[i]) + One(e)
  BY <1>3, <1>5, <1>6, <1>7
<1>. QED BY <1>8 DEF fs

\* A request gets another context.
LEMMA RequestCounts ==
    ASSUME NEW rs \in [FileStream -> Context], NEW s \in FileStream, NEW c
    PROVE  Cardinality(InRequests([rs EXCEPT ![s] = c]))
              = Cardinality(InRequests(rs)) - One(rs[s]) + One(c)
<1>. DEFINE qs == [rs EXCEPT ![s] = c]
<1>2. IsFiniteSet(InRequests(rs)) /\ IsFiniteSet(InRequests(qs))
  BY CountsAre
<1>3. InRequests(qs) \ {s} = InRequests(rs) \ {s}
  BY DEF InRequests
<1>4. qs[s] = c
  OBVIOUS
<1>5. /\ s \in InRequests(qs) <=> One(c) = 1
      /\ s \in InRequests(rs) <=> One(rs[s]) = 1
      /\ One(c) \in {0, 1} /\ One(rs[s]) \in {0, 1}
  BY <1>4 DEF InRequests, One
<1>. HIDE DEF qs
<1>6. /\ Cardinality(InRequests(rs)) = Cardinality(InRequests(rs) \ {s}) + One(rs[s])
      /\ Cardinality(InRequests(rs) \ {s}) \in Nat
  BY <1>2, <1>5, CountWith
<1>7. Cardinality(InRequests(qs)) = Cardinality(InRequests(qs) \ {s}) + One(c)
  BY <1>2, <1>5, CountWith
<1>8. Cardinality(InRequests(qs)) = Cardinality(InRequests(rs)) - One(rs[s]) + One(c)
  BY <1>3, <1>5, <1>6, <1>7
<1>. QED BY <1>8 DEF qs

\* What the invariant counts.
LEMMA OwnedIs ==
    ASSUME FileTypeOK
    PROVE  DescriptorsAreOwned
              <=> opened = Cardinality(InEntries(entries)) + Cardinality(InRequests(requests))
<1>1. DOMAIN entries = Slots
  BY DEF FileTypeOK
<1>. QED BY <1>1 DEF DescriptorsAreOwned, InEntries, InRequests

-----------------------------------------------------------------------------
(* The cache.                                                              *)

\* The descriptor and the entry that acquire_file_cache comes with: it is empty exactly
\* when the path does not open, and otherwise leads to a content of the path that it had
\* recently enough, and to the one it has now if that content has not ended.
LEMMA Acquires ==
    ASSUME FileInv, NEW p \in FilePath, NEW e, e = AcquireFileCache(p)
    PROVE  /\ e \in Entry /\ e.descriptor \in 0..Len(files) /\ e.checked <= clock
           /\ Refuses(p) <=> e.descriptor = NoFile
           /\ EntryIsRecent(e)
           /\ e.descriptor # NoFile =>
                /\ e.path = p /\ files[e.descriptor] \in 1..Len(versions)
                /\ Stored(e.descriptor) \in Version
                /\ Stored(e.descriptor).path = p
                /\ e.time = Stored(e.descriptor).written
                /\ e.size = Stored(e.descriptor).size
                /\ e.descriptor = disk[p] \/ (Holds(p) /\ e.descriptor = EntryOf(p).descriptor)
                /\ \/ Stored(e.descriptor).until = -1 /\ e.descriptor = disk[p]
                   \/ /\ Stored(e.descriptor).until # -1
                      /\ clock - Stored(e.descriptor).until < FileValid
           /\ DescriptorsAcquired(p) = opened - One(EntryOf(p)) + One(e)
<1>. DEFINE old == EntryOf(p)
<1>1. /\ FileSlot[p] \in Slots /\ old \in Entry /\ old.descriptor \in 0..Len(files)
      /\ old.checked <= clock /\ EntryIsRecent(old) /\ clock \in Nat
  BY DEF EntryOf, Slots, FileInv, FileTypeOK, EntriesAreRecent
<1>2. /\ disk[p] \in -1..Len(files) /\ Len(files) \in Nat
      /\ \A f \in 1..Len(files) : files[f] \in 1..Len(versions) /\ Stored(f) \in Version
  BY DEF FileInv, FileTypeOK, Stored
<1>3. DOMAIN files = 1..Len(files)
  BY DEF FileInv, FileTypeOK
<1>4. CASE Trusts(p)
  <2>1. e = Asked(old)
    BY <1>4 DEF AcquireFileCache
  <2>2. old.descriptor \in 1..Len(files) /\ old.path = p /\ clock - old.checked < FileValid
    BY <1>1, <1>2, <1>4 DEF Trusts, Holds, NoFile
  <2>3. /\ e.path = p /\ e.descriptor = old.descriptor /\ e.checked = old.checked
        /\ e.size = Stored(old.descriptor).size /\ e.time = Stored(old.descriptor).written
        /\ e \in Entry
    BY <1>1, <1>2, <2>1, <2>2 DEF Asked, Entry, Version
  <2>4. Stored(e.descriptor).path = p
    BY <1>1, <2>2, <2>3 DEF EntryIsRecent, NoFile
  <2>5. ASSUME Stored(e.descriptor).until = -1 PROVE e.descriptor = disk[p]
    <3>1. IsFile(p) /\ files[disk[p]] = files[e.descriptor]
      BY <1>2, <2>2, <2>3, <2>4, <2>5 DEF FileInv, NamesAreCurrent, Stored
    <3>2. disk[p] \in 1..Len(files)
      BY <1>2, <3>1 DEF IsFile, NoFile, Directory
    <3>. QED BY <1>3, <2>2, <2>3, <3>1, <3>2 DEF FileInv, ContentsDiffer, IsInjective
  <2>6. ASSUME Stored(e.descriptor).until # -1
        PROVE  clock - Stored(e.descriptor).until < FileValid
    <3>1. Stored(old.descriptor).until >= old.checked
      BY <1>1, <2>2, <2>3, <2>6 DEF EntryIsRecent, NoFile
    <3>2. Stored(old.descriptor) \in Version
      BY <1>2, <2>2
    <3>3. Stored(old.descriptor).until \in Nat /\ old.checked \in Nat
      BY <1>1, <2>3, <2>6, <3>2 DEF Version, Entry
    <3>. QED BY <1>1, <2>2, <2>3, <3>1, <3>3, FileAssumption
  <2>7. EntryIsRecent(e)
    BY <1>1, <2>2, <2>3 DEF EntryIsRecent
  <2>8. ~ Refuses(p) /\ e.descriptor # NoFile
    BY <1>4, <2>2, <2>3 DEF Refuses, NoFile
  <2>9. DescriptorsAcquired(p) = opened - 0 + 0 /\ One(EntryOf(p)) = One(e)
    BY <1>4, <2>3 DEF DescriptorsAcquired, One
  <2>10. opened \in Int
    <3>1. entries \in [Slots -> Entry] /\ requests \in [FileStream -> Context]
      BY DEF FileInv, FileTypeOK
    <3>2. Cardinality(InEntries(entries)) \in Nat /\ Cardinality(InRequests(requests)) \in Nat
      BY <3>1, CountsAre
    <3>. QED BY <3>2, OwnedIs DEF FileInv
  <2>11. Holds(p)
    BY <1>4 DEF Trusts
  <2>. QED BY <1>1, <1>2, <2>2, <2>3, <2>4, <2>5, <2>6, <2>7, <2>8, <2>9, <2>10, <2>11 DEF One
<1>5. CASE Refuses(p)
  <2>1. ~ Trusts(p) /\ e = NewEntry
    BY <1>5 DEF AcquireFileCache, Refuses
  <2>2. e \in Entry /\ e.descriptor = NoFile /\ e.checked = 0
    <3>1. NewEntry \in Entry
      BY DEF NewEntry, Entry, NoFile
    <3>2. NewEntry.descriptor = NoFile /\ NewEntry.checked = 0
      BY DEF NewEntry
    <3>. QED BY <2>1, <3>1, <3>2
  <2>3. DescriptorsAcquired(p) = opened - One(EntryOf(p)) + One(e)
    BY <1>5, <2>1, <2>2 DEF DescriptorsAcquired, One
  <2>. QED BY <1>1, <1>2, <1>5, <2>2, <2>3 DEF EntryIsRecent, NoFile
<1>6. CASE ~ Trusts(p) /\ ~ Refuses(p)
  <2>1. /\ e = [path |-> p, descriptor |-> disk[p], size |-> Stored(disk[p]).size,
                time |-> Stored(disk[p]).written, checked |-> clock]
        /\ IsFile(p) /\ disk[p] \in 1..Len(files)
    BY <1>2, <1>6 DEF AcquireFileCache, Refuses, IsFile, NoFile, Directory
  <2>2. e \in Entry
    <3>1. Stored(disk[p]).size \in Nat /\ Stored(disk[p]).written \in Nat /\ disk[p] \in Nat
      BY <1>2, <2>1 DEF Version
    <3>2. p \in FilePath \cup {""} /\ clock \in Nat
      BY <1>1
    <3>3. \A n \in FilePath \cup {""}, d, size, time, checked \in Nat :
             [path |-> n, descriptor |-> d, size |-> size, time |-> time,
              checked |-> checked] \in Entry
      BY DEF Entry
    <3>. QED BY <2>1, <3>1, <3>2, <3>3, ZenonT(30)
  <2>3. /\ e.path = p /\ e.descriptor = disk[p] /\ e.checked = clock
        /\ e.size = Stored(disk[p]).size /\ e.time = Stored(disk[p]).written
    BY <2>1
  <2>4. Stored(disk[p]).path = p /\ Stored(disk[p]).until = -1
    BY <2>1 DEF FileInv, NamesAreCurrent
  <2>5. DescriptorsAcquired(p) = opened - One(EntryOf(p)) + One(e)
    BY <1>6, <2>1, <2>3 DEF DescriptorsAcquired, One, NoFile
  <2>6. EntryIsRecent(e)
    BY <2>3, <2>4 DEF EntryIsRecent
  <2>7. /\ e.descriptor \in 1..Len(files) /\ e.checked <= clock
        /\ files[e.descriptor] \in 1..Len(versions) /\ Stored(e.descriptor) \in Version
    BY <1>1, <1>2, <2>1, <2>3
  <2>. QED BY <1>2, <1>6, <2>2, <2>3, <2>4, <2>5, <2>6, <2>7 DEF NoFile
<1>. QED BY <1>4, <1>5, <1>6

-----------------------------------------------------------------------------
(* The files.                                                              *)

\* What a request and an entry say of the contents.
LEMMA FileTyped ==
    ASSUME FileInv
    PROVE  /\ versions \in Seq(Version) /\ Len(versions) \in Nat
           /\ \A v \in 1..Len(versions) : versions[v] \in Version
           /\ files \in Seq(Nat) /\ Len(files) \in Nat /\ DOMAIN files = 1..Len(files)
           /\ \A f \in 1..Len(files) : files[f] \in 1..Len(versions) /\ Stored(f) \in Version
           /\ disk \in [FilePath -> Int] /\ \A p \in FilePath : disk[p] \in -1..Len(files)
           /\ \A p \in FilePath : IsFile(p) => disk[p] \in 1..Len(files)
           /\ clock \in Nat
           /\ entries \in [Slots -> Entry] /\ requests \in [FileStream -> Context]
           /\ \A i \in Slots : entries[i] \in Entry /\ entries[i].descriptor \in 0..Len(files)
           /\ \A s \in FileStream : /\ requests[s] \in Context
                                    /\ requests[s].descriptor \in 0..Len(files)
                                    /\ requests[s].version \in 0..Len(versions)
           /\ \A p \in FilePath : FileSlot[p] \in Slots /\ EntryOf(p) = entries[FileSlot[p]]
<1>1. FileTypeOK
  BY DEF FileInv
<1>2. \A p \in FilePath : IsFile(p) => disk[p] \in 1..Len(files)
  BY <1>1 DEF FileTypeOK, IsFile, NoFile, Directory
<1>. QED BY <1>1, <1>2 DEF FileTypeOK, Stored, EntryOf, Slots

\* When a path gets another content, or none, the contents that it had end now: what the
\* entries and the requests say stays true.
LEMMA FilesMove ==
    ASSUME FileInv, NEW p \in FilePath,
           UNCHANGED <<clock, entries, requests, opened>>,
           \A v \in 1..Len(versions) :
              /\ versions'[v].path = versions[v].path
              /\ versions'[v].until = IF versions[v].path = p /\ versions[v].until = -1
                                      THEN clock ELSE versions[v].until,
           \A f \in 1..Len(files) :
              \/ files'[f] = files[f]
              \/ /\ IsFile(p) /\ f = disk[p]
                 /\ versions'[files'[f]].path = p /\ versions'[files'[f]].until = -1,
           \A q \in FilePath \ {p} : disk'[q] = disk[q]
    PROVE  EntriesAreRecent' /\ RequestsAreFine' /\ DescriptorsAreOwned'
<1>1. ASSUME NEW i \in Slots PROVE (entries[i].checked <= clock /\ EntryIsRecent(entries[i]))'
  <2>. DEFINE e == entries[i]
              f == e.descriptor
  <2>1. e \in Entry /\ f \in 0..Len(files) /\ e.checked <= clock /\ EntryIsRecent(e)
    BY FileTyped DEF FileInv, EntriesAreRecent
  <2>2. SUFFICES ASSUME f # NoFile
                 PROVE  /\ Stored(f)'.path = e.path
                        /\ Stored(f)'.until # -1 => Stored(f)'.until >= e.checked
    BY <2>1 DEF EntryIsRecent
  <2>3. /\ f \in 1..Len(files) /\ files[f] \in 1..Len(versions) /\ Stored(f) = versions[files[f]]
        /\ Stored(f)' = versions'[files'[f]] /\ Stored(f) \in Version
        /\ Stored(f).path = e.path
        /\ Stored(f).until # -1 => Stored(f).until >= e.checked
    BY <2>1, <2>2, FileTyped DEF EntryIsRecent, Stored, NoFile
  <2>4. CASE files'[f] = files[f]
    BY <2>1, <2>3, <2>4
  <2>5. CASE files'[f] # files[f]
    <3>1. /\ IsFile(p) /\ f = disk[p] /\ Stored(f)'.path = p /\ Stored(f)'.until = -1
      BY <2>3, <2>5
    <3>2. Stored(disk[p]).path = p
      BY <3>1 DEF FileInv, NamesAreCurrent
    <3>. QED BY <2>3, <3>1, <3>2
  <2>. QED BY <2>4, <2>5
<1>2. ASSUME NEW s \in FileStream PROVE (Knows(requests[s]) /\ ReadsWhatItSaid(requests[s]))'
  <2>. DEFINE c == requests[s]
  <2>1. /\ c \in Context /\ c.version \in 0..Len(versions) /\ Knows(c) /\ ReadsWhatItSaid(c)
        /\ requests'[s] = c
    BY FileTyped DEF FileInv, RequestsAreFine
  <2>2. Knows(c)'
    <3>1. c.version # 0 => versions'[c.version].path = versions[c.version].path
      BY <2>1, FileTyped
    <3>. QED BY <2>1, <3>1 DEF Knows
  <2>3. ReadsWhatItSaid(c)'
    <3>1. SUFFICES ASSUME c.state = "sending", versions'[c.version].until = -1
                   PROVE  /\ c.descriptor = NoFile /\ Holds(c.path) =>
                                EntryOf(c.path).descriptor = disk'[c.path]
                          /\ c.descriptor # NoFile =>
                                /\ c.descriptor = disk'[c.path]
                                /\ c.offset >= c.initial
                                /\ c.offset <= c.final + 1 \/ c.offset = c.initial
                                /\ c.sent = [i \in 1..c.offset - c.initial |-> c.version]
      BY <2>1 DEF ReadsWhatItSaid, Holds, EntryOf
    <3>2. c.version \in 1..Len(versions) /\ c.path \in FilePath /\ versions[c.version].path = c.path
      BY <2>1, <3>1 DEF Knows
    <3>3. versions[c.version].until = -1 /\ c.path # p
      <4>1. clock # -1
        BY FileTyped
      <4>2. -1 = IF versions[c.version].path = p /\ versions[c.version].until = -1
                 THEN clock ELSE versions[c.version].until
        BY <3>1, <3>2
      <4>. QED BY <3>2, <4>1, <4>2
    <3>4. disk'[c.path] = disk[c.path]
      BY <3>2, <3>3
    <3>. QED BY <2>1, <3>1, <3>3, <3>4 DEF ReadsWhatItSaid
  <2>. QED BY <2>1, <2>2, <2>3
<1>3. DescriptorsAreOwned'
  BY DEF FileInv, DescriptorsAreOwned
<1>. QED BY <1>1, <1>2, <1>3 DEF EntriesAreRecent, RequestsAreFine

\* The contents of a path end, those of others do not.
LEMMA EndedIs ==
    ASSUME FileInv, NEW p \in FilePath
    PROVE  /\ Ended(p) \in Seq(Version) /\ Len(Ended(p)) = Len(versions)
           /\ \A v \in 1..Len(versions) :
                 /\ Ended(p)[v].path = versions[v].path /\ Ended(p)[v].size = versions[v].size
                 /\ Ended(p)[v].written = versions[v].written
                 /\ Ended(p)[v].until = IF versions[v].path = p /\ versions[v].until = -1
                                        THEN clock ELSE versions[v].until
<1>1. ASSUME NEW v \in 1..Len(versions)
      PROVE  /\ Ended(p)[v] \in Version
             /\ Ended(p)[v].path = versions[v].path /\ Ended(p)[v].size = versions[v].size
             /\ Ended(p)[v].written = versions[v].written
             /\ Ended(p)[v].until = IF versions[v].path = p /\ versions[v].until = -1
                                    THEN clock ELSE versions[v].until
  <2>1. /\ versions[v] \in Version /\ clock \in Nat
        /\ Ended(p)[v] = IF versions[v].path = p /\ versions[v].until = -1
                         THEN [versions[v] EXCEPT !.until = clock] ELSE versions[v]
    BY FileTyped DEF Ended
  <2>. QED BY <2>1 DEF Version
<1>2. DOMAIN Ended(p) = 1..Len(versions) /\ Len(versions) \in Nat
  BY FileTyped DEF Ended
<1>3. Ended(p) = [v \in 1..Len(versions) |-> Ended(p)[v]]
  BY DEF Ended
<1>. HIDE DEF Ended
<1>4. Ended(p) \in Seq(Version) /\ Len(Ended(p)) = Len(versions)
  BY <1>1, <1>2, <1>3
<1>. QED BY <1>1, <1>4

\* One number more.
LEMMA OneMore ==
    ASSUME NEW m \in Nat, NEW n, n = m + 1
    PROVE  /\ n \in Nat /\ n \notin 1..m /\ n \in 1..n
           /\ \A i \in 1..n : i = n \/ i \in 1..m
           /\ \A i \in 1..m : i \in 1..n
           /\ \A i \in 0..m : i \in 0..n
  OBVIOUS

\* A content more: the one that its path had has ended, and the others are as they were.
LEMMA NewVersionIs ==
    ASSUME FileInv, NEW p \in FilePath, NEW size \in Nat,
           NEW u, u = NewVersion(p, size), NEW n, n = Len(versions) + 1
    PROVE  /\ u \in Seq(Version) /\ Len(u) = n
           /\ \A v \in 1..Len(versions) :
                 /\ u[v].path = versions[v].path /\ u[v].size = versions[v].size
                 /\ u[v].written = versions[v].written
                 /\ u[v].until = IF versions[v].path = p /\ versions[v].until = -1
                                 THEN clock ELSE versions[v].until
           /\ u[n].path = p /\ u[n].size = size /\ u[n].written = clock /\ u[n].until = -1
<1>. DEFINE new == [path |-> p, size |-> size, written |-> clock, until |-> -1]
<1>1. new \in Version
  BY FileTyped DEF Version
<1>2. u = Append(Ended(p), new)
  BY DEF NewVersion
<1>. HIDE DEF new
<1>3. /\ u \in Seq(Version) /\ Len(u) = n /\ n \in Nat
      /\ \A v \in 1..n : u[v] = IF v <= Len(versions) THEN Ended(p)[v] ELSE new
  BY <1>1, <1>2, EndedIs, Appended, FileTyped
<1>4. u[n] = new /\ \A v \in 1..Len(versions) : u[v] = Ended(p)[v]
  BY <1>3, FileTyped, SMTT(20)
<1>. QED BY <1>3, <1>4, EndedIs DEF new

\* Another file in the place of what a path names.
LEMMA ReplaceFileKeeps ==
    ASSUME FileInv, NEW p \in FilePath, NEW size \in FileSize, ReplaceFile(p, size)
    PROVE  FileInv'
<1>. DEFINE n == Len(versions) + 1
            g == Len(files) + 1
<1>1. /\ ~ WrittenNow(p) /\ versions' = NewVersion(p, size)
      /\ files' = Append(files, n) /\ disk' = [disk EXCEPT ![p] = g]
      /\ UNCHANGED <<clock, entries, requests, opened>>
  BY DEF ReplaceFile
<1>2. /\ size \in Nat /\ n \in Nat /\ n = Len(versions) + 1 /\ n \notin 1..Len(versions)
      /\ g \in Nat /\ g = Len(files) + 1 /\ g \notin 1..Len(files)
      /\ \A f \in 1..g : f = g \/ f \in 1..Len(files)
      /\ \A v \in 1..n : v = n \/ v \in 1..Len(versions)
      /\ n \in 1..n /\ 1..Len(versions) \subseteq 1..n /\ 0..Len(versions) \subseteq 0..n
  <2>1. size \in Nat /\ Len(versions) \in Nat /\ Len(files) \in Nat
    BY FileAssumption, FileTyped
  <2>2. n = Len(versions) + 1 /\ g = Len(files) + 1
    OBVIOUS
  <2>. HIDE DEF n, g
  <2>3. /\ n \in Nat /\ n \notin 1..Len(versions) /\ n \in 1..n
        /\ \A i \in 1..n : i = n \/ i \in 1..Len(versions)
        /\ \A i \in 1..Len(versions) : i \in 1..n
        /\ \A i \in 0..Len(versions) : i \in 0..n
    BY <2>1, <2>2, OneMore
  <2>4. /\ g \in Nat /\ g \notin 1..Len(files)
        /\ \A i \in 1..g : i = g \/ i \in 1..Len(files)
    BY <2>1, <2>2, OneMore
  <2>. QED BY <2>1, <2>2, <2>3, <2>4
<1>. HIDE DEF n, g
<1>3. /\ versions' \in Seq(Version) /\ Len(versions') = n
      /\ \A v \in 1..Len(versions) :
            /\ versions'[v].path = versions[v].path /\ versions'[v].written = versions[v].written
            /\ versions'[v].until = IF versions[v].path = p /\ versions[v].until = -1
                                    THEN clock ELSE versions[v].until
      /\ versions'[n].path = p /\ versions'[n].written = clock /\ versions'[n].until = -1
  BY <1>1, <1>2, NewVersionIs
<1>4. /\ files' \in Seq(Nat) /\ Len(files') = g /\ files'[g] = n
      /\ \A f \in 1..Len(files) : files'[f] = files[f]
      /\ IsInjective(files')
  <2>1. n \notin ToSet(files) /\ IsInjective(files)
    <3>1. \A f \in 1..Len(files) : files[f] # n
      BY <1>2, FileTyped
    <3>. QED BY <3>1, FileTyped DEF ToSet, FileInv, ContentsDiffer
  <2>2. /\ files' \in Seq(Nat) /\ Len(files') = g /\ IsInjective(files')
        /\ \A f \in 1..g : files'[f] = IF f <= Len(files) THEN files[f] ELSE n
    BY <1>1, <1>2, <2>1, Appended, FileTyped
  <2>3. g \in 1..g /\ ~ (g <= Len(files)) /\ \A f \in 1..Len(files) : f \in 1..g /\ f <= Len(files)
    BY <1>2, FileTyped
  <2>. QED BY <2>2, <2>3
<1>5. disk'[p] = g /\ \A q \in FilePath \ {p} : disk'[q] = disk[q]
  BY <1>1, FileTyped
<1>6. EntriesAreRecent' /\ RequestsAreFine' /\ DescriptorsAreOwned'
  BY <1>1, <1>3, <1>4, <1>5, FilesMove
<1>7. FileTypeOK'
  <2>1. \A f \in 1..g : files'[f] \in 1..n
    BY <1>2, <1>4, FileTyped
  <2>2. disk' \in [FilePath -> Int] /\ \A q \in FilePath : disk'[q] \in -1..g
    BY <1>1, <1>2, <1>5, FileTyped
  <2>3. /\ \A i \in Slots : entries[i].descriptor \in 0..g
        /\ \A s \in FileStream : /\ requests[s].descriptor \in 0..g
                                 /\ requests[s].version \in 0..n
    BY <1>2, FileTyped
  <2>. QED BY <1>1, <1>3, <1>4, <2>1, <2>2, <2>3, FileTyped DEF FileTypeOK
<1>8. ContentsDiffer'
  <2>1. ASSUME NEW v \in 1..n, NEW w \in 1..n, versions'[v].path = versions'[w].path,
               versions'[v].written = versions'[w].written
        PROVE  v = w
    <3>1. \A x \in 1..Len(versions) : versions[x].path # p \/ versions[x].written # clock
      BY <1>1 DEF WrittenNow
    <3>2. \A x \in 1..n : x = n \/ x \in 1..Len(versions)
      BY <1>2
    <3>3. CASE v \in 1..Len(versions) /\ w \in 1..Len(versions)
      BY <1>3, <2>1, <3>3 DEF FileInv, ContentsDiffer
    <3>. QED BY <1>3, <2>1, <3>1, <3>2, <3>3
  <2>. QED BY <1>3, <1>4, <2>1 DEF ContentsDiffer
<1>9. NamesAreCurrent'
  <2>1. ASSUME NEW q \in FilePath, IsFile(q)'
        PROVE  Stored(disk[q])'.path = q /\ Stored(disk[q])'.until = -1
    <3>1. CASE q = p
      BY <1>3, <1>4, <1>5, <3>1 DEF Stored
    <3>2. CASE q # p
      <4>1. disk'[q] = disk[q] /\ IsFile(q)
        BY <1>5, <2>1, <3>2 DEF IsFile
      <4>2. disk[q] \in 1..Len(files) /\ Stored(disk[q]).path = q /\ Stored(disk[q]).until = -1
        BY <4>1, FileTyped DEF FileInv, NamesAreCurrent
      <4>3. Stored(disk[q])' = versions'[files[disk[q]]] /\ files[disk[q]] \in 1..Len(versions)
        BY <1>4, <4>1, <4>2, FileTyped DEF Stored
      <4>. QED BY <1>3, <3>2, <4>2, <4>3 DEF Stored
    <3>. QED BY <3>1, <3>2
  <2>2. ASSUME NEW v \in 1..n, versions'[v].until = -1
        PROVE  (IsFile(versions[v].path) /\ files[disk[versions[v].path]] = v)'
    <3>1. CASE v = n
      <4>1. IsFile(p)'
        BY <1>2, <1>5, FileTyped DEF IsFile, NoFile, Directory
      <4>. QED BY <1>3, <1>4, <1>5, <3>1, <4>1
    <3>2. CASE v # n
      <4>1. v \in 1..Len(versions)
        BY <1>2, <3>2
      <4>2. versions[v].until = -1 /\ versions[v].path # p /\ versions'[v].path = versions[v].path
        <5>1. clock # -1
          BY FileTyped
        <5>. QED BY <1>3, <2>2, <4>1, <5>1
      <4>3. /\ versions[v].path \in FilePath
            /\ IsFile(versions[v].path) /\ files[disk[versions[v].path]] = v
        BY <4>1, <4>2, FileTyped DEF FileInv, NamesAreCurrent, Version
      <4>4. /\ disk'[versions[v].path] = disk[versions[v].path]
            /\ disk[versions[v].path] \in 1..Len(files)
        BY <1>5, <4>2, <4>3, FileTyped
      <4>. QED BY <1>4, <4>2, <4>3, <4>4 DEF IsFile
    <3>. QED BY <3>1, <3>2
  <2>. QED BY <1>3, <2>1, <2>2 DEF NamesAreCurrent
<1>. QED BY <1>6, <1>7, <1>8, <1>9 DEF FileInv

\* The file of a path is written over.
LEMMA WriteFileKeeps ==
    ASSUME FileInv, NEW p \in FilePath, NEW size \in FileSize, WriteFile(p, size)
    PROVE  FileInv'
<1>. DEFINE n == Len(versions) + 1
            g == disk[p]
<1>1. /\ ~ WrittenNow(p) /\ versions' = NewVersion(p, size) /\ IsFile(p)
      /\ files' = [files EXCEPT ![g] = n]
      /\ UNCHANGED <<disk, clock, entries, requests, opened>>
  BY DEF WriteFile, IsFile
<1>2. /\ size \in Nat /\ n \in Nat /\ n = Len(versions) + 1 /\ n \notin 1..Len(versions)
      /\ g \in 1..Len(files) /\ g = disk[p]
      /\ \A v \in 1..n : v = n \/ v \in 1..Len(versions)
      /\ n \in 1..n /\ 1..Len(versions) \subseteq 1..n /\ 0..Len(versions) \subseteq 0..n
  <2>1. size \in Nat /\ Len(versions) \in Nat /\ g \in 1..Len(files) /\ g = disk[p]
    BY <1>1, FileAssumption, FileTyped
  <2>2. n = Len(versions) + 1
    OBVIOUS
  <2>. HIDE DEF n, g
  <2>3. /\ n \in Nat /\ n \notin 1..Len(versions) /\ n \in 1..n
        /\ \A i \in 1..n : i = n \/ i \in 1..Len(versions)
        /\ \A i \in 1..Len(versions) : i \in 1..n
        /\ \A i \in 0..Len(versions) : i \in 0..n
    BY <2>1, <2>2, OneMore
  <2>. QED BY <2>1, <2>2, <2>3
<1>. HIDE DEF n, g
<1>3. /\ versions' \in Seq(Version) /\ Len(versions') = n
      /\ \A v \in 1..Len(versions) :
            /\ versions'[v].path = versions[v].path /\ versions'[v].written = versions[v].written
            /\ versions'[v].until = IF versions[v].path = p /\ versions[v].until = -1
                                    THEN clock ELSE versions[v].until
      /\ versions'[n].path = p /\ versions'[n].written = clock /\ versions'[n].until = -1
  BY <1>1, <1>2, NewVersionIs
<1>4. /\ files' \in Seq(Nat) /\ Len(files') = Len(files) /\ files'[g] = n
      /\ DOMAIN files' = 1..Len(files)
      /\ \A f \in 1..Len(files) : f # g => files'[f] = files[f]
  BY <1>1, <1>2, FileTyped
<1>5. EntriesAreRecent' /\ RequestsAreFine' /\ DescriptorsAreOwned'
  BY <1>1, <1>2, <1>3, <1>4, FilesMove
<1>6. FileTypeOK'
  <2>1. \A f \in 1..Len(files) : files'[f] \in 1..n
    BY <1>2, <1>4, FileTyped
  <2>2. \A s \in FileStream : requests[s].version \in 0..n
    BY <1>2, FileTyped
  <2>. QED BY <1>1, <1>3, <1>4, <2>1, <2>2, FileTyped DEF FileTypeOK
<1>7. ContentsDiffer'
  <2>1. ASSUME NEW v \in 1..n, NEW w \in 1..n, versions'[v].path = versions'[w].path,
               versions'[v].written = versions'[w].written
        PROVE  v = w
    <3>1. \A x \in 1..Len(versions) : versions[x].path # p \/ versions[x].written # clock
      BY <1>1 DEF WrittenNow
    <3>2. \A x \in 1..n : x = n \/ x \in 1..Len(versions)
      BY <1>2
    <3>3. CASE v \in 1..Len(versions) /\ w \in 1..Len(versions)
      BY <1>3, <2>1, <3>3 DEF FileInv, ContentsDiffer
    <3>. QED BY <1>3, <2>1, <3>1, <3>2, <3>3
  <2>2. IsInjective(files')
    <3>1. \A f \in 1..Len(files) : files[f] # n
      BY <1>2, FileTyped
    <3>2. \A f, h \in 1..Len(files) : files[f] = files[h] => f = h
      BY FileTyped DEF FileInv, ContentsDiffer, IsInjective
    <3>3. ASSUME NEW f \in 1..Len(files), NEW h \in 1..Len(files), files'[f] = files'[h]
          PROVE  f = h
      BY <1>2, <1>4, <3>1, <3>2, <3>3
    <3>. QED BY <1>4, <3>3 DEF IsInjective
  <2>. QED BY <1>3, <2>1, <2>2 DEF ContentsDiffer
<1>8. NamesAreCurrent'
  <2>1. ASSUME NEW q \in FilePath, IsFile(q)'
        PROVE  Stored(disk[q])'.path = q /\ Stored(disk[q])'.until = -1
    <3>1. CASE q = p
      BY <1>1, <1>2, <1>3, <1>4, <3>1 DEF Stored
    <3>2. CASE q # p
      <4>1. disk'[q] = disk[q] /\ IsFile(q)
        BY <1>1, <2>1 DEF IsFile
      <4>2. disk[q] \in 1..Len(files) /\ Stored(disk[q]).path = q /\ Stored(disk[q]).until = -1
        BY <4>1, FileTyped DEF FileInv, NamesAreCurrent
      <4>3. disk[q] # g
        BY <1>1, <1>2, <3>2, <4>2 DEF FileInv, NamesAreCurrent
      <4>4. Stored(disk[q])' = versions'[files[disk[q]]] /\ files[disk[q]] \in 1..Len(versions)
        BY <1>4, <4>1, <4>2, <4>3, FileTyped DEF Stored
      <4>. QED BY <1>3, <3>2, <4>2, <4>4 DEF Stored
    <3>. QED BY <3>1, <3>2
  <2>2. ASSUME NEW v \in 1..n, versions'[v].until = -1
        PROVE  (IsFile(versions[v].path) /\ files[disk[versions[v].path]] = v)'
    <3>1. CASE v = n
      BY <1>1, <1>2, <1>3, <1>4, <3>1 DEF IsFile
    <3>2. CASE v # n
      <4>1. v \in 1..Len(versions)
        BY <1>2, <3>2
      <4>2. versions[v].until = -1 /\ versions[v].path # p /\ versions'[v].path = versions[v].path
        <5>1. clock # -1
          BY FileTyped
        <5>. QED BY <1>3, <2>2, <4>1, <5>1
      <4>3. /\ versions[v].path \in FilePath
            /\ IsFile(versions[v].path) /\ files[disk[versions[v].path]] = v
        BY <4>1, <4>2, FileTyped DEF FileInv, NamesAreCurrent, Version
      <4>4. /\ disk[versions[v].path] \in 1..Len(files) /\ disk[versions[v].path] # g
        <5>1. Stored(g).path = p /\ Stored(disk[versions[v].path]).path = versions[v].path
          BY <1>1, <1>2, <4>3 DEF FileInv, NamesAreCurrent
        <5>. QED BY <4>2, <4>3, <5>1, FileTyped
      <4>. QED BY <1>1, <1>4, <4>2, <4>3, <4>4 DEF IsFile
    <3>. QED BY <3>1, <3>2
  <2>. QED BY <1>3, <2>1, <2>2 DEF NamesAreCurrent
<1>. QED BY <1>5, <1>6, <1>7, <1>8 DEF FileInv

\* A path that loses its file.
LEMMA RemoveFileKeeps ==
    ASSUME FileInv, NEW p \in FilePath, RemoveFile(p)
    PROVE  FileInv'
<1>1. /\ IsFile(p) /\ versions' = Ended(p)
      /\ UNCHANGED <<files, clock, entries, requests, opened>>
  BY DEF RemoveFile, IsFile
<1>2. PICK left \in {NoFile, Directory} : disk' = [disk EXCEPT ![p] = left]
  BY DEF RemoveFile
<1>3. /\ disk'[p] = left /\ \A q \in FilePath \ {p} : disk'[q] = disk[q]
      /\ left \in {0, -1} /\ ~ IsFile(p)'
  BY <1>2, FileTyped DEF IsFile, NoFile, Directory
<1>4. /\ versions' \in Seq(Version) /\ Len(versions') = Len(versions)
      /\ \A v \in 1..Len(versions) :
            /\ versions'[v].path = versions[v].path /\ versions'[v].written = versions[v].written
            /\ versions'[v].until = IF versions[v].path = p /\ versions[v].until = -1
                                    THEN clock ELSE versions[v].until
  BY <1>1, EndedIs
<1>5. EntriesAreRecent' /\ RequestsAreFine' /\ DescriptorsAreOwned'
  BY <1>1, <1>3, <1>4, FilesMove
<1>6. FileTypeOK'
  <2>1. disk' \in [FilePath -> Int] /\ \A q \in FilePath : disk'[q] \in -1..Len(files)
    BY <1>2, <1>3, FileTyped
  <2>. QED BY <1>1, <1>4, <2>1, FileTyped DEF FileTypeOK
<1>7. ContentsDiffer'
  BY <1>1, <1>4 DEF FileInv, ContentsDiffer
<1>8. NamesAreCurrent'
  <2>1. ASSUME NEW q \in FilePath, IsFile(q)'
        PROVE  Stored(disk[q])'.path = q /\ Stored(disk[q])'.until = -1
    <3>1. q # p /\ disk'[q] = disk[q] /\ IsFile(q)
      BY <1>3, <2>1 DEF IsFile
    <3>2. disk[q] \in 1..Len(files) /\ Stored(disk[q]).path = q /\ Stored(disk[q]).until = -1
      BY <3>1, FileTyped DEF FileInv, NamesAreCurrent
    <3>3. Stored(disk[q])' = versions'[files[disk[q]]] /\ files[disk[q]] \in 1..Len(versions)
      BY <1>1, <3>1, <3>2, FileTyped DEF Stored
    <3>. QED BY <1>4, <3>1, <3>2, <3>3 DEF Stored
  <2>2. ASSUME NEW v \in 1..Len(versions), versions'[v].until = -1
        PROVE  (IsFile(versions[v].path) /\ files[disk[versions[v].path]] = v)'
    <3>1. versions[v].until = -1 /\ versions[v].path # p /\ versions'[v].path = versions[v].path
      <4>1. clock # -1
        BY FileTyped
      <4>. QED BY <1>4, <2>2, <4>1
    <3>2. /\ versions[v].path \in FilePath
          /\ IsFile(versions[v].path) /\ files[disk[versions[v].path]] = v
      BY <3>1, FileTyped DEF FileInv, NamesAreCurrent, Version
    <3>. QED BY <1>1, <1>3, <3>1, <3>2 DEF IsFile
  <2>. QED BY <1>4, <2>1, <2>2 DEF NamesAreCurrent
<1>. QED BY <1>5, <1>6, <1>7, <1>8 DEF FileInv

\* A second goes by.
LEMMA FileTickKeeps ==
    ASSUME FileInv, FileTick
    PROVE  FileInv'
<1>1. clock' = clock + 1 /\ UNCHANGED <<disk, files, versions, entries, requests, opened>>
  BY DEF FileTick
<1>2. FileTypeOK'
  BY <1>1, FileTyped DEF FileTypeOK
<1>3. EntriesAreRecent'
  <2>1. ASSUME NEW i \in Slots PROVE entries[i].checked <= clock + 1 /\ EntryIsRecent(entries[i])'
    <3>1. entries[i].checked \in Nat /\ entries[i].checked <= clock /\ EntryIsRecent(entries[i])
      BY FileTyped DEF FileInv, EntriesAreRecent, Entry
    <3>2. EntryIsRecent(entries[i])'
      BY <1>1, <3>1 DEF EntryIsRecent, Stored
    <3>. QED BY <3>1, <3>2, FileTyped
  <2>. QED BY <1>1, <2>1 DEF EntriesAreRecent
<1>4. ContentsDiffer' /\ NamesAreCurrent' /\ RequestsAreFine' /\ DescriptorsAreOwned'
  BY <1>1 DEF FileInv, ContentsDiffer, NamesAreCurrent, IsFile, Stored, RequestsAreFine, Knows,
              ReadsWhatItSaid, Holds, EntryOf, DescriptorsAreOwned
<1>. QED BY <1>2, <1>3, <1>4 DEF FileInv

-----------------------------------------------------------------------------
(* The requests.                                                           *)

\* What a path is opened through the cache by: the entries that come out of it.
CacheIsFine(es) ==
    /\ es \in [Slots -> Entry]
    /\ \A i \in Slots : /\ es[i].descriptor \in 0..Len(files)
                        /\ es[i].checked <= clock /\ EntryIsRecent(es[i])
    /\ \A q \in FilePath :
          LET e == es[FileSlot[q]]
          IN  e.descriptor # NoFile /\ e.path = q =>
                 e.descriptor = disk[q] \/ (Holds(q) /\ e.descriptor = EntryOf(q).descriptor)

\* A path is acquired, and the descriptors of the cache are counted again.
LEMMA CacheMoves ==
    ASSUME FileInv, NEW p \in FilePath, NEW e, e = AcquireFileCache(p),
           NEW es, es = [entries EXCEPT ![FileSlot[p]] = e]
    PROVE  /\ CacheIsFine(es)
           /\ DescriptorsAcquired(p) = Cardinality(InEntries(es)) + Cardinality(InRequests(requests))
<1>1. /\ e \in Entry /\ e.descriptor \in 0..Len(files) /\ e.checked <= clock /\ EntryIsRecent(e)
      /\ e.descriptor # NoFile =>
            /\ e.path = p
            /\ e.descriptor = disk[p] \/ (Holds(p) /\ e.descriptor = EntryOf(p).descriptor)
      /\ DescriptorsAcquired(p) = opened - One(EntryOf(p)) + One(e)
  BY Acquires
<1>2. FileSlot[p] \in Slots /\ EntryOf(p) = entries[FileSlot[p]]
  BY FileTyped
<1>3. es \in [Slots -> Entry] /\ \A i \in Slots : es[i] = IF i = FileSlot[p] THEN e ELSE entries[i]
  BY <1>1, <1>2, FileTyped
<1>4. \A i \in Slots : /\ es[i].descriptor \in 0..Len(files)
                       /\ es[i].checked <= clock /\ EntryIsRecent(es[i])
  BY <1>1, <1>3, FileTyped DEF FileInv, EntriesAreRecent
<1>5. \A q \in FilePath :
         es[FileSlot[q]].descriptor # NoFile /\ es[FileSlot[q]].path = q =>
            \/ es[FileSlot[q]].descriptor = disk[q]
            \/ Holds(q) /\ es[FileSlot[q]].descriptor = EntryOf(q).descriptor
  <2>1. TAKE q \in FilePath
  <2>2. FileSlot[q] \in Slots /\ EntryOf(q) = entries[FileSlot[q]]
    BY FileTyped
  <2>. QED BY <1>1, <1>3, <2>2 DEF Holds
<1>6. Cardinality(InEntries(es)) = Cardinality(InEntries(entries)) - One(EntryOf(p)) + One(e)
  <2>1. Cardinality(InEntries([entries EXCEPT ![FileSlot[p]] = e]))
           = Cardinality(InEntries(entries)) - One(entries[FileSlot[p]]) + One(e)
    BY <1>2, EntryCounts, FileTyped
  <2>. QED BY <1>2, <2>1
<1>7. opened = Cardinality(InEntries(entries)) + Cardinality(InRequests(requests))
  BY OwnedIs DEF FileInv
<1>8. /\ Cardinality(InEntries(entries)) \in Nat /\ Cardinality(InRequests(requests)) \in Nat
      /\ One(e) \in Nat /\ One(EntryOf(p)) \in Nat
  BY CountsAre DEF One
<1>9. DescriptorsAcquired(p) = Cardinality(InEntries(es)) + Cardinality(InRequests(requests))
  BY <1>1, <1>6, <1>7, <1>8
<1>10. CacheIsFine(es)
  BY <1>3, <1>4, <1>5 DEF CacheIsFine
<1>. QED BY <1>9, <1>10

\* A cache that is left as it is.
LEMMA CacheStays ==
    ASSUME FileInv
    PROVE  CacheIsFine(entries)
  BY FileTyped DEF FileInv, EntriesAreRecent, CacheIsFine, Holds

\* A request gets another context, with the cache as it was or with what it has acquired.
LEMMA RequestMoves ==
    ASSUME FileInv, UNCHANGED <<disk, files, versions, clock>>, CacheIsFine(entries'),
           NEW s \in FileStream, NEW c \in Context, c.descriptor \in 0..Len(files),
           c.version \in 0..Len(versions), Knows(c), ReadsWhatItSaid(c)',
           requests' = [requests EXCEPT ![s] = c],
           opened' = Cardinality(InEntries(entries')) + Cardinality(InRequests(requests))
                       - One(requests[s]) + One(c)
    PROVE  FileInv'
<1>1. \A r \in FileStream : requests'[r] = IF r = s THEN c ELSE requests[r]
  BY FileTyped
<1>2. FileTypeOK'
  BY <1>1, FileTyped DEF FileTypeOK, CacheIsFine
<1>3. ContentsDiffer' /\ NamesAreCurrent'
  BY DEF FileInv, ContentsDiffer, NamesAreCurrent, IsFile, Stored
<1>4. EntriesAreRecent'
  BY DEF CacheIsFine, EntriesAreRecent, EntryIsRecent, Stored
<1>5. RequestsAreFine'
  <2>1. ASSUME NEW r \in FileStream, r # s
        PROVE  Knows(requests[r])' /\ ReadsWhatItSaid(requests[r])'
    <3>1. requests'[r] = requests[r] /\ Knows(requests[r]) /\ ReadsWhatItSaid(requests[r])
      BY <1>1, <2>1 DEF FileInv, RequestsAreFine
    <3>2. Knows(requests[r])'
      BY <3>1 DEF Knows
    <3>3. requests[r].path \in FilePath /\ Holds(requests[r].path)' =>
             \/ EntryOf(requests[r].path)'.descriptor = disk[requests[r].path]
             \/ /\ Holds(requests[r].path)
                /\ EntryOf(requests[r].path)'.descriptor = EntryOf(requests[r].path).descriptor
      BY <3>1 DEF CacheIsFine, Holds, EntryOf
    <3>4. requests[r].state = "sending" => requests[r].path \in FilePath
      BY <3>1 DEF Knows
    <3>5. EntryOf(requests[r].path)' = entries'[FileSlot[requests[r].path]]
      BY <3>1 DEF EntryOf
    <3>6. ReadsWhatItSaid(requests[r])'
      <4>. DEFINE d == requests[r]
      <4>1. SUFFICES ASSUME d.state = "sending", versions[d.version].until = -1
                     PROVE  /\ d.descriptor = NoFile /\ Holds(d.path)' =>
                                  EntryOf(d.path)'.descriptor = disk[d.path]
                            /\ d.descriptor # NoFile =>
                                  /\ d.descriptor = disk[d.path]
                                  /\ d.offset >= d.initial
                                  /\ d.offset <= d.final + 1 \/ d.offset = d.initial
                                  /\ d.sent = [i \in 1..d.offset - d.initial |-> d.version]
        BY <3>1 DEF ReadsWhatItSaid, Holds, EntryOf
      <4>2. /\ d.descriptor = NoFile /\ Holds(d.path) => EntryOf(d.path).descriptor = disk[d.path]
            /\ d.descriptor # NoFile =>
                  /\ d.descriptor = disk[d.path]
                  /\ d.offset >= d.initial
                  /\ d.offset <= d.final + 1 \/ d.offset = d.initial
                  /\ d.sent = [i \in 1..d.offset - d.initial |-> d.version]
        BY <3>1, <4>1 DEF ReadsWhatItSaid
      <4>. QED BY <3>3, <3>4, <4>1, <4>2
    <3>. QED BY <3>2, <3>6
  <2>2. Knows(requests[s])' /\ ReadsWhatItSaid(requests[s])'
    <3>1. requests'[s] = c
      BY <1>1
    <3>. QED BY <3>1 DEF Knows, ReadsWhatItSaid
  <2>. QED BY <2>1, <2>2 DEF RequestsAreFine
<1>6. DescriptorsAreOwned'
  <2>1. Cardinality(InRequests(requests')) = Cardinality(InRequests(requests)) - One(requests[s]) + One(c)
    BY RequestCounts, FileTyped
  <2>2. /\ Cardinality(InEntries(entries')) \in Nat /\ Cardinality(InRequests(requests)) \in Nat
        /\ One(c) \in Nat /\ One(requests[s]) \in Nat
    BY CountsAre DEF One
  <2>3. opened' = Cardinality(InEntries(entries')) + Cardinality(InRequests(requests'))
    BY <2>1, <2>2
  <2>4. DOMAIN entries' = Slots
    BY DEF CacheIsFine
  <2>. QED BY <2>3, <2>4 DEF DescriptorsAreOwned, InEntries, InRequests
<1>. QED BY <1>2, <1>3, <1>4, <1>5, <1>6 DEF FileInv

\* A context of its own for the next request.
LEMMA NewContextIs ==
    /\ NewContext \in Context /\ NewContext.descriptor = NoFile /\ NewContext.version = 0
    /\ NewContext.state = "idle" /\ NewContext.status = 0 /\ NewContext.sent = <<>>
    /\ Knows(NewContext) /\ ReadsWhatItSaid(NewContext)'
<1>1. /\ NewContext.descriptor = NoFile /\ NewContext.version = 0 /\ NewContext.state = "idle"
      /\ NewContext.status = 0 /\ NewContext.sent = <<>>
  BY DEF NewContext
<1>2. NewContext \in Context
  <2>1. <<>> \in Seq(Nat) /\ "" \in FilePath \cup {""}
    OBVIOUS
  <2>. QED BY <2>1 DEF NewContext, Context, NoFile
<1>. QED BY <1>1, <1>2 DEF Knows, ReadsWhatItSaid

\* What a message is answered with, out of the entry that its path was opened by.
Answers(c, s, p, fields, e) ==
    \/ /\ \E status \in {404, 401, 307} : c = AnswerBare(status, p)
       /\ c.status = 401 => p \in FileProtected
       /\ c.status = 307 => Authorized(p, fields)
    \/ /\ Authorized(p, fields) /\ ~ Refuses(p)
       /\ \/ TagMatches(fields, e) /\ c = [AnswerBare(304, p) EXCEPT !.version = files[e.descriptor]]
          \/ fields.range # <<>> /\ c = Answer(206, p, fields.range[1], RangeLast(fields.range, e.size), e)
          \/ fields.range = <<>> /\ c = Answer(200, p, 0, e.size - 1, e)

\* A complete message is answered in one of these ways.
LEMMA Answered ==
    ASSUME FileInv, NEW s \in FileStream, NEW p \in FilePath, NEW fields,
           MessageComplete(s, p, fields)
    PROVE  Answers(requests'[s], s, p, fields, AcquireFileCache(p))
<1>. DEFINE e == AcquireFileCache(p)
            missing == Refuses(p) /\ disk[p] = NoFile
            authorized == Authorized(p, fields)
            answer == CASE missing -> AnswerBare(404, p)
                        [] ~missing /\ ~authorized -> AnswerBare(401, p)
                        [] ~missing /\ authorized /\ Refuses(p) -> AnswerBare(307, p)
                        [] authorized /\ ~Refuses(p) /\ TagMatches(fields, e) ->
                             [AnswerBare(304, p) EXCEPT !.version = files[e.descriptor]]
                        [] authorized /\ ~Refuses(p) /\ ~TagMatches(fields, e) ->
                             IF fields.range # <<>>
                             THEN Answer(206, p, fields.range[1],
                                         RangeLast(fields.range, e.size), e)
                             ELSE Answer(200, p, 0, e.size - 1, e)
<1>1. requests' = [requests EXCEPT ![s] = answer]
  BY DEF MessageComplete
<1>2. requests'[s] = answer
  BY <1>1, FileTyped
<1>3. \A status : AnswerBare(status, p).status = status
  BY DEF AnswerBare, NewContext
<1>. HIDE DEF e
<1>4. CASE missing
  BY <1>2, <1>3, <1>4 DEF Answers
<1>5. CASE ~ missing /\ ~ authorized
  <2>1. answer = AnswerBare(401, p) /\ p \in FileProtected
    BY <1>5 DEF Authorized
  <2>. QED BY <1>2, <1>3, <2>1 DEF Answers
<1>6. CASE ~ missing /\ authorized /\ Refuses(p)
  <2>1. answer = AnswerBare(307, p)
    BY <1>6
  <2>. QED BY <1>2, <1>3, <1>6, <2>1 DEF Answers
<1>7. CASE authorized /\ ~ Refuses(p) /\ TagMatches(fields, e)
  <2>1. answer = [AnswerBare(304, p) EXCEPT !.version = files[e.descriptor]]
    BY <1>7
  <2>. QED BY <1>2, <1>7, <2>1 DEF Answers, e
<1>8. CASE authorized /\ ~ Refuses(p) /\ ~ TagMatches(fields, e)
  <2>1. answer = IF fields.range # <<>>
                 THEN Answer(206, p, fields.range[1], RangeLast(fields.range, e.size), e)
                 ELSE Answer(200, p, 0, e.size - 1, e)
    BY <1>8
  <2>. QED BY <1>2, <1>8, <2>1 DEF Answers, e
<1>. QED BY <1>4, <1>5, <1>6, <1>7, <1>8

\* A message is complete and its head is written.
LEMMA MessageCompleteKeeps ==
    ASSUME FileInv, NEW s \in FileStream, NEW p \in FilePath, NEW fields \in FileFields(p),
           MessageComplete(s, p, fields)
    PROVE  FileInv'
<1>. DEFINE e == AcquireFileCache(p)
<1>1. /\ requests[s].state = "idle" /\ entries' = [entries EXCEPT ![FileSlot[p]] = e]
      /\ opened' = DescriptorsAcquired(p) /\ UNCHANGED <<disk, files, versions, clock>>
      /\ \E x : requests' = [requests EXCEPT ![s] = x]
  BY ZenonT(30) DEF MessageComplete
<1>2. PICK c : requests' = [requests EXCEPT ![s] = c]
  BY <1>1
<1>3. /\ CacheIsFine(entries')
      /\ opened' = Cardinality(InEntries(entries')) + Cardinality(InRequests(requests))
  BY <1>1, CacheMoves
<1>4. Answers(c, s, p, fields, e)
  <2>1. requests'[s] = c
    BY <1>2, FileTyped
  <2>. QED BY <2>1, Answered
<1>5. /\ e \in Entry
      /\ Refuses(p) <=> e.descriptor = NoFile
      /\ e.descriptor # NoFile =>
            /\ files[e.descriptor] \in 1..Len(versions) /\ versions[files[e.descriptor]].path = p
            /\ versions[files[e.descriptor]].until = -1 => e.descriptor = disk[p]
  BY Acquires DEF Stored
<1>6. /\ fields.range = <<>> \/ (fields.range[1] \in Nat /\ fields.range[2] \in Int)
  <2>1. fields.range \in {<<>>} \cup FileRange
    BY DEF FileFields
  <2>. QED BY <2>1, FileAssumption
<1>. HIDE DEF e
<1>7. /\ c \in Context /\ c.descriptor = NoFile /\ c.version \in 0..Len(versions) /\ Knows(c)
      /\ c.state = "sending" => c.path = p /\ c.version = files[e.descriptor] /\ e.descriptor # NoFile
  <2>1. ASSUME NEW status \in Nat
        PROVE  /\ AnswerBare(status, p) \in Context /\ AnswerBare(status, p).descriptor = NoFile
               /\ AnswerBare(status, p).version = 0 /\ AnswerBare(status, p).state = "answered"
               /\ AnswerBare(status, p).path = p
    BY NewContextIs DEF AnswerBare, Context
  <2>2. CASE \E status \in {404, 401, 307} : c = AnswerBare(status, p)
    <3>1. PICK status \in {404, 401, 307} : c = AnswerBare(status, p)
      BY <2>2
    <3>2. 0 \in 0..Len(versions)
      BY FileTyped
    <3>. QED BY <2>1, <3>1, <3>2 DEF Knows
  <2>3. CASE ~ Refuses(p) /\ c = [AnswerBare(304, p) EXCEPT !.version = files[e.descriptor]]
    <3>1. /\ c \in Context /\ c.descriptor = NoFile /\ c.version = files[e.descriptor]
          /\ c.state = "answered" /\ c.path = p
      <4>1. files[e.descriptor] \in Nat
        BY <1>5, <2>3, FileTyped
      <4>2. ASSUME NEW b \in Context, NEW v \in Nat
            PROVE  /\ [b EXCEPT !.version = v] \in Context /\ [b EXCEPT !.version = v].version = v
                   /\ [b EXCEPT !.version = v].descriptor = b.descriptor
                   /\ [b EXCEPT !.version = v].state = b.state
                   /\ [b EXCEPT !.version = v].path = b.path
        BY DEF Context
      <4>. QED BY <2>1, <2>3, <4>1, <4>2
    <3>. QED BY <1>5, <2>3, <3>1, FileTyped DEF Knows
  <2>4. ASSUME NEW status \in Nat, NEW initial \in Nat, NEW final \in Int, ~ Refuses(p),
               c = Answer(status, p, initial, final, e)
        PROVE  /\ c \in Context /\ c.descriptor = NoFile /\ c.version \in 0..Len(versions)
               /\ Knows(c) /\ c.path = p /\ c.version = files[e.descriptor]
               /\ e.descriptor # NoFile
    <3>1. files[e.descriptor] \in Nat /\ files[e.descriptor] # 0
      BY <1>5, <2>4, FileTyped
    <3>2. /\ c \in Context /\ c.descriptor = NoFile /\ c.version = files[e.descriptor]
          /\ c.state = "sending" /\ c.path = p /\ c.sent = <<>>
          /\ c.announced = final - initial + 1 /\ c.initial = initial /\ c.final = final
      <4>. DEFINE n == NewContext
      <4>1. n \in Context /\ n.descriptor = NoFile /\ n.sent = <<>>
        BY NewContextIs
      <4>2. c = [n EXCEPT !.state = "sending", !.path = p, !.status = status,
                    !.initial = initial, !.final = final, !.announced = final - initial + 1,
                    !.version = files[e.descriptor]]
        BY <2>4 DEF Answer
      <4>. HIDE DEF n
      <4>3. p \in FilePath \cup {""}
        OBVIOUS
      <4>4. final - initial + 1 \in Int
        OBVIOUS
      <4>. QED BY <3>1, <4>1, <4>2, <4>3, <4>4 DEF Context
    <3>. QED BY <1>5, <2>4, <3>1, <3>2, FileTyped DEF Knows
  <2>5. CASE ~ Refuses(p) /\ fields.range # <<>>
             /\ c = Answer(206, p, fields.range[1], RangeLast(fields.range, e.size), e)
    <3>1. RangeLast(fields.range, e.size) \in Int
      <4>1. e.size \in Nat
        BY <1>5 DEF Entry
      <4>2. Max({e.size - 1, 0}) \in Int
        BY <4>1, MaxOfTwo
      <4>. QED BY <1>6, <2>5, <4>2 DEF RangeLast
    <3>. QED BY <1>6, <2>4, <2>5, <3>1
  <2>6. CASE ~ Refuses(p) /\ c = Answer(200, p, 0, e.size - 1, e)
    <3>1. e.size - 1 \in Int
      <4>1. e.size \in Nat
        BY <1>5 DEF Entry
      <4>. QED BY <4>1
    <3>. QED BY <2>4, <2>6, <3>1
  <2>. QED BY <1>4, <2>2, <2>3, <2>5, <2>6 DEF Answers
<1>8. ReadsWhatItSaid(c)'
  <2>1. SUFFICES ASSUME c.state = "sending", versions[c.version].until = -1
                 PROVE  Holds(p)' => EntryOf(p)'.descriptor = disk[p]
    BY <1>1, <1>7 DEF ReadsWhatItSaid
  <2>2. e.descriptor = disk[p]
    BY <1>5, <1>7, <2>1
  <2>3. EntryOf(p)' = e
    BY <1>1, FileTyped DEF EntryOf, e
  <2>. QED BY <2>2, <2>3
<1>9. One(requests[s]) = 0 /\ One(c) = 0
  BY <1>1, <1>7 DEF One, FileInv, RequestsAreFine, Knows
<1>10. opened' = Cardinality(InEntries(entries')) + Cardinality(InRequests(requests))
                    - One(requests[s]) + One(c)
  <2>1. Cardinality(InEntries(entries')) \in Nat /\ Cardinality(InRequests(requests)) \in Nat
    BY CountsAre
  <2>. QED BY <1>3, <1>9, <2>1
<1>11. c.descriptor \in 0..Len(files)
  BY <1>7, FileTyped DEF NoFile
<1>. QED BY <1>1, <1>2, <1>3, <1>7, <1>8, <1>10, <1>11, RequestMoves

\* A response that is written, or whose connection goes away, gives its context up.
LEMMA Cleans ==
    ASSUME FileInv, UNCHANGED <<disk, files, versions, clock>>, CacheIsFine(entries'),
           NEW s \in FileStream, requests' = [requests EXCEPT ![s] = NewContext],
           opened' = Cardinality(InEntries(entries')) + Cardinality(InRequests(requests))
                       - One(requests[s])
    PROVE  FileInv'
<1>1. 0 \in 0..Len(files) /\ 0 \in 0..Len(versions)
  BY FileTyped
<1>2. One(NewContext) = 0
  BY NewContextIs DEF One
<1>3. opened' = Cardinality(InEntries(entries')) + Cardinality(InRequests(requests))
                  - One(requests[s]) + One(NewContext)
  BY <1>2, CountsAre DEF One
<1>4. /\ NewContext \in Context /\ NewContext.descriptor \in 0..Len(files)
      /\ NewContext.version \in 0..Len(versions)
      /\ Knows(NewContext) /\ ReadsWhatItSaid(NewContext)'
  BY <1>1, NewContextIs DEF NoFile
<1>. HIDE DEF NewContext
<1>. QED BY <1>3, <1>4, RequestMoves

\* What is counted when the cache is left alone.
LEMMA OpenedIs ==
    ASSUME FileInv
    PROVE  /\ opened = Cardinality(InEntries(entries)) + Cardinality(InRequests(requests))
           /\ Cardinality(InEntries(entries)) \in Nat /\ Cardinality(InRequests(requests)) \in Nat
           /\ \A s \in FileStream : /\ requests[s].state # "sending" => One(requests[s]) = 0
                                    /\ One(requests[s]) \in Nat
  BY OwnedIs, CountsAre DEF FileInv, RequestsAreFine, Knows, One

\* A response without a body of its own is written.
LEMMA CleanupCallbackKeeps ==
    ASSUME FileInv, NEW s \in FileStream, CleanupCallback(s)
    PROVE  FileInv'
<1>1. /\ requests[s].state = "answered" /\ requests' = [requests EXCEPT ![s] = NewContext]
      /\ UNCHANGED <<disk, files, versions, clock, entries, opened>>
  BY DEF CleanupCallback, Cleanup
<1>2. opened' = Cardinality(InEntries(entries')) + Cardinality(InRequests(requests)) - One(requests[s])
  <2>1. One(requests[s]) = 0
    BY <1>1, OpenedIs
  <2>. QED BY <1>1, <2>1, OpenedIs
<1>. QED BY <1>1, <1>2, CacheStays, Cleans

\* A response is cut, and gives back the descriptor that it reads through.
LEMMA UnsetHandlerKeeps ==
    ASSUME FileInv, NEW s \in FileStream, UnsetHandler(s)
    PROVE  FileInv'
<1>1. /\ requests' = [requests EXCEPT ![s] = NewContext] /\ opened' = opened - One(requests[s])
      /\ UNCHANGED <<disk, files, versions, clock, entries>>
  BY DEF UnsetHandler, Cleanup, ContextDeleted, One
<1>2. opened' = Cardinality(InEntries(entries')) + Cardinality(InRequests(requests)) - One(requests[s])
  <2>1. entries' = entries
    BY <1>1
  <2>2. opened' = opened - One(requests[s]) /\ One(requests[s]) \in Nat
    BY <1>1, OpenedIs
  <2>3. /\ opened = Cardinality(InEntries(entries)) + Cardinality(InRequests(requests))
        /\ Cardinality(InEntries(entries)) \in Nat /\ Cardinality(InRequests(requests)) \in Nat
    BY OpenedIs
  <2>. QED BY <2>1, <2>2, <2>3
<1>. QED BY <1>1, <1>2, CacheStays, Cleans

\* The cache is given up.
LEMMA UnregisterHandlerKeeps ==
    ASSUME FileInv, UnregisterHandler
    PROVE  FileInv'
<1>1. /\ entries' = [i \in Slots |-> NewEntry]
      /\ opened' = opened - Cardinality(InEntries(entries))
      /\ UNCHANGED <<disk, files, versions, clock, requests>>
  <2>1. DOMAIN entries = Slots
    BY FileTyped
  <2>. QED BY <2>1 DEF UnregisterHandler, InEntries
<1>2. NewEntry \in Entry /\ NewEntry.descriptor = NoFile /\ NewEntry.checked = 0
  <2>1. NewEntry \in Entry
    BY DEF NewEntry, Entry, NoFile
  <2>. QED BY <2>1 DEF NewEntry
<1>3. \A i \in Slots : entries'[i] = NewEntry
  BY <1>1
<1>4. FileTypeOK'
  <2>1. entries' \in [Slots -> Entry]
    BY <1>1, <1>2
  <2>2. \A i \in Slots : entries'[i].descriptor \in 0..Len(files)
    BY <1>2, <1>3, FileTyped DEF NoFile
  <2>. QED BY <1>1, <2>1, <2>2, FileTyped DEF FileTypeOK
<1>5. ContentsDiffer' /\ NamesAreCurrent'
  BY <1>1 DEF FileInv, ContentsDiffer, NamesAreCurrent, IsFile, Stored
<1>6. EntriesAreRecent'
  BY <1>1, <1>2, <1>3, FileTyped DEF EntriesAreRecent, EntryIsRecent
<1>7. RequestsAreFine'
  <2>1. ASSUME NEW s \in FileStream PROVE (Knows(requests[s]) /\ ReadsWhatItSaid(requests[s]))'
    <3>1. requests[s].state = "idle" /\ Knows(requests[s])
      BY DEF UnregisterHandler, FileInv, RequestsAreFine
    <3>. QED BY <1>1, <3>1 DEF Knows, ReadsWhatItSaid
  <2>. QED BY <2>1 DEF RequestsAreFine
<1>8. DescriptorsAreOwned'
  <2>1. InEntries(entries') = {}
    BY <1>2, <1>3 DEF InEntries
  <2>2. opened' = 0 + Cardinality(InRequests(requests'))
    BY <1>1, OpenedIs
  <2>3. DOMAIN entries' = Slots
    BY <1>1
  <2>. QED BY <2>1, <2>2, <2>3, FS_EmptySet DEF DescriptorsAreOwned, InEntries, InRequests
<1>. QED BY <1>4, <1>5, <1>6, <1>7, <1>8 DEF FileInv

\* A fragment is a run of the content of its file, and there is none only when nothing is
\* left of the file or of what was asked for.
LEMMA FragmentIs ==
    ASSUME FileInv, NEW f \in 1..Len(files), NEW offset \in Nat, NEW most \in Int,
           NEW fragment, ReadAt(f, offset, most) = fragment
    PROVE  /\ fragment \in Seq(Nat) /\ Len(fragment) \in Nat
           /\ fragment = [i \in 1..Len(fragment) |-> files[f]]
           /\ Len(fragment) <= most \/ Len(fragment) = 0
           /\ fragment = <<>> <=> Len(fragment) = 0
           /\ fragment = <<>> => offset >= Stored(f).size \/ most <= 0
<1>1. Stored(f).size \in Nat /\ files[f] \in Nat /\ FileChunk \in Nat \ {0}
  <2>1. files[f] \in 1..Len(versions) /\ Stored(f) \in Version
    BY FileTyped
  <2>2. Stored(f).size \in Nat
    BY <2>1 DEF Version
  <2>. QED BY <2>1, <2>2, FileAssumption
<1>. DEFINE left == Max({Stored(f).size - offset, 0})
            asked == Max({most, 0})
            n == Min({left, asked, FileChunk})
<1>2. /\ left = IF Stored(f).size - offset >= 0 THEN Stored(f).size - offset ELSE 0
      /\ asked = IF most >= 0 THEN most ELSE 0
  <2>1. Stored(f).size - offset \in Int
    BY <1>1
  <2>. QED BY <2>1, MaxOfTwo
<1>3. left \in Nat /\ asked \in Nat
  BY <1>1, <1>2
<1>. HIDE DEF left, asked
<1>4. n \in {left, asked, FileChunk} /\ n <= left /\ n <= asked /\ n <= FileChunk
  <2>1. left \in Int /\ asked \in Int /\ FileChunk \in Int
    BY <1>1, <1>3
  <2>. QED BY <2>1, MinOfThree
<1>5. n \in Nat
  BY <1>1, <1>3, <1>4
<1>6. fragment = [i \in 1..n |-> files[f]]
  BY DEF ReadAt, left, asked
<1>. HIDE DEF n
<1>7. fragment \in Seq(Nat) /\ Len(fragment) = n
  BY <1>1, <1>5, <1>6
<1>8. fragment = <<>> <=> n = 0
  BY <1>5, <1>6, <1>7
<1>9. n = 0 => offset >= Stored(f).size \/ most <= 0
  BY <1>1, <1>2, <1>3, <1>4
<1>10. n <= most \/ n = 0
  BY <1>2, <1>3, <1>4, <1>5
<1>. QED BY <1>5, <1>6, <1>7, <1>8, <1>9, <1>10

\* A fragment behind what has been sent, both out of one content.
LEMMA SentAndMore ==
    ASSUME NEW v, NEW m \in Nat, NEW n \in Nat
    PROVE  [i \in 1..m |-> v] \o [i \in 1..n |-> v] = [i \in 1..m + n |-> v]
<1>. DEFINE a == [i \in 1..m |-> v]
            b == [i \in 1..n |-> v]
            c == [i \in 1..m + n |-> v]
<1>1. /\ a \in Seq({v}) /\ Len(a) = m /\ b \in Seq({v}) /\ Len(b) = n
      /\ c \in Seq({v}) /\ Len(c) = m + n
  OBVIOUS
<1>2. \A i \in 1..m : a[i] = v
  OBVIOUS
<1>3. \A i \in 1..n : b[i] = v
  OBVIOUS
<1>4. \A i \in 1..m + n : c[i] = v
  OBVIOUS
<1>. HIDE DEF a, b, c
<1>5. /\ a \o b \in Seq({v}) /\ Len(a \o b) = m + n
      /\ \A i \in 1..m + n : (a \o b)[i] = IF i <= m THEN a[i] ELSE b[i - m]
  BY <1>1
<1>6. ASSUME NEW i \in 1..m + n PROVE (a \o b)[i] = c[i]
  <2>1. i <= m => i \in 1..m
    OBVIOUS
  <2>2. ~ (i <= m) => i - m \in 1..n
    OBVIOUS
  <2>. QED BY <1>2, <1>3, <1>4, <1>5, <2>1, <2>2
<1>7. a \o b = c
  BY <1>1, <1>5, <1>6
<1>. QED BY <1>7 DEF a, b, c

\* Where a request stands before it reads on, as long as the content that it announced stands.
StandsAt(c, d, offset, sent) ==
    versions[c.version].until = -1 =>
        /\ d = disk[c.path] /\ offset >= c.initial
        /\ offset <= c.final + 1 \/ offset = c.initial
        /\ sent = [i \in 1..offset - c.initial |-> c.version]

\* A request that goes on reads one fragment more, out of the descriptor it reads through.
Reads(c, d, offset, sent, fragment, k) ==
    /\ c.state = "sending" /\ StandsAt(c, d, offset, sent)
    /\ d \in 1..Len(files) /\ offset \in Nat /\ sent \in Seq(Nat)
    /\ fragment = ReadAt(d, offset, c.final - offset + 1) /\ fragment # <<>>
    /\ k = [c EXCEPT !.descriptor = d, !.sent = sent \o fragment,
                     !.offset = offset + Len(fragment)]

\* Its context stays in agreement with what its head said.
LEMMA ReadsOn ==
    ASSUME FileInv, NEW s \in FileStream, UNCHANGED <<disk, files, versions, clock>>,
           NEW d, NEW offset, NEW sent, NEW fragment, NEW k,
           Reads(requests[s], d, offset, sent, fragment, k)
    PROVE  k \in Context /\ k.version \in 0..Len(versions) /\ Knows(k) /\ ReadsWhatItSaid(k)'
<1>0. PICK c : c = requests[s]
  OBVIOUS
<1>10. /\ c.state = "sending" /\ StandsAt(c, d, offset, sent)
      /\ d \in 1..Len(files) /\ offset \in Nat /\ sent \in Seq(Nat)
      /\ fragment = ReadAt(d, offset, c.final - offset + 1) /\ fragment # <<>>
      /\ k = [c EXCEPT !.descriptor = d, !.sent = sent \o fragment,
                       !.offset = offset + Len(fragment)]
  BY <1>0 DEF Reads
<1>1. c \in Context /\ c.version \in 0..Len(versions) /\ Knows(c)
  BY <1>0, FileTyped DEF FileInv, RequestsAreFine
<1>2. c.final \in Int /\ c.initial \in Nat /\ c.version \in Nat /\ c.final - offset + 1 \in Int
  <2>1. c.final \in Int /\ c.initial \in Nat /\ c.version \in Nat
    BY <1>1 DEF Context
  <2>. QED BY <1>10, <2>1
<1>3. /\ fragment \in Seq(Nat) /\ Len(fragment) \in Nat
      /\ fragment = [i \in 1..Len(fragment) |-> files[d]]
      /\ Len(fragment) <= c.final - offset + 1 /\ Len(fragment) # 0
  <2>. DEFINE most == c.final - offset + 1
  <2>1. most \in Int /\ fragment = ReadAt(d, offset, most)
    BY <1>2, <1>10
  <2>. HIDE DEF most
  <2>2. /\ fragment \in Seq(Nat) /\ Len(fragment) \in Nat
        /\ fragment = [i \in 1..Len(fragment) |-> files[d]]
        /\ Len(fragment) <= most \/ Len(fragment) = 0
        /\ fragment = <<>> <=> Len(fragment) = 0
    <3>1. ReadAt(d, offset, most) = fragment
      BY <2>1
    <3>2. /\ ReadAt(d, offset, most) \in Seq(Nat) /\ Len(ReadAt(d, offset, most)) \in Nat
          /\ ReadAt(d, offset, most) = [i \in 1..Len(ReadAt(d, offset, most)) |-> files[d]]
          /\ Len(ReadAt(d, offset, most)) <= most \/ Len(ReadAt(d, offset, most)) = 0
          /\ ReadAt(d, offset, most) = <<>> <=> Len(ReadAt(d, offset, most)) = 0
      BY <1>10, <2>1, FragmentIs
    <3>. QED BY <3>1, <3>2
  <2>. QED BY <1>10, <2>2 DEF most
<1>4. sent \o fragment \in Seq(Nat) /\ offset + Len(fragment) \in Nat /\ d \in Nat
  BY <1>3, <1>10, FileTyped
<1>5. /\ k \in Context /\ k.descriptor = d /\ k.sent = sent \o fragment
      /\ k.offset = offset + Len(fragment) /\ k.version = c.version /\ k.state = "sending"
      /\ k.path = c.path /\ k.initial = c.initial /\ k.final = c.final /\ k.announced = c.announced
  BY <1>1, <1>4, <1>10 DEF Context
<1>6. d # NoFile
  BY <1>10 DEF NoFile
<1>7. Knows(k)
  BY <1>1, <1>5, <1>6, <1>10 DEF Knows
<1>8. ReadsWhatItSaid(k)'
  <2>0. SUFFICES ASSUME versions[k.version].until = -1
                 PROVE  /\ k.descriptor = disk[k.path]
                        /\ k.offset >= k.initial
                        /\ k.offset <= k.final + 1
                        /\ k.sent = [i \in 1..k.offset - k.initial |-> k.version]
    <3>1. k.descriptor # NoFile /\ versions' = versions /\ disk' = disk
      BY <1>5, <1>6
    <3>. QED BY <3>1 DEF ReadsWhatItSaid
  <2>1. versions[c.version].until = -1
    BY <1>5, <2>0
  <2>10. /\ d = disk[c.path] /\ offset >= c.initial
         /\ sent = [i \in 1..offset - c.initial |-> c.version]
    BY <1>10, <2>1 DEF StandsAt
  <2>2. files[d] = c.version
    <3>1. c.version \in 1..Len(versions) /\ versions[c.version].path = c.path
      BY <1>1, <1>10 DEF Knows
    <3>. QED BY <2>1, <2>10, <3>1 DEF FileInv, NamesAreCurrent
  <2>3. /\ offset - c.initial \in Nat
        /\ (offset - c.initial) + Len(fragment) = (offset + Len(fragment)) - c.initial
    <3>. DEFINE n == Len(fragment)
                i == c.initial
    <3>1. offset >= i /\ offset \in Nat /\ n \in Nat /\ i \in Nat
      BY <1>10, <1>2, <1>3, <2>10
    <3>. HIDE DEF n, i
    <3>2. offset - i \in Nat /\ (offset - i) + n = (offset + n) - i
      BY <3>1
    <3>. QED BY <3>2 DEF n, i
  <2>4. sent \o fragment = [i \in 1..(offset - c.initial) + Len(fragment) |-> c.version]
    <3>. DEFINE m == offset - c.initial
                n == Len(fragment)
    <3>1. sent = [i \in 1..m |-> c.version] /\ fragment = [i \in 1..n |-> c.version]
      BY <1>3, <2>2, <2>10
    <3>2. m \in Nat /\ n \in Nat
      BY <1>3, <2>3
    <3>. HIDE DEF m, n
    <3>3. sent \o fragment = [i \in 1..m + n |-> c.version]
      <4>1. [i \in 1..m |-> c.version] \o [i \in 1..n |-> c.version]
               = [i \in 1..m + n |-> c.version]
        BY <3>2, SentAndMore
      <4>. QED BY <3>1, <4>1, Zenon
    <3>. QED BY <3>3 DEF m, n
  <2>5. /\ offset + Len(fragment) >= c.initial
        /\ offset + Len(fragment) <= c.final + 1
    <3>. DEFINE n == Len(fragment)
                i == c.initial
                l == c.final
    <3>1. offset >= i /\ offset \in Nat /\ n \in Nat /\ i \in Nat /\ l \in Int /\ n <= l - offset + 1
      BY <1>10, <1>2, <1>3, <2>10
    <3>. HIDE DEF n, i, l
    <3>2. offset + n >= i /\ offset + n <= l + 1
      BY <3>1
    <3>. QED BY <3>2 DEF n, i, l
  <2>6. sent \o fragment = [i \in 1..(offset + Len(fragment)) - c.initial |-> c.version]
    BY <2>3, <2>4
  <2>7. d = disk[c.path]
    BY <2>10
  <2>8. k.sent = [i \in 1..k.offset - k.initial |-> k.version]
    <3>1. /\ offset + Len(fragment) = k.offset /\ c.initial = k.initial
          /\ c.version = k.version /\ sent \o fragment = k.sent
      BY <1>5
    <3>. QED BY <2>6, <3>1, Zenon
  <2>9. k.descriptor = disk[k.path] /\ k.offset >= k.initial /\ k.offset <= k.final + 1
    BY <1>5, <2>5, <2>7
  <2>. QED BY <2>8, <2>9
<1>. QED BY <1>1, <1>5, <1>7, <1>8

\* What went out is written: the request opens its file, sends one fragment more, or ends.
LEMMA SendChunkKeeps ==
    ASSUME FileInv, NEW s \in FileStream, SendChunk(s)
    PROVE  FileInv'
<1>0. PICK c, p, e : c = requests[s] /\ p = c.path /\ e = AcquireFileCache(p)
  OBVIOUS
<1>1. /\ c.state = "sending" /\ UNCHANGED <<disk, files, versions, clock>>
      /\ c \in Context /\ Knows(c) /\ ReadsWhatItSaid(c) /\ p \in FilePath
      /\ c.descriptor \in 0..Len(files) /\ c.version \in 0..Len(versions)
  <2>1. c.state = "sending" /\ UNCHANGED <<disk, files, versions, clock>>
    BY <1>0 DEF SendChunk
  <2>2. Knows(c) /\ ReadsWhatItSaid(c)
    BY <1>0 DEF FileInv, RequestsAreFine
  <2>. QED BY <1>0, <2>1, <2>2, FileTyped DEF Knows
<1>2. /\ opened = Cardinality(InEntries(entries)) + Cardinality(InRequests(requests))
      /\ Cardinality(InEntries(entries)) \in Nat /\ Cardinality(InRequests(requests)) \in Nat
  BY OpenedIs
<1>3. c.offset \in Nat /\ c.initial \in Nat /\ c.final \in Int /\ c.sent \in Seq(Nat)
  BY <1>1 DEF Context
<1>4. CASE c.descriptor = NoFile
  <2>0. PICK fragment : fragment = ReadAt(e.descriptor, c.initial, c.final - c.initial + 1)
    OBVIOUS
  <2>1. entries' = [entries EXCEPT ![FileSlot[p]] = e]
    BY <1>0, <1>4 DEF SendChunk
  <2>2. /\ CacheIsFine(entries')
        /\ DescriptorsAcquired(p)
              = Cardinality(InEntries(entries')) + Cardinality(InRequests(requests))
    BY <1>0, <1>1, <2>1, CacheMoves
  <2>3. Cardinality(InEntries(entries')) \in Nat
    BY CountsAre
  <2>4. One(requests[s]) = 0
    BY <1>0, <1>4 DEF One
  <2>5. CASE Refuses(p)
    <3>1. requests' = [requests EXCEPT ![s] = NewContext] /\ opened' = DescriptorsAcquired(p)
      BY <1>0, <2>0, <1>4, <2>5 DEF SendChunk, Cleanup
    <3>2. opened' = Cardinality(InEntries(entries')) + Cardinality(InRequests(requests))
                      - One(requests[s])
      BY <1>2, <2>2, <2>3, <2>4, <3>1
    <3>. QED BY <1>1, <2>2, <3>1, <3>2, Cleans
  <2>6. CASE ~ Refuses(p) /\ fragment = <<>>
    <3>1. /\ requests' = [requests EXCEPT ![s] = NewContext]
          /\ opened' = (DescriptorsAcquired(p) + 1) - 1
      BY <1>0, <2>0, <1>4, <2>6 DEF SendChunk, Cleanup, Duplicated
    <3>2. opened' = Cardinality(InEntries(entries')) + Cardinality(InRequests(requests))
                      - One(requests[s])
      BY <1>2, <2>2, <2>3, <2>4, <3>1
    <3>. QED BY <1>1, <2>2, <3>1, <3>2, Cleans
  <2>7. CASE ~ Refuses(p) /\ fragment # <<>>
    <3>1. PICK k : k = [c EXCEPT !.descriptor = e.descriptor, !.sent = c.sent \o fragment,
                                 !.offset = c.initial + Len(fragment)]
      OBVIOUS
    <3>2. requests' = [requests EXCEPT ![s] = k] /\ opened' = DescriptorsAcquired(p) + 1
      BY <1>0, <2>0, <1>4, <2>7, <3>1 DEF SendChunk, Duplicated
    <3>3. /\ e.descriptor # NoFile /\ e.descriptor \in 1..Len(files)
          /\ e.descriptor = disk[p] \/ (Holds(p) /\ e.descriptor = EntryOf(p).descriptor)
      <4>1. /\ e.descriptor # NoFile /\ e.descriptor \in 0..Len(files)
            /\ e.descriptor = disk[p] \/ (Holds(p) /\ e.descriptor = EntryOf(p).descriptor)
        BY <1>0, <1>1, <2>7, Acquires
      <4>. QED BY <4>1, FileTyped DEF NoFile
    <3>4. c.sent = <<>>
      BY <1>1, <1>4 DEF Knows
    <3>5. StandsAt(c, e.descriptor, c.initial, c.sent)
      <4>0. SUFFICES ASSUME versions[c.version].until = -1
                     PROVE  /\ e.descriptor = disk[c.path]
                            /\ c.sent = [i \in 1..c.initial - c.initial |-> c.version]
        BY <1>3 DEF StandsAt
      <4>1. e.descriptor = disk[c.path]
        BY <1>0, <1>1, <1>4, <3>3, <4>0 DEF ReadsWhatItSaid
      <4>2. [i \in 1..c.initial - c.initial |-> c.version] = <<>>
        <5>1. c.initial - c.initial = 0
          BY <1>3
        <5>2. [i \in 1..0 |-> c.version] = <<>>
          OBVIOUS
        <5>. QED BY <5>1, <5>2, Zenon
      <4>. QED BY <3>4, <4>1, <4>2
    <3>6. /\ k \in Context /\ k.descriptor = e.descriptor /\ k.version \in 0..Len(versions)
          /\ Knows(k) /\ ReadsWhatItSaid(k)'
      <4>1. Reads(requests[s], e.descriptor, c.initial, c.sent, fragment, k)
        BY <1>0, <1>1, <1>3, <2>0, <2>7, <3>1, <3>3, <3>5 DEF Reads
      <4>2. k \in Context /\ k.version \in 0..Len(versions) /\ Knows(k) /\ ReadsWhatItSaid(k)'
        BY <1>1, <4>1, ReadsOn
      <4>3. k.descriptor = e.descriptor
        BY <1>1, <3>1 DEF Context
      <4>. QED BY <4>2, <4>3
    <3>7. One(k) = 1 /\ k.descriptor \in 0..Len(files)
      BY <3>3, <3>6 DEF One
    <3>8. opened' = Cardinality(InEntries(entries')) + Cardinality(InRequests(requests))
                      - One(requests[s]) + One(k)
      BY <1>2, <2>2, <2>3, <2>4, <3>2, <3>7
    <3>. QED BY <1>1, <2>2, <3>2, <3>6, <3>7, <3>8, RequestMoves
  <2>. QED BY <2>5, <2>6, <2>7
<1>5. CASE c.descriptor # NoFile
  <2>0. PICK d, fragment : /\ d = c.descriptor
                           /\ fragment = ReadAt(d, c.offset, c.final - c.offset + 1)
    OBVIOUS
  <2>1. entries' = entries /\ CacheIsFine(entries')
    <3>1. entries' = entries
      BY <1>0, <1>5 DEF SendChunk
    <3>. QED BY <3>1, CacheStays
  <2>2. One(requests[s]) = 1
    BY <1>0, <2>0, <1>5 DEF One
  <2>3. d \in 1..Len(files)
    BY <1>1, <2>0, <1>5, FileTyped DEF NoFile
  <2>4. CASE fragment = <<>>
    <3>1. requests' = [requests EXCEPT ![s] = NewContext] /\ opened' = opened - 1
      BY <1>0, <2>0, <1>5, <2>4 DEF SendChunk, Cleanup
    <3>2. opened' = Cardinality(InEntries(entries')) + Cardinality(InRequests(requests))
                      - One(requests[s])
      BY <1>2, <2>1, <2>2, <3>1
    <3>. QED BY <1>1, <2>1, <3>1, <3>2, Cleans
  <2>5. CASE fragment # <<>>
    <3>1. PICK k : k = [c EXCEPT !.descriptor = d, !.sent = c.sent \o fragment,
                                 !.offset = c.offset + Len(fragment)]
      OBVIOUS
    <3>2. requests' = [requests EXCEPT ![s] = k] /\ opened' = opened
      BY <1>0, <2>0, <1>5, <2>5, <3>1 DEF SendChunk
    <3>3. StandsAt(c, d, c.offset, c.sent)
      BY <1>1, <2>0, <1>5, Zenon DEF ReadsWhatItSaid, StandsAt
    <3>5. /\ k \in Context /\ k.descriptor = d /\ k.version \in 0..Len(versions)
          /\ Knows(k) /\ ReadsWhatItSaid(k)'
      <4>1. Reads(requests[s], d, c.offset, c.sent, fragment, k)
        BY <1>0, <1>1, <1>3, <2>0, <2>3, <2>5, <3>1, <3>3 DEF Reads
      <4>2. k \in Context /\ k.version \in 0..Len(versions) /\ Knows(k) /\ ReadsWhatItSaid(k)'
        BY <1>1, <4>1, ReadsOn
      <4>3. k.descriptor = d
        BY <1>1, <3>1 DEF Context
      <4>. QED BY <4>2, <4>3
    <3>6. One(k) = 1 /\ k.descriptor \in 0..Len(files)
      BY <1>1, <1>5, <2>0, <3>5 DEF One
    <3>7. opened' = Cardinality(InEntries(entries')) + Cardinality(InRequests(requests))
                      - One(requests[s]) + One(k)
      BY <1>2, <2>1, <2>2, <3>2, <3>6
    <3>. QED BY <1>1, <2>1, <3>2, <3>5, <3>6, <3>7, RequestMoves
  <2>. QED BY <2>4, <2>5
<1>. QED BY <1>4, <1>5

-----------------------------------------------------------------------------
(* The theorems.                                                           *)

\* Nothing is open at first, and nothing has been written.
LEMMA FileInitHolds ==
    ASSUME FileInit
    PROVE  FileInv
<1>1. /\ disk = [p \in FilePath |-> NoFile] /\ files = <<>> /\ versions = <<>>
      /\ clock = FileValid /\ entries = [i \in Slots |-> NewEntry]
      /\ requests = [s \in FileStream |-> NewContext] /\ opened = 0
  BY DEF FileInit, Slots
<1>2. NewEntry \in Entry /\ NewEntry.descriptor = NoFile /\ NewEntry.checked = 0
  <2>1. NewEntry \in Entry
    BY DEF NewEntry, Entry, NoFile
  <2>. QED BY <2>1 DEF NewEntry
<1>3. /\ \A p \in FilePath : disk[p] = NoFile
      /\ \A i \in Slots : entries[i] = NewEntry
      /\ \A s \in FileStream : requests[s] = NewContext
      /\ Len(files) = 0 /\ Len(versions) = 0
  BY <1>1
<1>4. FileTypeOK
  <2>1. files \in Seq(Nat) /\ versions \in Seq(Version) /\ clock \in Nat
    BY <1>1, FileAssumption
  <2>2. /\ disk \in [FilePath -> Int] /\ entries \in [Slots -> Entry]
        /\ requests \in [FileStream -> Context]
    BY <1>1, <1>2, NewContextIs DEF NoFile
  <2>. QED BY <1>2, <1>3, <2>1, <2>2, NewContextIs DEF FileTypeOK, NoFile
<1>5. ContentsDiffer /\ NamesAreCurrent
  <2>1. IsInjective(files)
    BY <1>1 DEF IsInjective
  <2>. QED BY <1>3, <2>1 DEF ContentsDiffer, NamesAreCurrent, IsFile
<1>6. EntriesAreRecent
  BY <1>1, <1>2, <1>3, FileAssumption DEF EntriesAreRecent, EntryIsRecent
<1>7. RequestsAreFine
  BY <1>3, NewContextIs DEF RequestsAreFine, Knows, ReadsWhatItSaid
<1>8. DescriptorsAreOwned
  <2>1. InEntries(entries) = {} /\ InRequests(requests) = {}
    BY <1>2, <1>3, NewContextIs DEF InEntries, InRequests
  <2>2. opened = 0 /\ Cardinality(InEntries(entries)) = 0 /\ Cardinality(InRequests(requests)) = 0
    BY <1>1, <2>1, FS_EmptySet
  <2>. QED BY <1>4, <2>2, OwnedIs
<1>. QED BY <1>4, <1>5, <1>6, <1>7, <1>8 DEF FileInv

\* Every step keeps the invariant.
LEMMA FileNextKeeps ==
    ASSUME FileInv, [FileNext]_fileVars
    PROVE  FileInv'
<1>1. ASSUME NEW p \in FilePath, NEW size \in FileSize, ReplaceFile(p, size) PROVE FileInv'
  BY <1>1, ReplaceFileKeeps
<1>2. ASSUME NEW p \in FilePath, NEW size \in FileSize, WriteFile(p, size) PROVE FileInv'
  BY <1>2, WriteFileKeeps
<1>3. ASSUME NEW p \in FilePath, RemoveFile(p) PROVE FileInv'
  BY <1>3, RemoveFileKeeps
<1>4. CASE FileTick
  BY <1>4, FileTickKeeps
<1>5. ASSUME NEW s \in FileStream, NEW p \in FileAsks[s], NEW fields \in FileFields(p),
             MessageComplete(s, p, fields)
      PROVE  FileInv'
  <2>1. p \in FilePath
    BY FileAssumption
  <2>. QED BY <1>5, <2>1, MessageCompleteKeeps
<1>6. ASSUME NEW s \in FileStream, CleanupCallback(s) \/ SendChunk(s) \/ UnsetHandler(s)
      PROVE  FileInv'
  BY <1>6, CleanupCallbackKeeps, SendChunkKeeps, UnsetHandlerKeeps
<1>7. CASE UnregisterHandler
  BY <1>7, UnregisterHandlerKeeps
<1>8. CASE UNCHANGED fileVars
  <2>1. /\ disk' = disk /\ files' = files /\ versions' = versions /\ clock' = clock
        /\ entries' = entries /\ requests' = requests /\ opened' = opened
    BY <1>8 DEF fileVars
  <2>2. FileTypeOK'
    BY <2>1 DEF FileInv, FileTypeOK
  <2>3. ContentsDiffer' /\ NamesAreCurrent' /\ EntriesAreRecent' /\ DescriptorsAreOwned'
    BY <2>1 DEF FileInv, ContentsDiffer, NamesAreCurrent, IsFile, Stored, EntriesAreRecent,
                EntryIsRecent, DescriptorsAreOwned
  <2>4. RequestsAreFine'
    BY <2>1 DEF FileInv, RequestsAreFine, Knows, ReadsWhatItSaid, Holds, EntryOf
  <2>. QED BY <2>2, <2>3, <2>4 DEF FileInv
<1>. QED BY <1>1, <1>2, <1>3, <1>4, <1>5, <1>6, <1>7, <1>8 DEF FileNext

\* The invariant of the file handler: each content is in one file and has one time of its
\* own, what a path names is what has not ended, an entry leads to what its path named when
\* it was checked, a request reads what its head was about for as long as that stands, and
\* every descriptor has one owner.
THEOREM FileIsSound == FileSpec => []FileInv
<1>1. FileInit => FileInv
  BY FileInitHolds
<1>2. FileInv /\ [FileNext]_fileVars => FileInv'
  BY FileNextKeeps
<1>. QED BY <1>1, <1>2, PTL DEF FileSpec

\* Every descriptor that is open belongs to one entry of the cache or to one request, however
\* entries are taken over, requests are cut and files come and go (acquire_file_cache,
\* delete_handler_file_context, clear_file_cache).
THEOREM DescriptorsAreOwnedAlways == FileSpec => []DescriptorsAreOwned
<1>1. FileInv => DescriptorsAreOwned
  BY DEF FileInv
<1>. QED BY <1>1, FileIsSound, PTL

-----------------------------------------------------------------------------
(* What the steps may do.                                                  *)

\* What each kind of answer says and of which content.
LEMMA AnswerSays ==
    ASSUME NEW c, NEW s, NEW p, NEW fields, NEW e, Answers(c, s, p, fields, e)
    PROVE  /\ c.path = p
           /\ \/ c.status \in {404, 401, 307} /\ c.version = 0
              \/ ~ Refuses(p) /\ Authorized(p, fields) /\ c.version = files[e.descriptor]
           /\ c.status = 304 => TagMatches(fields, e) /\ ~ Refuses(p)
                                  /\ c.version = files[e.descriptor]
           /\ c.status \notin {401, 404} => Authorized(p, fields)
<1>1. CASE \E status \in {404, 401, 307} : c = AnswerBare(status, p)
  <2>1. PICK status \in {404, 401, 307} : c = AnswerBare(status, p)
    BY <1>1
  <2>2. c.path = p /\ c.status = status /\ c.version = 0
    BY <2>1 DEF AnswerBare, NewContext
  <2>3. c.status = 307 => Authorized(p, fields)
    <3>1. CASE c.status = 307 /\ ~ Authorized(p, fields)
      BY <3>1 DEF Answers
    <3>. QED BY <3>1
  <2>. QED BY <2>2, <2>3
<1>2. ASSUME c = [AnswerBare(304, p) EXCEPT !.version = files[e.descriptor]]
      PROVE  c.path = p /\ c.status = 304 /\ c.version = files[e.descriptor]
  BY <1>2 DEF AnswerBare, NewContext
<1>3. ASSUME NEW status, NEW initial, NEW final, c = Answer(status, p, initial, final, e)
      PROVE  c.path = p /\ c.status = status /\ c.version = files[e.descriptor]
  BY <1>3 DEF Answer, NewContext
<1>4. CASE /\ Authorized(p, fields) /\ ~ Refuses(p) /\ TagMatches(fields, e)
           /\ c = [AnswerBare(304, p) EXCEPT !.version = files[e.descriptor]]
  BY <1>2, <1>4
<1>5. CASE /\ Authorized(p, fields) /\ ~ Refuses(p)
           /\ c = Answer(206, p, fields.range[1], RangeLast(fields.range, e.size), e)
  <2>1. c.path = p /\ c.status = 206 /\ c.version = files[e.descriptor]
    BY <1>3, <1>5
  <2>. QED BY <1>5, <2>1
<1>6. CASE Authorized(p, fields) /\ ~ Refuses(p) /\ c = Answer(200, p, 0, e.size - 1, e)
  <2>1. c.path = p /\ c.status = 200 /\ c.version = files[e.descriptor]
    BY <1>3, <1>6
  <2>. QED BY <1>6, <2>1
<1>. QED BY <1>1, <1>4, <1>5, <1>6 DEF Answers

\* What a step does to a request: nothing, it ends, it is answered, or it sends on.
LEMMA RequestSteps ==
    ASSUME FileInv, [FileNext]_fileVars, NEW s \in FileStream
    PROVE  \/ requests'[s].version = requests[s].version /\ requests'[s].status = requests[s].status
           \/ requests'[s] = NewContext
           \/ \E p \in FileAsks[s] : \E fields \in FileFields(p) : MessageComplete(s, p, fields)
<1>1. \A r \in FileStream : \A x : requests' = [requests EXCEPT ![r] = x] =>
         requests'[s] = IF s = r THEN x ELSE requests[s]
  BY FileTyped
<1>2. requests' = requests => requests'[s] = requests[s]
  OBVIOUS
<1>3. ASSUME NEW p \in FilePath, NEW size \in FileSize,
             ReplaceFile(p, size) \/ WriteFile(p, size)
      PROVE  requests' = requests
  BY <1>3 DEF ReplaceFile, WriteFile
<1>4. FileTick \/ UnregisterHandler \/ UNCHANGED fileVars => requests' = requests
  BY DEF FileTick, UnregisterHandler, fileVars
<1>5. ASSUME NEW r \in FileStream, NEW p \in FileAsks[r], NEW fields \in FileFields(p),
             MessageComplete(r, p, fields), r # s
      PROVE  requests'[s] = requests[s]
  <2>1. \E x : requests' = [requests EXCEPT ![r] = x]
    BY <1>5, ZenonT(30) DEF MessageComplete
  <2>. QED BY <1>1, <1>5, <2>1
<1>6. ASSUME NEW r \in FileStream, CleanupCallback(r) \/ UnsetHandler(r)
      PROVE  requests'[s] = requests[s] \/ requests'[s] = NewContext
  <2>1. requests' = [requests EXCEPT ![r] = NewContext]
    BY <1>6 DEF CleanupCallback, UnsetHandler, Cleanup
  <2>. QED BY <1>1, <2>1
<1>7. ASSUME NEW r \in FileStream, SendChunk(r)
      PROVE  \/ requests'[s] = NewContext
             \/ requests'[s].version = requests[s].version /\ requests'[s].status = requests[s].status
  <2>1. \/ requests' = [requests EXCEPT ![r] = NewContext]
        \/ \E d, sent, offset :
              requests' = [requests EXCEPT ![r] =
                 [requests[r] EXCEPT !.descriptor = d, !.sent = sent, !.offset = offset]]
    <3>1. CASE requests[r].descriptor = NoFile
      BY <1>7, <3>1 DEF SendChunk, Cleanup
    <3>2. CASE requests[r].descriptor # NoFile
      BY <1>7, <3>2 DEF SendChunk, Cleanup
    <3>. QED BY <3>1, <3>2
  <2>2. CASE requests' = [requests EXCEPT ![r] = NewContext]
    BY <1>1, <2>2
  <2>3. ASSUME NEW d, NEW sent, NEW offset,
               requests' = [requests EXCEPT ![r] =
                  [requests[r] EXCEPT !.descriptor = d, !.sent = sent, !.offset = offset]]
        PROVE  requests'[s].version = requests[s].version /\ requests'[s].status = requests[s].status
    <3>1. PICK x : x = [requests[r] EXCEPT !.descriptor = d, !.sent = sent, !.offset = offset]
      OBVIOUS
    <3>2. x.version = requests[r].version /\ x.status = requests[r].status
      BY <3>1, FileTyped DEF Context
    <3>. QED BY <1>1, <2>3, <3>1, <3>2
  <2>. QED BY <2>1, <2>2, <2>3
<1>9. ASSUME NEW p \in FilePath, RemoveFile(p) PROVE requests' = requests
  BY <1>9 DEF RemoveFile
<1>10. CASE requests' = requests
  BY <1>2, <1>10
<1>11. CASE \E r \in FileStream : CleanupCallback(r) \/ UnsetHandler(r) \/ SendChunk(r)
  BY <1>6, <1>7, <1>11
<1>12. CASE \E r \in FileStream : \E p \in FileAsks[r] : \E fields \in FileFields(p) :
               MessageComplete(r, p, fields)
  BY <1>5, <1>12
<1>13. \/ requests' = requests
       \/ \E r \in FileStream : CleanupCallback(r) \/ UnsetHandler(r) \/ SendChunk(r)
       \/ \E r \in FileStream : \E p \in FileAsks[r] : \E fields \in FileFields(p) :
             MessageComplete(r, p, fields)
  BY <1>3, <1>4, <1>9 DEF FileNext
<1>. QED BY <1>10, <1>11, <1>12, <1>13

\* What a head describes was named by its path recently enough.
LEMMA ServesRecent ==
    ASSUME FileInv, [FileNext]_fileVars
    PROVE  ServedIsRecent
<1>1. SUFFICES ASSUME NEW s \in FileStream, requests[s].version = 0, requests'[s].version # 0
               PROVE  /\ versions[requests'[s].version].path = requests'[s].path
                      /\ versions[requests'[s].version].until # -1 =>
                            clock - versions[requests'[s].version].until < FileValid
  BY DEF ServedIsRecent
<1>2. PICK p \in FileAsks[s] : \E fields \in FileFields(p) : MessageComplete(s, p, fields)
  BY <1>1, RequestSteps, NewContextIs
<1>3. PICK fields \in FileFields(p) : MessageComplete(s, p, fields)
  BY <1>2
<1>4. p \in FilePath
  BY FileAssumption
<1>5. PICK e, c : e = AcquireFileCache(p) /\ c = requests'[s]
  OBVIOUS
<1>6. Answers(c, s, p, fields, e)
  BY <1>3, <1>4, <1>5, Answered
<1>7. c.path = p /\ ~ Refuses(p) /\ c.version = files[e.descriptor]
  BY <1>1, <1>5, <1>6, AnswerSays
<1>8. Stored(e.descriptor).path = p /\ (Stored(e.descriptor).until # -1 =>
                                          clock - Stored(e.descriptor).until < FileValid)
  BY <1>4, <1>5, <1>7, Acquires
<1>. QED BY <1>5, <1>7, <1>8 DEF Stored

\* A tag that matches is the one of the content that is answered with.
LEMMA ConfirmsTrue ==
    ASSUME FileInv
    PROVE  NotModifiedIsTrue
<1>1. SUFFICES ASSUME NEW s \in FileStream, requests'[s].status = 304,
                      NEW p \in FileAsks[s], NEW fields \in FileFields(p),
                      MessageComplete(s, p, fields)
               PROVE  fields.etag = requests'[s].version
  BY DEF NotModifiedIsTrue
<1>2. p \in FilePath
  BY FileAssumption
<1>3. PICK e, c : e = AcquireFileCache(p) /\ c = requests'[s]
  OBVIOUS
<1>4. Answers(c, s, p, fields, e)
  BY <1>1, <1>2, <1>3, Answered
<1>5. TagMatches(fields, e) /\ ~ Refuses(p) /\ c.version = files[e.descriptor]
  BY <1>1, <1>3, <1>4, AnswerSays
<1>6. /\ files[e.descriptor] \in 1..Len(versions)
      /\ versions[files[e.descriptor]].path = p
      /\ e.time = versions[files[e.descriptor]].written
  BY <1>2, <1>3, <1>5, Acquires DEF Stored
<1>7. /\ fields.etag \in 1..Len(versions) /\ versions[fields.etag].path = p
      /\ versions[fields.etag].written = e.time
  <2>1. fields.etag \in {0} \cup {v \in 1..Len(versions) : versions[v].path = p}
    BY DEF FileFields
  <2>. QED BY <1>5, <2>1 DEF TagMatches
<1>8. fields.etag = files[e.descriptor]
  BY <1>6, <1>7 DEF FileInv, ContentsDiffer
<1>. QED BY <1>3, <1>5, <1>8

\* Only who is authorised is told anything of a file that is protected.
LEMMA TellsTheAuthorized ==
    ASSUME FileInv
    PROVE  OnlyToTheAuthorized
<1>1. SUFFICES ASSUME NEW s \in FileStream, requests'[s].status \notin {0, 401, 404},
                      NEW p \in FileProtected \cap FileAsks[s], NEW fields \in FileFields(p),
                      MessageComplete(s, p, fields)
               PROVE  fields.authorization = "good"
  BY DEF OnlyToTheAuthorized
<1>2. p \in FilePath
  BY FileAssumption
<1>3. PICK e, c : e = AcquireFileCache(p) /\ c = requests'[s]
  OBVIOUS
<1>4. Answers(c, s, p, fields, e)
  BY <1>1, <1>2, <1>3, Answered
<1>5. Authorized(p, fields)
  BY <1>1, <1>3, <1>4, AnswerSays
<1>. QED BY <1>5 DEF Authorized

\* A request whose content still stands only ends once all that was announced is sent.
LEMMA SendsWhatItAnnounced ==
    ASSUME FileInv
    PROVE  AnnouncedIsSent
<1>1. SUFFICES ASSUME NEW s \in FileStream, SendChunk(s), requests[s].state = "sending",
                      requests'[s].state = "idle",
                      requests[s].final < versions[requests[s].version].size,
                      versions[requests[s].version].until = -1
               PROVE  requests[s].sent
                         = [i \in 1..requests[s].announced |-> requests[s].version]
  BY DEF AnnouncedIsSent
<1>2. PICK c, p, e : c = requests[s] /\ p = c.path /\ e = AcquireFileCache(p)
  OBVIOUS
<1>3. /\ c \in Context /\ Knows(c) /\ ReadsWhatItSaid(c) /\ c.state = "sending"
      /\ c.descriptor \in 0..Len(files) /\ c.version \in 0..Len(versions) /\ c.version # 0
      /\ p \in FilePath /\ versions[c.version].path = p /\ c.announced = c.final - c.initial + 1
  BY <1>1, <1>2, FileTyped DEF FileInv, RequestsAreFine, Knows
<1>4. c.offset \in Nat /\ c.initial \in Nat /\ c.final \in Int
  BY <1>3 DEF Context
<1>5. /\ versions[c.version].until = -1 /\ versions[c.version] \in Version
      /\ IsFile(p) /\ disk[p] \in 1..Len(files) /\ files[disk[p]] = c.version
  <2>1. versions[c.version] \in Version /\ versions[c.version].until = -1
    BY <1>1, <1>2, <1>3, FileTyped
  <2>2. IsFile(p) /\ files[disk[p]] = c.version
    BY <1>3, <2>1 DEF FileInv, NamesAreCurrent
  <2>. QED BY <1>3, <2>1, <2>2, FileTyped DEF IsFile, NoFile, Directory
<1>6. versions[c.version].size \in Nat /\ c.final < versions[c.version].size
  BY <1>1, <1>2, <1>5 DEF Version
<1>7. PICK d, offset, fragment :
         /\ d = disk[p] /\ offset \in Nat
         /\ fragment = ReadAt(d, offset, c.final - offset + 1) /\ fragment = <<>>
         /\ c.sent = [i \in 1..offset - c.initial |-> c.version]
         /\ offset <= c.final + 1 \/ offset = c.initial
  <2>1. \A x : requests' = [requests EXCEPT ![s] = x] => requests'[s] = x
    BY FileTyped
  <2>2. ASSUME NEW d, NEW sent, NEW offset
        PROVE  [c EXCEPT !.descriptor = d, !.sent = sent, !.offset = offset].state # "idle"
    BY <1>3 DEF Context
  <2>3. CASE c.descriptor = NoFile
    <3>1. PICK fragment : fragment = ReadAt(e.descriptor, c.initial, c.final - c.initial + 1)
      OBVIOUS
    <3>2. ~ Refuses(p)
      BY <1>5 DEF Refuses, IsFile
    <3>3. e.descriptor = disk[p]
      <4>1. e.descriptor = disk[p] \/ (Holds(p) /\ e.descriptor = EntryOf(p).descriptor)
        BY <1>2, <1>3, <3>2, Acquires
      <4>. QED BY <1>2, <1>3, <1>5, <2>3, <4>1 DEF ReadsWhatItSaid
    <3>4. fragment = <<>>
      <4>1. SUFFICES ASSUME fragment # <<>> PROVE FALSE
        OBVIOUS
      <4>2. requests' = [requests EXCEPT ![s] =
               [c EXCEPT !.descriptor = e.descriptor, !.sent = c.sent \o fragment,
                         !.offset = c.initial + Len(fragment)]]
        BY <1>1, <1>2, <2>3, <3>1, <3>2, <4>1 DEF SendChunk
      <4>. QED BY <1>1, <2>1, <2>2, <4>2
    <3>5. c.sent = [i \in 1..c.initial - c.initial |-> c.version]
      <4>1. c.sent = <<>>
        BY <1>3, <2>3 DEF Knows
      <4>2. c.initial - c.initial = 0
        BY <1>4
      <4>3. [i \in 1..0 |-> c.version] = <<>>
        OBVIOUS
      <4>. QED BY <4>1, <4>2, <4>3, Zenon
    <3>. QED BY <1>4, <3>1, <3>3, <3>4, <3>5
  <2>4. CASE c.descriptor # NoFile
    <3>1. PICK fragment : fragment = ReadAt(c.descriptor, c.offset, c.final - c.offset + 1)
      OBVIOUS
    <3>2. fragment = <<>>
      <4>1. SUFFICES ASSUME fragment # <<>> PROVE FALSE
        OBVIOUS
      <4>2. requests' = [requests EXCEPT ![s] =
               [c EXCEPT !.descriptor = c.descriptor, !.sent = c.sent \o fragment,
                         !.offset = c.offset + Len(fragment)]]
        BY <1>1, <1>2, <2>4, <3>1, <4>1 DEF SendChunk
      <4>. QED BY <1>1, <2>1, <2>2, <4>2
    <3>3. /\ c.descriptor = disk[p]
          /\ c.offset <= c.final + 1 \/ c.offset = c.initial
          /\ c.sent = [i \in 1..c.offset - c.initial |-> c.version]
      BY <1>2, <1>3, <1>5, <2>4, Zenon DEF ReadsWhatItSaid
    <3>. QED BY <1>4, <3>1, <3>2, <3>3
  <2>. QED BY <2>3, <2>4
<1>8. offset >= versions[c.version].size \/ c.final - offset + 1 <= 0
  <2>. DEFINE most == c.final - offset + 1
  <2>1. most \in Int /\ d \in 1..Len(files) /\ ReadAt(d, offset, most) = fragment
    BY <1>4, <1>5, <1>7
  <2>. HIDE DEF most
  <2>2. offset >= Stored(d).size \/ most <= 0
    BY <1>7, <2>1, FragmentIs
  <2>. QED BY <1>5, <1>7, <2>2 DEF Stored, most
<1>9. offset >= c.final + 1
  BY <1>4, <1>6, <1>7, <1>8
<1>10. 1..offset - c.initial = 1..c.announced
  <2>. DEFINE m == offset - c.initial
              n == c.announced
  <2>1. (m = n) \/ (m = 0 /\ n <= 0)
    BY <1>3, <1>4, <1>7, <1>9
  <2>2. m \in Int /\ n \in Int
    BY <1>3, <1>4, <1>7
  <2>. HIDE DEF m, n
  <2>3. 1..m = 1..n
    BY <2>1, <2>2
  <2>. QED BY <2>3 DEF m, n
<1>. QED BY <1>2, <1>7, <1>10, Zenon

\* Every response of every file: its head is about a content that its path had within the
\* time an entry is trusted, a copy is confirmed only when it is that content, what is sent
\* of a file that stands is exactly what was announced, and nothing is told of a protected
\* file without credentials (message_complete_callback_handler_file and
\* _send_chunk_handler_file).
THEOREM AlwaysServedTruly == FileSpec => ServedTruly
<1>1. FileInv /\ [FileNext]_fileVars =>
         ServedIsRecent /\ NotModifiedIsTrue /\ AnnouncedIsSent /\ OnlyToTheAuthorized
  BY ServesRecent, ConfirmsTrue, SendsWhatItAnnounced, TellsTheAuthorized
<1>2. FileInv /\ [FileNext]_fileVars =>
         [ServedIsRecent /\ NotModifiedIsTrue /\ AnnouncedIsSent /\ OnlyToTheAuthorized]_fileVars
  BY <1>1
<1>. QED BY <1>2, FileIsSound, PTL DEF FileSpec, ServedTruly

-----------------------------------------------------------------------------
(* The messages of a client and the backends that answer them.             *)

\* The types of what the two sides keep.
FragmentType == [part : {"head", "body", "end", "error"}, of : Exchange, keep : BOOLEAN]
ExchangeType ==
    [state : {"idle", "reading", "waiting", "over"}, at : Backend \cup {0}, pending : BOOLEAN,
     pendingWrite : Nat, out : Seq(FragmentType), got : Seq(FragmentType)]
BackendType ==
    [status : {"none", "open", "closed"}, exchange : Exchange \cup {0}, kept : BOOLEAN,
     reads : BOOLEAN, asked : Seq(Exchange), sent : Nat]

ProxyTypes ==
    /\ exchange \in [Exchange -> ExchangeType] /\ backend \in [Backend -> BackendType]
    /\ client \in {"open", "closed"}
    /\ onClose \in {"stream", "proxy"} /\ saved \in {"none", "stream", "proxy"}
    /\ mapped \in Backend \cup {0} /\ streamClosed \in Nat

\* The fragments that are counted, as against the last of a response.
Counts(f) == f.part \in {"head", "body"}
CountedIn(out) == IF out # <<>> /\ ~ Counts(out[Len(out)]) THEN Len(out) - 1 ELSE Len(out)
IsActive(x) == x.state \in {"reading", "waiting"}

\* What is queued and what was written of one message: it is its own, only the last ends a
\* response, and all but that are counted.
QueueInv(e, x) ==
    /\ \A i \in 1..Len(x.out) : x.out[i].of = e
    /\ \A i \in 1..Len(x.got) : x.got[i].of = e
    /\ \A i \in 1..Len(x.out) : i < Len(x.out) => Counts(x.out[i])
    /\ IsActive(x) => x.pendingWrite = CountedIn(x.out)
    /\ x.pendingWrite <= MostBody + 1

\* What the state of a message says.
StateInv(x) ==
    /\ x.state = "idle" => x.out = <<>>
    /\ x.state = "reading" => x.out = <<>> /\ x.pending
    /\ x.state = "over" => x.at = 0 /\ x.out = <<>>
    /\ x.at # 0 => IsActive(x)
    /\ x.at # 0 /\ x.pending => \A i \in 1..Len(x.out) : Counts(x.out[i])

\* An open backend that carries a message: what it was asked and has sent of the answer.
CarriesInv(k, x) ==
    /\ IsActive(x)
    /\ IF x.state = "waiting" /\ x.pending
       THEN k.asked = <<k.exchange>> /\ x.pendingWrite <= k.sent /\ k.sent <= MostBody + 1
       ELSE k.asked = <<>> /\ k.sent = 0
    /\ ~ k.reads => x.pendingWrite >= TreRead

\* One that is open is the one of the client, and what it carries knows it.
BackendInv(b, k) ==
    /\ k.kept <=> k.status = "open"
    /\ k.status = "open" => b = mapped
    /\ k.status = "open" /\ k.exchange = 0 => k.reads /\ k.asked = <<>> /\ k.sent = 0
    /\ k.status = "open" /\ k.exchange # 0 =>
          exchange[k.exchange].at = b /\ CarriesInv(k, exchange[k.exchange])

\* The connection of the client: the handler of the proxy stands for a backend that is
\* open, and nothing is left when it goes.
ClientInv ==
    /\ IF mapped = 0 THEN onClose = "stream" /\ saved = "none"
       ELSE onClose = "proxy" /\ saved = "stream" /\ backend[mapped].status = "open"
    /\ streamClosed = IF client = "closed" THEN 1 ELSE 0
    /\ client = "closed" => mapped = 0 /\ \A e \in Exchange : ~ IsActive(exchange[e])

ProxyInv ==
    /\ ProxyTypes
    /\ ClientInv
    /\ \A e \in Exchange : QueueInv(e, exchange[e]) /\ StateInv(exchange[e])
    /\ \A e \in Exchange : exchange[e].at # 0 =>
          exchange[e].at = mapped /\ backend[mapped].exchange = e
    /\ \A e, f \in Exchange : IsActive(exchange[e]) /\ IsActive(exchange[f]) => e = f
    /\ \A b \in Backend : BackendInv(b, backend[b])

\* What the constants are.
LEMMA ProxyNumbers ==
    /\ Exchange \subseteq Nat \ {0} /\ Backend \subseteq Nat \ {0} /\ 0 \notin Exchange /\ 0 \notin Backend
    /\ Concurrent \in Nat /\ TreRead \in Nat /\ TreRead >= 1 /\ MaxRead \in Nat /\ MostBody \in Nat
    /\ TreRead <= MaxRead
BY ProxyAssumption

\* A message and a connection before anything happened to them.
LEMMA NewOnes ==
    /\ NewExchange \in ExchangeType /\ NewBackend \in BackendType
    /\ NewExchange.state = "idle" /\ NewExchange.at = 0 /\ NewExchange.pendingWrite = 0
    /\ NewExchange.out = <<>> /\ NewExchange.got = <<>>
    /\ NewBackend.asked = <<>> /\ NewBackend.sent = 0 /\ NewBackend.status = "none"
BY ProxyNumbers DEF NewExchange, NewBackend, ExchangeType, BackendType

\* It holds at the start.
LEMMA ProxyStarts == ProxyInit => ProxyInv
<1>. SUFFICES ASSUME ProxyInit PROVE ProxyInv
  OBVIOUS
<1>. USE ProxyNumbers
<1>1. NewExchange \in ExchangeType /\ NewBackend \in BackendType
  BY DEF NewExchange, NewBackend, ExchangeType, BackendType
<1>2. \A e \in Exchange : exchange[e] = NewExchange
  BY DEF ProxyInit
<1>3. \A b \in Backend : backend[b] = NewBackend
  BY DEF ProxyInit
<1>4. ProxyTypes
  BY <1>1 DEF ProxyTypes, ProxyInit
<1>5. ClientInv
  BY <1>2 DEF ProxyInit, ClientInv, IsActive, NewExchange
<1>6. \A e : QueueInv(e, NewExchange) /\ StateInv(NewExchange)
  <2>1. Len(<<>>) = 0 /\ 1..0 = {}
    OBVIOUS
  <2>. QED BY <2>1 DEF QueueInv, CountedIn, StateInv, NewExchange, IsActive
<1>7. \A b : BackendInv(b, NewBackend)
  BY DEF BackendInv, NewBackend
<1>. QED BY <1>2, <1>3, <1>4, <1>5, <1>6, <1>7 DEF ProxyInv, NewExchange, IsActive

\* A step that concerns one message and what its backend holds, and no handler.
LEMMA OneExchange ==
    ASSUME ProxyInv, NEW e \in Exchange, NEW x \in ExchangeType, QueueInv(e, x), StateInv(x),
           exchange' = [exchange EXCEPT ![e] = x], client = "open",
           IsActive(x) => \A f \in Exchange : f # e => ~ IsActive(exchange[f]),
           UNCHANGED <<client, onClose, mapped, saved, streamClosed>>,
           backend' \in [Backend -> BackendType],
           \A b \in Backend : backend'[b].status = backend[b].status /\ backend'[b].kept = backend[b].kept,
           mapped # 0 => BackendInv(mapped, backend[mapped])',
           \A f \in Exchange : exchange'[f].at # 0 => exchange'[f].at = mapped /\ backend'[mapped].exchange = f
    PROVE  ProxyInv'
<1>. USE ProxyNumbers
<1>1. /\ exchange' \in [Exchange -> ExchangeType] /\ exchange'[e] = x
      /\ \A f \in Exchange : f # e => exchange'[f] = exchange[f]
  BY DEF ProxyInv, ProxyTypes
<1>2. ProxyTypes'
  BY <1>1 DEF ProxyInv, ProxyTypes
<1>3. ClientInv'
  BY DEF ProxyInv, ClientInv, ProxyTypes
<1>4. \A f \in Exchange : (QueueInv(f, exchange[f]) /\ StateInv(exchange[f]))'
  <2>1. SUFFICES ASSUME NEW f \in Exchange PROVE QueueInv(f, exchange'[f]) /\ StateInv(exchange'[f])
    BY DEF QueueInv, StateInv
  <2>. QED BY <1>1, <2>1 DEF ProxyInv
<1>5. \A f, g \in Exchange : IsActive(exchange'[f]) /\ IsActive(exchange'[g]) => f = g
  BY <1>1 DEF ProxyInv
<1>6. ASSUME NEW b \in Backend PROVE BackendInv(b, backend[b])'
  <2>1. CASE b = mapped
    BY <2>1
  <2>2. CASE b # mapped
    <3>1. backend[b].status # "open" /\ ~ backend[b].kept
      BY <2>2 DEF ProxyInv, BackendInv
    <3>. QED BY <3>1 DEF BackendInv
  <2>. QED BY <2>1, <2>2
<1>. QED BY <1>2, <1>3, <1>4, <1>5, <1>6 DEF ProxyInv, IsActive

\* What holds of a message and of the backend of the client, taken apart.
LEMMA ProxyParts ==
    ASSUME ProxyInv
    PROVE  /\ \A e \in Exchange : exchange[e] \in ExchangeType /\ QueueInv(e, exchange[e]) /\ StateInv(exchange[e])
           /\ \A b \in Backend : backend[b] \in BackendType /\ BackendInv(b, backend[b])
           /\ mapped \in Backend \cup {0}
           /\ mapped # 0 => backend[mapped].status = "open" /\ backend[mapped].kept
           /\ \A e \in Exchange : exchange[e].at # 0 =>
                exchange[e].at = mapped /\ mapped # 0 /\ backend[mapped].exchange = e /\ IsActive(exchange[e])
           /\ \A e, f \in Exchange : IsActive(exchange[e]) /\ IsActive(exchange[f]) => e = f
<1>. USE ProxyNumbers
<1>1. \A e \in Exchange : exchange[e] \in ExchangeType /\ QueueInv(e, exchange[e]) /\ StateInv(exchange[e])
  BY DEF ProxyInv, ProxyTypes
<1>2. \A b \in Backend : backend[b] \in BackendType /\ BackendInv(b, backend[b])
  BY DEF ProxyInv, ProxyTypes
<1>3. mapped \in Backend \cup {0} /\ (mapped # 0 => backend[mapped].status = "open")
  BY DEF ProxyInv, ProxyTypes, ClientInv
<1>4. mapped # 0 => backend[mapped].kept
  BY <1>2, <1>3 DEF BackendInv
<1>5. \A e \in Exchange : exchange[e].at # 0 => exchange[e].at = mapped /\ backend[mapped].exchange = e
  BY DEF ProxyInv
<1>6. \A e, f \in Exchange : IsActive(exchange[e]) /\ IsActive(exchange[f]) => e = f
  BY DEF ProxyInv
<1>. QED BY <1>1, <1>2, <1>3, <1>4, <1>5, <1>6 DEF StateInv

\* With one message at a time no other is active when one begins.
LEMMA NoneActive ==
    ASSUME ProxyInv, Concurrent = 1, Cardinality(Active) < Concurrent
    PROVE  \A f \in Exchange : ~ IsActive(exchange[f])
<1>1. SUFFICES ASSUME NEW f \in Exchange, IsActive(exchange[f]) PROVE FALSE
  OBVIOUS
<1>2. Active = {f}
  BY <1>1, ProxyParts DEF Active, IsActive
<1>3. Cardinality({f}) = 1
  BY FS_Singleton
<1>. QED BY <1>2, <1>3

\* A message that begins.
LEMMA Begun ==
    ASSUME NEW b \in Backend \cup {0}, NEW e, NEW x,
           x = [NewExchange EXCEPT !.state = "reading", !.at = b, !.pending = TRUE]
    PROVE  /\ x \in ExchangeType /\ QueueInv(e, x) /\ StateInv(x) /\ IsActive(x) /\ x.at = b
           /\ x.state = "reading" /\ x.pendingWrite = 0
<1>. USE ProxyNumbers
<1>1. /\ x.state = "reading" /\ x.at = b /\ x.pending = TRUE /\ x.pendingWrite = 0 /\ x.out = <<>> /\ x.got = <<>>
      /\ x \in ExchangeType
  BY NewOnes DEF ExchangeType
<1>2. Len(<<>>) = 0 /\ 1..0 = {}
  OBVIOUS
<1>3. QueueInv(e, x)
  BY <1>1, <1>2 DEF QueueInv, CountedIn
<1>. QED BY <1>1, <1>2, <1>3 DEF StateInv, IsActive

LEMMA VirtualUrlKeeps ==
    ASSUME ProxyInv, Concurrent = 1, NEW e \in Exchange, VirtualUrl(e)
    PROVE  ProxyInv'
<1>. USE ProxyNumbers
<1>1. /\ client = "open" /\ client' = client /\ streamClosed' = streamClosed
      /\ \A f \in Exchange : ~ IsActive(exchange[f])
  BY NoneActive DEF VirtualUrl
<1>2. \A f \in Exchange : exchange[f].at = 0
  BY <1>1, ProxyParts
<1>3. mapped # 0 => /\ backend[mapped].exchange = 0 /\ backend[mapped].reads
                    /\ backend[mapped].asked = <<>> /\ backend[mapped].sent = 0
  <2>1. SUFFICES ASSUME mapped # 0 PROVE backend[mapped].exchange = 0
    BY ProxyParts DEF BackendInv
  <2>2. SUFFICES ASSUME backend[mapped].exchange # 0 PROVE FALSE
    OBVIOUS
  <2>3. backend[mapped].exchange \in Exchange
    BY <2>1, <2>2, ProxyParts DEF BackendType
  <2>. QED BY <1>2, <2>1, <2>2, <2>3, ProxyParts DEF BackendInv
<1>4. Reusable(mapped, e) <=> mapped # 0
  BY <1>3 DEF Reusable
<1>5. CASE mapped # 0
  <2>1. PICK x : x = [NewExchange EXCEPT !.state = "reading", !.at = mapped, !.pending = TRUE]
    OBVIOUS
  <2>2. /\ exchange' = [exchange EXCEPT ![e] = x] /\ backend' = [backend EXCEPT ![mapped].exchange = e]
        /\ UNCHANGED <<onClose, mapped, saved>>
    BY <1>4, <1>5, <2>1 DEF VirtualUrl, Takes
  <2>3. mapped \in Backend
    BY <1>5, ProxyParts
  <2>4. x \in ExchangeType /\ QueueInv(e, x) /\ StateInv(x) /\ IsActive(x) /\ x.at = mapped /\ x.state = "reading" /\ x.pendingWrite = 0
    BY <2>1, <2>3, Begun, ZenonT(30)
  <2>5. PICK k : k = [backend[mapped] EXCEPT !.exchange = e]
    OBVIOUS
  <2>6. /\ k \in BackendType /\ k.exchange = e /\ k.status = backend[mapped].status /\ k.kept = backend[mapped].kept
        /\ k.reads = backend[mapped].reads /\ k.asked = backend[mapped].asked /\ k.sent = backend[mapped].sent
    <3>1. backend[mapped] \in BackendType
      BY <2>3, ProxyParts
    <3>. QED BY <2>5, <3>1 DEF BackendType
  <2>7. backend' = [backend EXCEPT ![mapped] = k] /\ backend \in [Backend -> BackendType] /\ exchange \in [Exchange -> ExchangeType]
    BY <2>2, <2>5 DEF ProxyInv, ProxyTypes
  <2>8. backend' \in [Backend -> BackendType] /\ \A b \in Backend : backend'[b].status = backend[b].status /\ backend'[b].kept = backend[b].kept
    BY <2>3, <2>6, <2>7
  <2>9. exchange'[e] = x /\ \A f \in Exchange : f # e => exchange'[f] = exchange[f]
    BY <2>2, <2>7
  <2>10. backend'[mapped] = k /\ mapped' = mapped
    BY <2>2, <2>3, <2>7
  <2>11. BackendInv(mapped, backend[mapped])'
    <3>1. (k.kept <=> k.status = "open") /\ k.status = "open" /\ backend[mapped].reads
      BY <1>3, <1>5, <2>3, <2>6, ProxyParts DEF BackendInv
    <3>2. CarriesInv(k, x)
      BY <1>3, <1>5, <2>4, <2>6 DEF CarriesInv
    <3>. QED BY <2>4, <2>6, <2>9, <2>10, <3>1, <3>2 DEF BackendInv
  <2>12. \A f \in Exchange : exchange'[f].at # 0 => exchange'[f].at = mapped /\ backend'[mapped].exchange = f
    BY <1>2, <2>4, <2>6, <2>9, <2>10
  <2>. QED BY <1>1, <2>2, <2>4, <2>8, <2>11, <2>12, OneExchange
<1>6. CASE mapped = 0
  <2>1. \A b \in Backend : backend[b].status # "open"
    BY <1>6, ProxyParts DEF BackendInv
  <2>2. CASE /\ exchange' = [exchange EXCEPT ![e] = [NewExchange EXCEPT !.state = "reading", !.at = 0, !.pending = TRUE]]
             /\ backend' = backend /\ UNCHANGED <<onClose, mapped, saved>>
    <3>1. PICK x : x = [NewExchange EXCEPT !.state = "reading", !.at = 0, !.pending = TRUE]
      OBVIOUS
    <3>2. x \in ExchangeType /\ QueueInv(e, x) /\ StateInv(x) /\ x.at = 0
      BY <3>1, Begun
    <3>3. exchange' = [exchange EXCEPT ![e] = x] /\ exchange \in [Exchange -> ExchangeType] /\ backend' \in [Backend -> BackendType]
      BY <2>2, <3>1 DEF ProxyInv, ProxyTypes
    <3>4. \A f \in Exchange : exchange'[f].at = 0
      BY <1>2, <3>2, <3>3
    <3>. QED BY <1>1, <1>6, <2>2, <3>2, <3>3, <3>4, OneExchange
  <2>3. ASSUME NEW b \in Backend, backend[b].status = "none",
               exchange' = [exchange EXCEPT ![e] = [NewExchange EXCEPT !.state = "reading", !.at = b, !.pending = TRUE]],
               backend' = [backend EXCEPT ![b] = Connected(e)], mapped' = b, saved' = onClose, onClose' = "proxy"
        PROVE ProxyInv'
    <3>1. PICK x : x = [NewExchange EXCEPT !.state = "reading", !.at = b, !.pending = TRUE]
      OBVIOUS
    <3>2. x \in ExchangeType /\ QueueInv(e, x) /\ StateInv(x) /\ IsActive(x) /\ x.at = b /\ x.state = "reading" /\ x.pendingWrite = 0
      BY <3>1, Begun, ZenonT(30)
    <3>3. PICK k : k = Connected(e)
      OBVIOUS
    <3>4. /\ k \in BackendType /\ k.status = "open" /\ k.exchange = e /\ k.kept = TRUE /\ k.reads = TRUE
          /\ k.asked = <<>> /\ k.sent = 0
      BY <3>3, NewOnes DEF Connected, BackendType
    <3>5. /\ exchange \in [Exchange -> ExchangeType] /\ backend \in [Backend -> BackendType]
          /\ exchange' = [exchange EXCEPT ![e] = x] /\ backend' = [backend EXCEPT ![b] = k]
      BY <2>3, <3>1, <3>3 DEF ProxyInv, ProxyTypes
    <3>6. /\ exchange' \in [Exchange -> ExchangeType] /\ backend' \in [Backend -> BackendType]
          /\ exchange'[e] = x /\ \A f \in Exchange : f # e => exchange'[f] = exchange[f]
          /\ backend'[b] = k /\ \A c \in Backend : c # b => backend'[c] = backend[c]
      BY <3>2, <3>4, <3>5
    <3>7. onClose = "stream" /\ streamClosed = 0 /\ b # 0
      BY <1>1, <1>6 DEF ProxyInv, ClientInv
    <3>8. ProxyTypes'
      BY <1>1, <2>3, <3>6, <3>7 DEF ProxyInv, ProxyTypes
    <3>9. ClientInv'
      BY <1>1, <2>3, <3>4, <3>6, <3>7 DEF ClientInv
    <3>10. ASSUME NEW f \in Exchange PROVE QueueInv(f, exchange'[f]) /\ StateInv(exchange'[f])
      BY <3>2, <3>6, ProxyParts
    <3>11. \A f \in Exchange : exchange'[f].at # 0 => exchange'[f].at = mapped' /\ backend'[mapped'].exchange = f
      BY <1>2, <2>3, <3>2, <3>4, <3>6
    <3>12. \A f, g \in Exchange : IsActive(exchange'[f]) /\ IsActive(exchange'[g]) => f = g
      BY <1>1, <3>6
    <3>13. ASSUME NEW c \in Backend PROVE BackendInv(c, backend[c])'
      <4>1. CASE c = b
        <5>1. CarriesInv(k, x)
          BY <3>2, <3>4 DEF CarriesInv
        <5>. QED BY <2>3, <3>2, <3>4, <3>6, <4>1, <5>1 DEF BackendInv
      <4>2. CASE c # b
        <5>1. backend[c].status # "open" /\ ~ backend[c].kept
          BY <2>1, ProxyParts DEF BackendInv
        <5>. QED BY <3>6, <4>2, <5>1 DEF BackendInv
      <4>. QED BY <4>1, <4>2
    <3>14. \A f \in Exchange : (QueueInv(f, exchange[f]) /\ StateInv(exchange[f]))'
      BY <3>10 DEF QueueInv, StateInv
    <3>. QED BY <3>8, <3>9, <3>11, <3>12, <3>13, <3>14 DEF ProxyInv, IsActive
  <2>. QED BY <1>1, <1>4, <1>6, <2>2, <2>3 DEF VirtualUrl
<1>. QED BY <1>5, <1>6

\* What an active message without a backend leaves of the backend of the client.
LEMMA Uncarried ==
    ASSUME ProxyInv, NEW e \in Exchange, IsActive(exchange[e]), exchange[e].at = 0
    PROVE  mapped # 0 => backend[mapped].exchange = 0
<1>. USE ProxyNumbers
<1>1. SUFFICES ASSUME mapped # 0, backend[mapped].exchange # 0 PROVE FALSE
  OBVIOUS
<1>2. PICK y : y = backend[mapped].exchange
  OBVIOUS
<1>3. y \in Exchange /\ exchange[y].at = mapped
  BY <1>1, <1>2, ProxyParts DEF BackendInv, BackendType
<1>4. IsActive(exchange[y])
  BY <1>1, <1>3, ProxyParts
<1>. QED BY <1>1, <1>3, <1>4, ProxyParts

\* Nothing that matters of a backend changes.
AsBefore(k, l) ==
    /\ k.status = l.status /\ k.kept = l.kept /\ k.exchange = l.exchange
    /\ k.reads = l.reads /\ k.asked = l.asked /\ k.sent = l.sent

\* An active message that has no backend goes on without one.
LEMMA GoesOnAlone ==
    ASSUME ProxyInv, client = "open", NEW e \in Exchange, IsActive(exchange[e]), exchange[e].at = 0,
           NEW x \in ExchangeType, QueueInv(e, x), StateInv(x), x.at = 0,
           exchange' = [exchange EXCEPT ![e] = x],
           UNCHANGED <<client, onClose, mapped, saved, streamClosed>>,
           backend' \in [Backend -> BackendType],
           \A b \in Backend : AsBefore(backend'[b], backend[b])
    PROVE  ProxyInv'
<1>. USE ProxyNumbers DEF AsBefore
<1>1. /\ exchange \in [Exchange -> ExchangeType]
      /\ exchange'[e] = x /\ \A f \in Exchange : f # e => exchange'[f] = exchange[f]
  BY DEF ProxyInv, ProxyTypes
<1>2. \A f \in Exchange : f # e => ~ IsActive(exchange[f])
  BY ProxyParts
<1>3. \A f \in Exchange : exchange'[f].at = 0
  BY <1>1, <1>2, ProxyParts
<1>4. mapped # 0 => BackendInv(mapped, backend[mapped])'
  <2>1. SUFFICES ASSUME mapped # 0 PROVE BackendInv(mapped, backend[mapped])'
    OBVIOUS
  <2>2. mapped \in Backend /\ backend[mapped].exchange = 0 /\ BackendInv(mapped, backend[mapped]) /\ mapped' = mapped
    BY <2>1, Uncarried, ProxyParts
  <2>. QED BY <2>2 DEF BackendInv
<1>. QED BY <1>1, <1>2, <1>3, <1>4, OneExchange

\* One that has a backend goes on with it, or both are free of each other.
LEMMA GoesOnTogether ==
    ASSUME ProxyInv, client = "open", NEW e \in Exchange, exchange[e].at # 0,
           NEW x \in ExchangeType, QueueInv(e, x), StateInv(x),
           exchange' = [exchange EXCEPT ![e] = x],
           UNCHANGED <<client, onClose, mapped, saved, streamClosed>>,
           backend' \in [Backend -> BackendType],
           \A b \in Backend : backend'[b].status = backend[b].status /\ backend'[b].kept = backend[b].kept,
           NEW k, k = backend'[mapped],
           \/ x.at = mapped /\ k.exchange = e /\ CarriesInv(k, x)
           \/ x.at = 0 /\ k.exchange = 0 /\ k.reads /\ k.asked = <<>> /\ k.sent = 0
    PROVE  ProxyInv'
<1>. USE ProxyNumbers
<1>1. /\ exchange \in [Exchange -> ExchangeType] /\ mapped' = mapped
      /\ exchange'[e] = x /\ \A f \in Exchange : f # e => exchange'[f] = exchange[f]
  BY DEF ProxyInv, ProxyTypes
<1>2. /\ exchange[e].at = mapped /\ mapped # 0 /\ mapped \in Backend /\ IsActive(exchange[e])
      /\ k.status = "open" /\ k.kept
  BY ProxyParts
<1>3. \A f \in Exchange : f # e => ~ IsActive(exchange[f])
  BY <1>2, ProxyParts
<1>4. \A f \in Exchange : exchange'[f].at # 0 => exchange'[f].at = mapped /\ backend'[mapped].exchange = f
  BY <1>1, <1>3, ProxyParts
<1>5. BackendInv(mapped, backend[mapped])'
  BY <1>1, <1>2 DEF BackendInv
<1>. QED BY <1>1, <1>3, <1>4, <1>5, OneExchange

\* A fragment of a message that is queued or was written.
LEMMA FragmentTaken ==
    ASSUME NEW part \in {"head", "body", "end", "error"}, NEW e \in Exchange, NEW keep \in BOOLEAN,
           NEW f, f = Fragment(part, e, keep)
    PROVE  f \in FragmentType /\ f.part = part /\ f.of = e
BY DEF Fragment, FragmentType

\* One more fragment behind those that are counted.
LEMMA FragmentQueued ==
    ASSUME NEW e \in Exchange, NEW x \in ExchangeType, QueueInv(e, x), IsActive(x),
           \A i \in 1..Len(x.out) : Counts(x.out[i]),
           NEW f \in FragmentType, f.of = e, NEW y \in ExchangeType, IsActive(y),
           y.out = Append(x.out, f), y.got = x.got,
           IF Counts(f) THEN y.pendingWrite = x.pendingWrite + 1 ELSE y.pendingWrite = x.pendingWrite,
           y.pendingWrite <= MostBody + 1
    PROVE  QueueInv(e, y) /\ (Counts(f) => \A i \in 1..Len(y.out) : Counts(y.out[i]))
<1>. USE ProxyNumbers
<1>1. PICK n, t : n = Len(x.out) /\ t = x.out
  OBVIOUS
<1>2. t \in Seq(FragmentType) /\ n = Len(t) /\ n \in Nat /\ x.pendingWrite \in Nat /\ y.pendingWrite \in Nat
  BY <1>1 DEF ExchangeType
<1>3. PICK u : u = Append(t, f)
  OBVIOUS
<1>4. u \in Seq(FragmentType) /\ Len(u) = n + 1 /\ u[n + 1] = f /\ \A i \in 1..n : u[i] = t[i]
  BY <1>2, <1>3
<1>5. \A i \in 1..n + 1 : u[i].of = e
  <2>1. \A i \in 1..n : t[i].of = e
    BY <1>1 DEF QueueInv
  <2>. QED BY <1>2, <1>4, <2>1
<1>6. \A i \in 1..n : Counts(u[i])
  BY <1>1, <1>4
<1>7. x.pendingWrite = n
  <2>1. t # <<>> => n \in 1..n
    BY <1>2
  <2>2. t # <<>> => Counts(t[n])
    BY <1>1, <2>1
  <2>. QED BY <1>1, <1>2, <2>2 DEF QueueInv, CountedIn
<1>8. u # <<>>
  BY <1>2, <1>4
<1>9. y.out = u /\ Len(y.out) = n + 1
  BY <1>1, <1>3, <1>4
<1>10. \A i \in 1..Len(y.out) : i < Len(y.out) => Counts(y.out[i])
  BY <1>2, <1>6, <1>9
<1>11. y.pendingWrite = IF ~ Counts(y.out[Len(y.out)]) THEN Len(y.out) - 1 ELSE Len(y.out)
  BY <1>2, <1>4, <1>7, <1>9
<1>12. QueueInv(e, y)
  BY <1>5, <1>8, <1>9, <1>10, <1>11 DEF QueueInv, CountedIn
<1>13. Counts(f) => \A i \in 1..n + 1 : Counts(u[i])
  BY <1>2, <1>4, <1>6
<1>. QED BY <1>9, <1>12, <1>13

\* One backend that stays as it is to the client.
LEMMA OneBackend ==
    ASSUME NEW b \in Backend, NEW k \in BackendType, backend \in [Backend -> BackendType],
           backend' = [backend EXCEPT ![b] = k], k.status = backend[b].status, k.kept = backend[b].kept
    PROVE  /\ backend' \in [Backend -> BackendType] /\ k = backend'[b]
           /\ \A c \in Backend : backend'[c].status = backend[c].status /\ backend'[c].kept = backend[c].kept
OBVIOUS

LEMMA RequestCompleteKeeps ==
    ASSUME ProxyInv, NEW e \in Exchange, RequestComplete(e)
    PROVE  ProxyInv'
<1>. USE ProxyNumbers
<1>1. /\ client = "open" /\ UNCHANGED <<client, onClose, mapped, saved, streamClosed>>
      /\ exchange[e].state = "reading" /\ IsActive(exchange[e])
  BY DEF RequestComplete, IsActive
<1>2. /\ exchange[e] \in ExchangeType /\ QueueInv(e, exchange[e]) /\ StateInv(exchange[e])
      /\ exchange[e].out = <<>> /\ exchange[e].pending
  BY <1>1, ProxyParts DEF StateInv
<1>3. Len(<<>>) = 0 /\ 1..0 = {}
  OBVIOUS
<1>4. \A i \in 1..Len(exchange[e].out) : Counts(exchange[e].out[i])
  BY <1>2, <1>3
<1>5. CASE exchange[e].at = 0
  <2>1. PICK keep \in BOOLEAN :
           exchange' = [exchange EXCEPT ![e].state = "waiting", ![e].out = Append(@, Fragment("error", e, keep))]
    BY <1>5 DEF RequestComplete
  <2>2. PICK f : f = Fragment("error", e, keep)
    OBVIOUS
  <2>3. f \in FragmentType /\ f.of = e /\ ~ Counts(f)
    BY <2>2, FragmentTaken DEF Counts
  <2>4. PICK x : x = [exchange[e] EXCEPT !.state = "waiting", !.out = Append(@, f)]
    OBVIOUS
  <2>5. Append(exchange[e].out, f) \in Seq(FragmentType)
    BY <1>2, <2>3 DEF ExchangeType
  <2>6. /\ x \in ExchangeType /\ x.state = "waiting" /\ x.out = Append(exchange[e].out, f) /\ x.at = 0
        /\ x.got = exchange[e].got /\ x.pendingWrite = exchange[e].pendingWrite
    BY <1>2, <1>5, <2>4, <2>5 DEF ExchangeType
  <2>7. exchange' = [exchange EXCEPT ![e] = x]
    BY <2>1, <2>2, <2>4
  <2>8. QueueInv(e, x)
    <3>1. x.pendingWrite <= MostBody + 1
      BY <1>2, <2>6 DEF QueueInv
    <3>2. IsActive(x)
      BY <2>6 DEF IsActive
    <3>. QED BY <1>1, <1>2, <1>4, <2>3, <2>6, <3>1, <3>2, FragmentQueued
  <2>9. StateInv(x) 
    BY <2>6 DEF StateInv
  <2>10. backend' \in [Backend -> BackendType] /\ \A b \in Backend : AsBefore(backend'[b], backend[b])
    <3>1. backend' = backend
      BY <1>5 DEF RequestComplete
    <3>. QED BY <3>1 DEF ProxyInv, ProxyTypes, AsBefore
  <2>. QED BY <1>1, <1>5, <2>6, <2>7, <2>8, <2>9, <2>10, GoesOnAlone
<1>6. CASE exchange[e].at # 0
  <2>1. /\ exchange' = [exchange EXCEPT ![e].state = "waiting"]
        /\ backend' = [backend EXCEPT ![mapped].asked = Append(@, e)]
        /\ exchange[e].at = mapped /\ mapped \in Backend /\ backend[mapped].exchange = e
    BY <1>6, ProxyParts DEF RequestComplete
  <2>2. PICK x : x = [exchange[e] EXCEPT !.state = "waiting"]
    OBVIOUS
  <2>3. /\ x \in ExchangeType /\ x.state = "waiting" /\ x.out = exchange[e].out /\ x.at = mapped /\ x.pending
        /\ x.got = exchange[e].got /\ x.pendingWrite = exchange[e].pendingWrite /\ IsActive(x)
    BY <1>2, <2>1, <2>2 DEF ExchangeType, IsActive
  <2>4. QueueInv(e, x) /\ StateInv(x)
    BY <1>1, <1>2, <1>4, <2>3 DEF QueueInv, StateInv
  <2>5. /\ backend[mapped] \in BackendType /\ CarriesInv(backend[mapped], exchange[e])
    BY <1>6, <2>1, ProxyParts DEF BackendInv
  <2>6. backend[mapped].asked = <<>> /\ backend[mapped].sent = 0 /\ exchange[e].pendingWrite = 0
    BY <1>1, <1>2, <1>3, <2>5 DEF CarriesInv, QueueInv, CountedIn
  <2>7. PICK k : k = [backend[mapped] EXCEPT !.asked = Append(@, e)]
    OBVIOUS
  <2>8. Append(<<>>, e) = <<e>> /\ <<e>> \in Seq(Exchange)
    OBVIOUS
  <2>9. /\ k \in BackendType /\ k.asked = <<e>> /\ k.exchange = e /\ k.sent = 0 /\ k.reads = backend[mapped].reads
        /\ k.status = backend[mapped].status /\ k.kept = backend[mapped].kept
    BY <2>1, <2>5, <2>6, <2>7, <2>8 DEF BackendType
  <2>10. backend' = [backend EXCEPT ![mapped] = k] /\ backend \in [Backend -> BackendType]
    BY <2>1, <2>7 DEF ProxyInv, ProxyTypes
  <2>11. /\ backend' \in [Backend -> BackendType] /\ k = backend'[mapped]
         /\ \A b \in Backend : backend'[b].status = backend[b].status /\ backend'[b].kept = backend[b].kept
    <3>1. mapped \in Backend
      BY <2>1
    <3>. QED BY <2>9, <2>10, <3>1, OneBackend
  <2>12. CarriesInv(k, x)
    BY <2>3, <2>5, <2>6, <2>9 DEF CarriesInv
  <2>13. exchange' = [exchange EXCEPT ![e] = x]
    BY <2>1, <2>2
  <2>. QED BY <1>1, <1>6, <2>3, <2>4, <2>9, <2>11, <2>12, <2>13, GoesOnTogether
<1>. QED BY <1>5, <1>6

\* What a backend that answers carries.
LEMMA Answering ==
    ASSUME ProxyInv, NEW b \in Backend, NEW part, BackendAnswers(b, part)
    PROVE  /\ b = mapped /\ client = "open" /\ mapped # 0
           /\ backend[b].exchange \in Exchange /\ backend[b].exchange # 0
           /\ exchange[backend[b].exchange].at = b /\ IsActive(exchange[backend[b].exchange])
           /\ exchange[backend[b].exchange].state = "waiting" /\ exchange[backend[b].exchange].pending
           /\ CarriesInv(backend[b], exchange[backend[b].exchange])
           /\ backend[b].asked = <<backend[b].exchange>>
           /\ backend[b].reads /\ backend[b] \in BackendType
<1>. USE ProxyNumbers
<1>1. /\ backend[b].status = "open" /\ backend[b].reads /\ backend[b].asked # <<>>
      /\ backend[b] \in BackendType /\ BackendInv(b, backend[b])
  BY ProxyParts DEF BackendAnswers
<1>2. b = mapped /\ b # 0 /\ backend[b].exchange # 0 /\ backend[b].exchange \in Exchange
  BY <1>1 DEF BackendInv, BackendType
<1>3. client = "open"
  BY <1>2 DEF ProxyInv, ClientInv, ProxyTypes
<1>4. /\ exchange[backend[b].exchange].at = b /\ CarriesInv(backend[b], exchange[backend[b].exchange])
  BY <1>1, <1>2 DEF BackendInv
<1>. QED BY <1>1, <1>2, <1>3, <1>4 DEF CarriesInv

LEMMA EndAnswered ==
    ASSUME ProxyInv, NEW b \in Backend, BackendAnswers(b, "end")
    PROVE  ProxyInv'
<1>. USE ProxyNumbers
<1>1. PICK e : e = backend[b].exchange
  OBVIOUS
<1>2. /\ b = mapped /\ client = "open" /\ mapped # 0 /\ e \in Exchange /\ e # 0 /\ exchange[e].at = b
      /\ IsActive(exchange[e]) /\ exchange[e].state = "waiting" /\ exchange[e].pending
      /\ CarriesInv(backend[b], exchange[e]) /\ backend[b].asked = <<e>> /\ backend[b].reads
      /\ backend[b] \in BackendType
  BY <1>1, Answering
<1>3. Head(<<e>>) = e /\ Tail(<<e>>) = <<>>
  OBVIOUS
<1>4. PICK keep \in BOOLEAN :
         /\ exchange' = [exchange EXCEPT ![e].pending = FALSE, ![e].out = Append(@, Fragment("end", e, keep))]
         /\ backend' = [backend EXCEPT ![b].asked = Tail(@), ![b].sent = 0]
         /\ UNCHANGED <<client, onClose, mapped, saved, streamClosed>>
  <2>1. Head(backend[b].asked) = e
    BY <1>2, <1>3
  <2>. QED BY <1>1, <1>2, <2>1 DEF BackendAnswers
<1>5. PICK f : f = Fragment("end", e, keep)
  OBVIOUS
<1>6. f \in FragmentType /\ f.of = e /\ ~ Counts(f)
  <2>1. "end" \in {"head", "body", "end", "error"}
    OBVIOUS
  <2>2. f \in FragmentType /\ f.part = "end" /\ f.of = e
    BY <1>2, <1>5, <2>1, FragmentTaken
  <2>. QED BY <2>2 DEF Counts
<1>7. /\ exchange[e] \in ExchangeType /\ QueueInv(e, exchange[e])
      /\ \A i \in 1..Len(exchange[e].out) : Counts(exchange[e].out[i])
  BY <1>2, ProxyParts DEF StateInv
<1>8. PICK x : x = [exchange[e] EXCEPT !.pending = FALSE, !.out = Append(@, f)]
  OBVIOUS
<1>9. Append(exchange[e].out, f) \in Seq(FragmentType)
  BY <1>6, <1>7 DEF ExchangeType
<1>10. /\ x \in ExchangeType /\ x.state = "waiting" /\ x.out = Append(exchange[e].out, f) /\ x.at = b
       /\ ~ x.pending /\ x.got = exchange[e].got /\ x.pendingWrite = exchange[e].pendingWrite /\ IsActive(x)
  BY <1>2, <1>7, <1>8, <1>9 DEF ExchangeType, IsActive
<1>11. QueueInv(e, x)
  <2>1. x.pendingWrite <= MostBody + 1
    BY <1>7, <1>10 DEF QueueInv
  <2>. QED BY <1>2, <1>6, <1>7, <1>10, <2>1, FragmentQueued
<1>12. StateInv(x)
  BY <1>10 DEF StateInv
<1>13. PICK k : k = [backend[b] EXCEPT !.asked = Tail(@), !.sent = 0]
  OBVIOUS
<1>14. /\ k \in BackendType /\ k.status = backend[b].status /\ k.kept = backend[b].kept /\ k.exchange = e
       /\ k.asked = <<>> /\ k.sent = 0 /\ k.reads = backend[b].reads
  <2>1. Tail(backend[b].asked) = <<>> /\ <<>> \in Seq(Exchange)
    BY <1>2, <1>3
  <2>. QED BY <1>1, <1>2, <1>13, <2>1 DEF BackendType
<1>15. backend' = [backend EXCEPT ![b] = k] /\ backend \in [Backend -> BackendType]
  BY <1>4, <1>13 DEF ProxyInv, ProxyTypes
<1>16. /\ backend' \in [Backend -> BackendType] /\ k = backend'[mapped]
       /\ \A c \in Backend : backend'[c].status = backend[c].status /\ backend'[c].kept = backend[c].kept
  BY <1>2, <1>14, <1>15, OneBackend
<1>17. CarriesInv(k, x)
  BY <1>2, <1>10, <1>14 DEF CarriesInv
<1>18. exchange' = [exchange EXCEPT ![e] = x]
  BY <1>4, <1>5, <1>8
<1>19. client = "open" /\ e \in Exchange /\ exchange[e].at # 0 /\ x \in ExchangeType
  BY <1>2, <1>10
<1>20. x.at = mapped /\ k.exchange = e /\ CarriesInv(k, x)
  BY <1>2, <1>10, <1>14, <1>17
<1>21. UNCHANGED <<client, onClose, mapped, saved, streamClosed>>
  BY <1>4
<1>. QED BY <1>11, <1>12, <1>16, <1>18, <1>19, <1>20, <1>21, GoesOnTogether

LEMMA PartAnswered ==
    ASSUME ProxyInv, NEW b \in Backend, NEW part \in {"head", "body"}, BackendAnswers(b, part)
    PROVE  ProxyInv'
<1>. USE ProxyNumbers
<1>1. PICK e : e = backend[b].exchange
  OBVIOUS
<1>2. /\ b = mapped /\ client = "open" /\ mapped # 0 /\ e \in Exchange /\ e # 0 /\ exchange[e].at = b
      /\ IsActive(exchange[e]) /\ exchange[e].state = "waiting" /\ exchange[e].pending
      /\ CarriesInv(backend[b], exchange[e]) /\ backend[b].asked = <<e>> /\ backend[b].reads
      /\ backend[b] \in BackendType
  BY <1>1, Answering
<1>3. Head(<<e>>) = e
  OBVIOUS
<1>4. PICK f : f = Fragment(part, e, TRUE)
  OBVIOUS
<1>5. f \in FragmentType /\ f.of = e /\ Counts(f)
  <2>1. part \in {"head", "body", "end", "error"} /\ TRUE \in BOOLEAN
    OBVIOUS
  <2>2. f \in FragmentType /\ f.part = part /\ f.of = e
    BY <1>2, <1>4, <2>1 DEF Fragment, FragmentType
  <2>. QED BY <2>2 DEF Counts
<1>6. Queue(e, f) /\ UNCHANGED <<client, onClose, mapped, saved, streamClosed>>
  BY <1>1, <1>2, <1>3, <1>4 DEF BackendAnswers
<1>7. backend[b].sent \in Nat /\ backend[b].sent <= MostBody
  <2>1. /\ part = "head" <=> backend[b].sent = 0
        /\ part = "body" => backend[b].sent <= MostBody
    BY DEF BackendAnswers
  <2>. QED BY <1>2, <2>1 DEF BackendType
<1>8. /\ exchange[e] \in ExchangeType /\ QueueInv(e, exchange[e])
      /\ \A i \in 1..Len(exchange[e].out) : Counts(exchange[e].out[i])
  BY <1>2, ProxyParts DEF StateInv
<1>9. PICK x : x = [exchange[e] EXCEPT !.out = Append(@, f), !.pendingWrite = @ + 1]
  OBVIOUS
<1>10. Append(exchange[e].out, f) \in Seq(FragmentType) /\ exchange[e].pendingWrite \in Nat
  BY <1>5, <1>8 DEF ExchangeType
<1>11. /\ x \in ExchangeType /\ x.state = "waiting" /\ x.out = Append(exchange[e].out, f) /\ x.at = b
       /\ x.pending /\ x.got = exchange[e].got /\ x.pendingWrite = exchange[e].pendingWrite + 1 /\ IsActive(x)
  <2>0. PICK n, t : n = exchange[e].pendingWrite + 1 /\ t = Append(exchange[e].out, f)
    OBVIOUS
  <2>1. n \in Nat /\ t \in Seq(FragmentType)
    BY <1>10, <2>0
  <2>2. x = [exchange[e] EXCEPT !.out = t, !.pendingWrite = n]
    BY <1>9, <2>0
  <2>. QED BY <1>2, <1>8, <2>0, <2>1, <2>2 DEF ExchangeType, IsActive
<1>12. exchange[e].pendingWrite <= backend[b].sent
  BY <1>2 DEF CarriesInv
<1>13. QueueInv(e, x) /\ \A i \in 1..Len(x.out) : Counts(x.out[i])
  <2>1. x.pendingWrite <= MostBody + 1
    BY <1>7, <1>10, <1>11, <1>12
  <2>. QED BY <1>2, <1>5, <1>8, <1>11, <2>1, FragmentQueued
<1>14. StateInv(x)
  BY <1>11, <1>13 DEF StateInv
<1>15. PICK stops \in BOOLEAN : stops = (x.at # 0 /\ x.pendingWrite >= MaxRead)
  OBVIOUS
<1>16. /\ exchange' = [exchange EXCEPT ![e] = x]
       /\ backend' = [c \in Backend |->
                         [backend[c] EXCEPT !.reads = @ /\ ~(stops /\ c = x.at),
                                            !.sent = IF backend[c].exchange = e THEN @ + 1 ELSE @]]
  BY <1>6, <1>9, <1>15 DEF Queue
<1>17. ASSUME NEW c \in Backend
       PROVE  /\ backend'[c] \in BackendType /\ backend'[c].status = backend[c].status
              /\ backend'[c].kept = backend[c].kept /\ backend'[c].exchange = backend[c].exchange
              /\ backend'[c].asked = backend[c].asked
              /\ backend'[c].reads = (backend[c].reads /\ ~(stops /\ c = x.at))
              /\ backend'[c].sent = IF backend[c].exchange = e THEN backend[c].sent + 1 ELSE backend[c].sent
  <2>1. backend[c] \in BackendType
    BY ProxyParts
  <2>2. PICK r : r = (backend[c].reads /\ ~(stops /\ c = x.at))
    OBVIOUS
  <2>3. r \in BOOLEAN
    BY <2>2
  <2>4. PICK s : s = IF backend[c].exchange = e THEN backend[c].sent + 1 ELSE backend[c].sent
    OBVIOUS
  <2>5. s \in Nat
    BY <2>1, <2>4 DEF BackendType
  <2>6. PICK l : l = [backend[c] EXCEPT !.reads = r, !.sent = s]
    OBVIOUS
  <2>7. backend'[c] = l
    BY <1>16, <2>2, <2>4, <2>6
  <2>8. /\ l \in BackendType /\ l.status = backend[c].status /\ l.kept = backend[c].kept
        /\ l.exchange = backend[c].exchange /\ l.asked = backend[c].asked /\ l.reads = r /\ l.sent = s
    BY <2>1, <2>3, <2>5, <2>6 DEF BackendType
  <2>. QED BY <2>2, <2>4, <2>7, <2>8
<1>18. PICK k : k = backend'[mapped]
  OBVIOUS
<1>19. /\ k.exchange = e /\ k.asked = <<e>> /\ k.sent = backend[b].sent + 1
       /\ k.reads = ~ (stops /\ b = x.at)
  BY <1>1, <1>2, <1>17, <1>18
<1>20. CarriesInv(k, x)
  <2>1. x.pendingWrite <= k.sent /\ k.sent <= MostBody + 1
    BY <1>7, <1>10, <1>11, <1>12, <1>19
  <2>2. ~ k.reads => x.pendingWrite >= TreRead
    <3>1. ~ k.reads => x.pendingWrite >= MaxRead
      BY <1>15, <1>19
    <3>. QED BY <1>10, <1>11, <3>1
  <2>. QED BY <1>11, <1>19, <2>1, <2>2 DEF CarriesInv
<1>21. backend' \in [Backend -> BackendType]
  BY <1>16, <1>17
<1>22. \A c \in Backend : backend'[c].status = backend[c].status /\ backend'[c].kept = backend[c].kept
  BY <1>17
<1>23. exchange[e].at # 0 /\ x.at = mapped
  BY <1>2, <1>11
<1>. QED BY <1>2, <1>6, <1>11, <1>13, <1>14, <1>16, <1>18, <1>19, <1>20, <1>21, <1>22, <1>23, GoesOnTogether

\* What is left of a message when the first of it is written.
TakenOff(e, x, f, t, g) ==
    /\ f \in FragmentType /\ t \in Seq(FragmentType) /\ g \in Seq(FragmentType)
    /\ \A i \in 1..Len(t) : t[i].of = e /\ i + 1 \in 1..Len(x.out) /\ t[i] = x.out[i + 1]
    /\ \A i \in 1..Len(g) : g[i].of = e
    /\ \A i \in 1..Len(t) : i < Len(t) => Counts(t[i])
    /\ Counts(f) => x.pendingWrite = CountedIn(t) + 1
    /\ ~ Counts(f) => t = <<>> /\ x.pendingWrite = 0 /\ Len(x.out) = 1 /\ x.out[1] = f

\* What is written first of a message is taken off what is queued.
LEMMA FragmentWritten ==
    ASSUME NEW e \in Exchange, NEW x \in ExchangeType, QueueInv(e, x), IsActive(x), x.out # <<>>
    PROVE  TakenOff(e, x, Head(x.out), Tail(x.out), Append(x.got, Head(x.out)))
<1>. USE ProxyNumbers
<1>0. PICK f, t, g : f = Head(x.out) /\ t = Tail(x.out) /\ g = Append(x.got, f)
  OBVIOUS
<1>1. PICK n, s : n = Len(x.out) /\ s = x.out
  OBVIOUS
<1>2. s \in Seq(FragmentType) /\ s # <<>> /\ n = Len(s) /\ x.got \in Seq(FragmentType) /\ x.pendingWrite \in Nat
  BY <1>1 DEF ExchangeType
<1>3. /\ n \in Nat \ {0} /\ t \in Seq(FragmentType) /\ Len(t) = n - 1 /\ f = s[1]
      /\ \A i \in 1..n - 1 : t[i] = s[i + 1]
  BY <1>0, <1>1, <1>2, HeadAndRest
<1>4. f \in FragmentType /\ f.of = e
  BY <1>1, <1>2, <1>3 DEF QueueInv
<1>5. PICK m, h : m = Len(x.got) /\ h = x.got
  OBVIOUS
<1>6. /\ h \in Seq(FragmentType) /\ m \in Nat /\ g \in Seq(FragmentType) /\ Len(g) = m + 1 /\ g[m + 1] = f
      /\ \A i \in 1..m : g[i] = h[i]
  BY <1>0, <1>2, <1>4, <1>5
<1>7. \A i \in 1..m : h[i].of = e
  BY <1>5 DEF QueueInv
<1>8. \A i \in 1..m + 1 : g[i].of = e
  BY <1>4, <1>6, <1>7
<1>9. \A i \in 1..n : s[i].of = e /\ (i < n => Counts(s[i]))
  BY <1>1 DEF QueueInv
<1>10. \A i \in 1..n - 1 : t[i].of = e /\ i + 1 \in 1..n /\ (i < n - 1 => Counts(t[i]))
  BY <1>3, <1>9, SMTT(20)
<1>11. x.pendingWrite = IF ~ Counts(s[n]) THEN n - 1 ELSE n
  BY <1>1, <1>2 DEF QueueInv, CountedIn
<1>12. ASSUME Counts(f) PROVE x.pendingWrite = (IF t # <<>> /\ ~ Counts(t[n - 1]) THEN n - 2 ELSE n - 1) + 1
  <2>1. CASE n = 1
    <3>1. t = <<>>
      BY <1>3, <2>1
    <3>. QED BY <1>3, <1>11, <1>12, <2>1, <3>1
  <2>2. CASE n # 1
    <3>1. t # <<>> /\ n - 1 \in 1..n - 1 /\ (n - 1) + 1 = n
      BY <1>3, <2>2
    <3>2. t[n - 1] = s[n]
      BY <1>3, <3>1
    <3>. QED BY <1>3, <1>11, <3>1, <3>2
  <2>. QED BY <2>1, <2>2
<1>13. ASSUME ~ Counts(f) PROVE t = <<>> /\ x.pendingWrite = 0 /\ n = 1
  <2>1. n = 1
    <3>1. 1 \in 1..n
      BY <1>3
    <3>2. ~ (1 < n)
      BY <1>3, <1>9, <1>13, <3>1
    <3>. QED BY <1>3, <3>2
  <2>2. t = <<>>
    BY <1>3, <2>1
  <2>. QED BY <1>3, <1>11, <1>13, <2>1, <2>2
<1>14. Len(t) - 1 = n - 2
  BY <1>3
<1>15. Counts(f) => x.pendingWrite = CountedIn(t) + 1
  BY <1>3, <1>12, <1>14 DEF CountedIn
<1>16. TakenOff(e, x, f, t, g)
  BY <1>1, <1>3, <1>4, <1>6, <1>8, <1>10, <1>13, <1>15 DEF TakenOff
<1>. QED BY <1>0, <1>16

\* A message is over: what was written of it stays.
LEMMA Released ==
    ASSUME NEW e \in Exchange, NEW x \in ExchangeType, \A i \in 1..Len(x.got) : x.got[i].of = e,
           x.pendingWrite <= MostBody + 1, NEW y, y = [x EXCEPT !.state = "over", !.at = 0, !.out = <<>>]
    PROVE  y \in ExchangeType /\ QueueInv(e, y) /\ StateInv(y) /\ y.state = "over" /\ y.at = 0 /\ ~ IsActive(y)
<1>1. y \in ExchangeType /\ y.state = "over" /\ y.at = 0 /\ y.out = <<>> /\ y.got = x.got /\ y.pendingWrite = x.pendingWrite
  <2>1. <<>> \in Seq(FragmentType) /\ 0 \in Backend \cup {0}
    OBVIOUS
  <2>. QED BY <2>1 DEF ExchangeType
<1>2. Len(<<>>) = 0 /\ 1..0 = {} /\ ~ IsActive(y)
  BY <1>1 DEF IsActive
<1>. QED BY <1>1, <1>2 DEF QueueInv, StateInv

\* A message of which something is queued waits for the rest of it to be written.
LEMMA Writing ==
    ASSUME ProxyInv, NEW e \in Exchange, exchange[e].out # <<>>
    PROVE  exchange[e].state = "waiting" /\ IsActive(exchange[e])
BY ProxyParts DEF StateInv, ExchangeType, IsActive

LEMMA PartWritten ==
    ASSUME ProxyInv, NEW e \in Exchange, Written(e), Head(exchange[e].out).part \in {"head", "body"}
    PROVE  ProxyInv'
<1>. USE ProxyNumbers
<1>1. PICK f, t, g : f = Head(exchange[e].out) /\ t = Tail(exchange[e].out) /\ g = Append(exchange[e].got, f)
  OBVIOUS
<1>2. /\ client = "open" /\ exchange[e].out # <<>> /\ Counts(f)
      /\ exchange[e] \in ExchangeType /\ QueueInv(e, exchange[e]) /\ StateInv(exchange[e])
      /\ exchange[e].state = "waiting" /\ IsActive(exchange[e])
  BY <1>1, ProxyParts, Writing DEF Written, Counts
<1>3. /\ f \in FragmentType /\ t \in Seq(FragmentType) /\ g \in Seq(FragmentType)
      /\ \A i \in 1..Len(t) : t[i].of = e /\ i + 1 \in 1..Len(exchange[e].out) /\ t[i] = exchange[e].out[i + 1]
      /\ \A i \in 1..Len(g) : g[i].of = e
      /\ \A i \in 1..Len(t) : i < Len(t) => Counts(t[i])
      /\ exchange[e].pendingWrite = CountedIn(t) + 1
  <2>1. TakenOff(e, exchange[e], f, t, g)
    BY <1>1, <1>2, FragmentWritten
  <2>. QED BY <1>2, <2>1 DEF TakenOff
<1>4. PICK n : n = exchange[e].pendingWrite - 1
  OBVIOUS
<1>5. n \in Nat /\ n <= MostBody + 1 /\ n = CountedIn(t)
  <2>1. PICK u : u = CountedIn(t)
    OBVIOUS
  <2>2. u \in Nat
    <3>1. Len(t) \in Nat /\ (t # <<>> => Len(t) # 0)
      BY <1>3
    <3>. QED BY <2>1, <3>1 DEF CountedIn
  <2>3. exchange[e].pendingWrite = u + 1 /\ exchange[e].pendingWrite <= MostBody + 1
    BY <1>2, <1>3, <2>1 DEF QueueInv
  <2>. QED BY <1>4, <2>1, <2>2, <2>3
<1>6. PICK x : x = [exchange[e] EXCEPT !.out = t, !.got = g, !.pendingWrite = n]
  OBVIOUS
<1>7. /\ x \in ExchangeType /\ x.state = "waiting" /\ x.out = t /\ x.got = g /\ x.pendingWrite = n
      /\ x.at = exchange[e].at /\ x.pending = exchange[e].pending /\ IsActive(x)
  BY <1>2, <1>3, <1>5, <1>6 DEF ExchangeType, IsActive
<1>8. QueueInv(e, x)
  BY <1>3, <1>5, <1>7 DEF QueueInv
<1>9. StateInv(x)
  <2>1. x.at # 0 /\ x.pending => \A i \in 1..Len(exchange[e].out) : Counts(exchange[e].out[i])
    BY <1>2, <1>7 DEF StateInv
  <2>. QED BY <1>3, <1>7, <2>1 DEF StateInv
<1>10. /\ exchange' = [exchange EXCEPT ![e] = x]
       /\ UNCHANGED <<client, onClose, mapped, saved, streamClosed>>
       /\ backend' = [b \in Backend |->
                         [backend[b] EXCEPT !.reads = @ \/ (b = x.at /\ n < TreRead)]]
  <2>1. exchange \in [Exchange -> ExchangeType]
    BY DEF ProxyInv, ProxyTypes
  <2>2. /\ exchange' = [[exchange EXCEPT ![e].out = t, ![e].got = g] EXCEPT ![e].pendingWrite = n]
        /\ UNCHANGED <<client, onClose, mapped, saved, streamClosed>>
        /\ backend' = [b \in Backend |->
                          [backend[b] EXCEPT !.reads = @ \/ (b = exchange[e].at /\ n < TreRead)]]
    BY <1>1, <1>2, <1>4 DEF Written, Counts, Less, Resumes
  <2>. QED BY <1>6, <1>7, <2>1, <2>2
<1>11. ASSUME NEW b \in Backend
       PROVE  /\ backend'[b] \in BackendType /\ backend'[b].status = backend[b].status
              /\ backend'[b].kept = backend[b].kept /\ backend'[b].exchange = backend[b].exchange
              /\ backend'[b].asked = backend[b].asked /\ backend'[b].sent = backend[b].sent
              /\ backend'[b].reads = (backend[b].reads \/ (b = x.at /\ n < TreRead))
  <2>1. backend[b] \in BackendType
    BY ProxyParts
  <2>2. PICK r : r = (backend[b].reads \/ (b = x.at /\ n < TreRead))
    OBVIOUS
  <2>3. r \in BOOLEAN
    BY <2>2
  <2>4. PICK l : l = [backend[b] EXCEPT !.reads = r]
    OBVIOUS
  <2>5. backend'[b] = l
    BY <1>10, <2>2, <2>4
  <2>6. /\ l \in BackendType /\ l.status = backend[b].status /\ l.kept = backend[b].kept
        /\ l.exchange = backend[b].exchange /\ l.asked = backend[b].asked /\ l.reads = r /\ l.sent = backend[b].sent
    BY <2>1, <2>3, <2>4 DEF BackendType
  <2>. QED BY <2>2, <2>5, <2>6
<1>12. backend' \in [Backend -> BackendType]
  BY <1>10, <1>11
<1>13. CASE exchange[e].at = 0
  <2>1. ASSUME NEW b \in Backend PROVE AsBefore(backend'[b], backend[b])
    <3>1. b # x.at /\ backend[b] \in BackendType
      BY <1>7, <1>13, ProxyParts
    <3>2. backend'[b].reads = backend[b].reads
      BY <1>11, <3>1 DEF BackendType
    <3>. QED BY <1>11, <3>2 DEF AsBefore
  <2>. QED BY <1>2, <1>7, <1>8, <1>9, <1>10, <1>12, <1>13, <2>1, GoesOnAlone
<1>14. CASE exchange[e].at # 0
  <2>1. exchange[e].at = mapped /\ mapped \in Backend /\ backend[mapped].exchange = e /\ BackendInv(mapped, backend[mapped])
    BY <1>14, ProxyParts
  <2>2. CarriesInv(backend[mapped], exchange[e])
    BY <1>14, <2>1, ProxyParts DEF BackendInv
  <2>3. PICK k : k = backend'[mapped]
    OBVIOUS
  <2>4. /\ k.exchange = e /\ k.asked = backend[mapped].asked /\ k.sent = backend[mapped].sent
        /\ k.reads = (backend[mapped].reads \/ n < TreRead)
    BY <1>7, <1>11, <2>1, <2>3
  <2>5. CarriesInv(k, x)
    <3>1. /\ backend[mapped].sent \in Nat /\ exchange[e].pendingWrite \in Nat
      BY <1>2, <2>1, ProxyParts DEF BackendType, ExchangeType
    <3>2. x.pending => x.pendingWrite <= k.sent /\ k.sent <= MostBody + 1 /\ k.asked = <<k.exchange>>
      BY <1>2, <1>4, <1>7, <2>1, <2>2, <2>4, <3>1 DEF CarriesInv
    <3>3. ~ x.pending => k.asked = <<>> /\ k.sent = 0
      BY <1>7, <2>2, <2>4 DEF CarriesInv
    <3>4. ~ k.reads => x.pendingWrite >= TreRead
      <4>1. ~ k.reads => ~ (n < TreRead)
        BY <2>4
      <4>. QED BY <1>5, <1>7, <4>1
    <3>. QED BY <1>7, <3>2, <3>3, <3>4 DEF CarriesInv
  <2>6. \A b \in Backend : backend'[b].status = backend[b].status /\ backend'[b].kept = backend[b].kept
    BY <1>11
  <2>7. x.at = mapped
    BY <1>7, <2>1
  <2>. QED BY <1>2, <1>7, <1>8, <1>9, <1>10, <1>12, <1>14, <2>3, <2>4, <2>5, <2>6, <2>7, GoesOnTogether
<1>. QED BY <1>13, <1>14

\* A message whose response is written to the end is over, and its backend, which has
\* nothing more to answer, free.
LEMMA EndWritten ==
    ASSUME ProxyInv, NEW e \in Exchange, exchange[e].out # <<>>, ~ Counts(Head(exchange[e].out)),
           NEW ex, ex = ReleaseContexts({e}, [exchange EXCEPT ![e].out = Tail(@), ![e].got = Append(@, Head(exchange[e].out))]),
           NEW bs, bs = Freed({e}, backend)
    PROVE  /\ \E y \in ExchangeType : /\ ex = [exchange EXCEPT ![e] = y]
                                      /\ QueueInv(e, y) /\ StateInv(y) /\ y.at = 0 /\ ~ IsActive(y)
           /\ bs \in [Backend -> BackendType]
           /\ \A b \in Backend : bs[b].status = backend[b].status /\ bs[b].kept = backend[b].kept
           /\ exchange[e].at = 0 => \A b \in Backend : AsBefore(bs[b], backend[b])
           /\ exchange[e].at # 0 => /\ bs[mapped].exchange = 0 /\ bs[mapped].reads
                                    /\ bs[mapped].asked = <<>> /\ bs[mapped].sent = 0
<1>. USE ProxyNumbers
<1>1. PICK f, t, g : f = Head(exchange[e].out) /\ t = Tail(exchange[e].out) /\ g = Append(exchange[e].got, f)
  OBVIOUS
<1>2. /\ exchange[e] \in ExchangeType /\ QueueInv(e, exchange[e]) /\ StateInv(exchange[e])
      /\ exchange[e].state = "waiting" /\ IsActive(exchange[e])
  BY ProxyParts, Writing
<1>3. TakenOff(e, exchange[e], f, t, g) /\ ~ Counts(f)
  BY <1>1, <1>2, FragmentWritten
<1>4. /\ f \in FragmentType /\ t \in Seq(FragmentType) /\ g \in Seq(FragmentType)
      /\ \A i \in 1..Len(g) : g[i].of = e
      /\ exchange[e].pendingWrite = 0 /\ Len(exchange[e].out) = 1 /\ exchange[e].out[1] = f
  BY <1>3 DEF TakenOff
<1>5. PICK x : x = [exchange[e] EXCEPT !.out = t, !.got = g]
  OBVIOUS
<1>6. x \in ExchangeType /\ x.got = g /\ x.pendingWrite = 0
  BY <1>2, <1>4, <1>5 DEF ExchangeType
<1>7. PICK y : y = [x EXCEPT !.state = "over", !.at = 0, !.out = <<>>]
  OBVIOUS
<1>8. y \in ExchangeType /\ QueueInv(e, y) /\ StateInv(y) /\ y.at = 0 /\ ~ IsActive(y)
  <2>1. \A i \in 1..Len(x.got) : x.got[i].of = e
    BY <1>4, <1>6
  <2>2. x.pendingWrite <= MostBody + 1
    BY <1>6
  <2>. QED BY <1>6, <1>7, <2>1, <2>2, Released
<1>9. ex = [exchange EXCEPT ![e] = y]
  <2>1. exchange \in [Exchange -> ExchangeType]
    BY DEF ProxyInv, ProxyTypes
  <2>2. PICK taken : taken = [exchange EXCEPT ![e].out = Tail(@), ![e].got = Append(@, Head(exchange[e].out))]
    OBVIOUS
  <2>3. taken = [exchange EXCEPT ![e] = x]
    BY <1>1, <1>5, <2>1, <2>2
  <2>4. taken[e] = x /\ \A d \in Exchange : d # e => taken[d] = exchange[d]
    BY <2>1, <2>3
  <2>5. ex = [d \in Exchange |-> IF d \in {e} THEN [taken[d] EXCEPT !.state = "over", !.at = 0, !.out = <<>>] ELSE taken[d]]
    <3>1. ex = ReleaseContexts({e}, taken)
      BY <2>2
    <3>. QED BY <3>1 DEF ReleaseContexts
  <2>6. \A d \in Exchange : ex[d] = IF d = e THEN y ELSE exchange[d]
    BY <1>7, <2>4, <2>5
  <2>. QED BY <2>1, <2>5, <2>6
<1>10. bs = [b \in Backend |-> IF exchange[e].at = b THEN [backend[b] EXCEPT !.exchange = 0] ELSE backend[b]]
  BY DEF Freed
<1>11. ASSUME NEW b \in Backend
       PROVE  /\ bs[b] \in BackendType /\ bs[b].status = backend[b].status /\ bs[b].kept = backend[b].kept
              /\ bs[b].reads = backend[b].reads /\ bs[b].asked = backend[b].asked /\ bs[b].sent = backend[b].sent
              /\ bs[b].exchange = IF exchange[e].at = b THEN 0 ELSE backend[b].exchange
  <2>1. backend[b] \in BackendType
    BY ProxyParts
  <2>2. PICK l : l = [backend[b] EXCEPT !.exchange = 0]
    OBVIOUS
  <2>3. /\ l \in BackendType /\ l.status = backend[b].status /\ l.kept = backend[b].kept
        /\ l.exchange = 0 /\ l.asked = backend[b].asked /\ l.reads = backend[b].reads /\ l.sent = backend[b].sent
    BY <2>1, <2>2 DEF BackendType
  <2>4. bs[b] = IF exchange[e].at = b THEN l ELSE backend[b]
    BY <1>10, <2>2
  <2>. QED BY <2>1, <2>3, <2>4
<1>12. bs \in [Backend -> BackendType]
  BY <1>10, <1>11
<1>13. ASSUME exchange[e].at = 0, NEW b \in Backend PROVE AsBefore(bs[b], backend[b])
  BY <1>11, <1>13 DEF AsBefore
<1>14. ASSUME exchange[e].at # 0
       PROVE  /\ bs[mapped].exchange = 0 /\ bs[mapped].reads /\ bs[mapped].asked = <<>> /\ bs[mapped].sent = 0
  <2>1. exchange[e].at = mapped /\ mapped \in Backend /\ mapped # 0 /\ backend[mapped].exchange = e /\ e # 0
    BY <1>14, ProxyParts
  <2>2. CarriesInv(backend[mapped], exchange[e])
    BY <2>1, ProxyParts DEF BackendInv
  <2>3. ~ exchange[e].pending
    <3>1. 1 \in 1..Len(exchange[e].out)
      BY <1>4
    <3>. QED BY <1>2, <1>3, <1>4, <1>14, <3>1 DEF StateInv
  <2>4. backend[mapped].asked = <<>> /\ backend[mapped].sent = 0
    BY <2>2, <2>3 DEF CarriesInv
  <2>5. backend[mapped].reads
    BY <1>4, <2>2 DEF CarriesInv
  <2>. QED BY <1>11, <2>1, <2>4, <2>5
<1>15. \A b \in Backend : bs[b].status = backend[b].status /\ bs[b].kept = backend[b].kept
  BY <1>11
<1>. QED BY <1>8, <1>9, <1>12, <1>13, <1>14, <1>15

\* The client goes: whatever was still to be answered is over, and its backend closed.
LEMMA ClientCloses ==
    ASSUME ProxyInv, client = "open", NEW ex \in [Exchange -> ExchangeType],
           \A e \in Exchange : QueueInv(e, ex[e]) /\ StateInv(ex[e]),
           NEW bs \in [Backend -> BackendType],
           \A b \in Backend : bs[b].status = backend[b].status /\ bs[b].kept = backend[b].kept,
           CloseClient(ex, bs)
    PROVE  ProxyInv'
<1>. USE ProxyNumbers
<1>1. /\ streamClosed = 0
      /\ IF mapped = 0 THEN onClose = "stream" /\ saved = "none" ELSE onClose = "proxy" /\ saved = "stream"
      /\ mapped \in Backend \cup {0}
  BY DEF ProxyInv, ClientInv, ProxyTypes
<1>2. CloseHandler = "stream"
  BY <1>1 DEF CloseHandler
<1>3. PICK X, freed : /\ X = {e \in Exchange : ex[e].state \in {"reading", "waiting"}}
                      /\ freed = Freed(X, bs)
  OBVIOUS
<1>4. /\ client' = "closed" /\ streamClosed' = streamClosed + 1
      /\ exchange' = ReleaseContexts(X, ex)
      /\ onClose' = IF saved = "none" THEN onClose ELSE saved
      /\ backend' = IF onClose = "proxy" /\ mapped # 0
                    THEN [freed EXCEPT ![mapped] = [@ EXCEPT !.status = "closed", !.kept = FALSE, !.reads = FALSE]]
                    ELSE freed
      /\ mapped' = 0 /\ saved' = "none"
  BY <1>2, <1>3 DEF CloseClient
<1>5. ASSUME NEW e \in Exchange
      PROVE  /\ exchange'[e] \in ExchangeType /\ QueueInv(e, exchange'[e]) /\ StateInv(exchange'[e])
             /\ exchange'[e].at = 0 /\ ~ IsActive(exchange'[e])
  <2>1. ex[e] \in ExchangeType /\ QueueInv(e, ex[e]) /\ StateInv(ex[e])
    OBVIOUS
  <2>2. PICK y : y = [ex[e] EXCEPT !.state = "over", !.at = 0, !.out = <<>>]
    OBVIOUS
  <2>3. exchange'[e] = IF e \in X THEN y ELSE ex[e]
    BY <1>4, <2>2 DEF ReleaseContexts
  <2>4. CASE e \in X
    <3>1. y \in ExchangeType /\ QueueInv(e, y) /\ StateInv(y) /\ y.state = "over" /\ y.at = 0 /\ ~ IsActive(y)
      <4>1. (\A i \in 1..Len(ex[e].got) : ex[e].got[i].of = e) /\ ex[e].pendingWrite <= MostBody + 1
        BY <2>1 DEF QueueInv
      <4>. QED BY <2>1, <2>2, <4>1, Released, ZenonT(30)
    <3>. QED BY <2>3, <2>4, <3>1
  <2>5. CASE e \notin X
    <3>1. ~ IsActive(ex[e])
      BY <1>3, <2>5 DEF IsActive
    <3>2. ex[e].at = 0
      BY <2>1, <3>1 DEF StateInv
    <3>. QED BY <2>1, <2>3, <2>5, <3>1, <3>2
  <2>. QED BY <2>4, <2>5
<1>6. ASSUME NEW b \in Backend
      PROVE  /\ freed[b] \in BackendType /\ freed[b].status = backend[b].status /\ freed[b].kept = backend[b].kept
  <2>1. bs[b] \in BackendType
    OBVIOUS
  <2>2. PICK l : l = [bs[b] EXCEPT !.exchange = 0]
    OBVIOUS
  <2>3. l \in BackendType /\ l.status = bs[b].status /\ l.kept = bs[b].kept
    BY <2>1, <2>2 DEF BackendType
  <2>4. freed[b] = IF \E e \in X : exchange[e].at = b THEN l ELSE bs[b]
    BY <1>3, <2>2 DEF Freed
  <2>. QED BY <2>1, <2>3, <2>4
<1>7. ASSUME NEW b \in Backend
      PROVE  /\ backend'[b] \in BackendType /\ backend'[b].status # "open" /\ ~ backend'[b].kept
  <2>1. CASE mapped # 0 /\ b = mapped
    <3>1. PICK l : l = [freed[b] EXCEPT !.status = "closed", !.kept = FALSE, !.reads = FALSE]
      OBVIOUS
    <3>2. l \in BackendType /\ l.status = "closed" /\ l.kept = FALSE
      BY <1>6, <3>1, ZenonT(30) DEF BackendType
    <3>3. backend' = [freed EXCEPT ![mapped] = [@ EXCEPT !.status = "closed", !.kept = FALSE, !.reads = FALSE]]
      BY <1>1, <1>4, <2>1
    <3>4. DOMAIN freed = Backend
      BY <1>3 DEF Freed
    <3>5. backend'[b] = l
      BY <2>1, <3>1, <3>3, <3>4
    <3>. QED BY <3>2, <3>5
  <2>2. CASE mapped = 0 \/ b # mapped
    <3>1. backend[b].status # "open" /\ ~ backend[b].kept
      BY <2>2, ProxyParts DEF BackendInv
    <3>2. backend'[b] = freed[b]
      <4>1. DOMAIN freed = Backend
        BY <1>3 DEF Freed
      <4>. QED BY <1>4, <2>2, <4>1
    <3>. QED BY <1>6, <3>1, <3>2
  <2>. QED BY <2>1, <2>2
<1>8. backend' \in [Backend -> BackendType] /\ exchange' \in [Exchange -> ExchangeType]
  <2>1. DOMAIN freed = Backend /\ freed = [b \in Backend |-> freed[b]]
    BY <1>3 DEF Freed
  <2>2. backend' = [b \in Backend |-> backend'[b]]
    BY <1>4, <2>1
  <2>3. exchange' = [e \in Exchange |-> exchange'[e]]
    BY <1>4 DEF ReleaseContexts
  <2>. QED BY <1>5, <1>7, <2>2, <2>3
<1>9. onClose' = "stream"
  BY <1>1, <1>4
<1>10. ProxyTypes'
  BY <1>1, <1>4, <1>8, <1>9 DEF ProxyTypes
<1>11. ClientInv'
  BY <1>1, <1>4, <1>5, <1>9 DEF ClientInv
<1>12. \A e \in Exchange : (QueueInv(e, exchange[e]) /\ StateInv(exchange[e]))'
  BY <1>5 DEF QueueInv, StateInv
<1>13. \A b \in Backend : BackendInv(b, backend[b])'
  BY <1>7 DEF BackendInv
<1>. QED BY <1>5, <1>10, <1>11, <1>12, <1>13 DEF ProxyInv, IsActive

LEMMA WrittenKeeps ==
    ASSUME ProxyInv, NEW e \in Exchange, Written(e)
    PROVE  ProxyInv'
<1>1. PICK f : f = Head(exchange[e].out)
  OBVIOUS
<1>2. client = "open" /\ exchange[e].out # <<>>
  BY DEF Written
<1>3. CASE f.part \in {"head", "body"}
  BY <1>1, <1>3, PartWritten
<1>4. CASE ~ (f.part \in {"head", "body"})
  <2>1. PICK ex, bs : /\ ex = ReleaseContexts({e}, [exchange EXCEPT ![e].out = Tail(@), ![e].got = Append(@, Head(exchange[e].out))])
                      /\ bs = Freed({e}, backend)
    OBVIOUS
  <2>2. IF f.keep
        THEN /\ exchange' = ex /\ backend' = bs
             /\ UNCHANGED <<client, onClose, mapped, saved, streamClosed>>
        ELSE CloseClient(ex, bs)
    BY <1>1, <1>4, <2>1 DEF Written
  <2>3. ~ Counts(Head(exchange[e].out))
    BY <1>1, <1>4 DEF Counts
  <2>4. PICK y \in ExchangeType : /\ ex = [exchange EXCEPT ![e] = y]
                                  /\ QueueInv(e, y) /\ StateInv(y) /\ y.at = 0 /\ ~ IsActive(y)
    BY <1>2, <2>1, <2>3, EndWritten
  <2>5. /\ bs \in [Backend -> BackendType]
        /\ \A b \in Backend : bs[b].status = backend[b].status /\ bs[b].kept = backend[b].kept
        /\ exchange[e].at = 0 => \A b \in Backend : AsBefore(bs[b], backend[b])
        /\ exchange[e].at # 0 => /\ bs[mapped].exchange = 0 /\ bs[mapped].reads
                                 /\ bs[mapped].asked = <<>> /\ bs[mapped].sent = 0
    BY <1>2, <2>1, <2>3, EndWritten
  <2>6. IsActive(exchange[e])
    BY <1>2, Writing
  <2>7. CASE f.keep
    <3>1. exchange' = [exchange EXCEPT ![e] = y] /\ backend' = bs /\ UNCHANGED <<client, onClose, mapped, saved, streamClosed>>
      BY <2>2, <2>4, <2>7
    <3>2. CASE exchange[e].at = 0
      BY <1>2, <2>4, <2>5, <2>6, <3>1, <3>2, GoesOnAlone
    <3>3. CASE exchange[e].at # 0
      <4>1. PICK k : k = backend'[mapped]
        OBVIOUS
      <4>. QED BY <1>2, <2>4, <2>5, <3>1, <3>3, <4>1, GoesOnTogether
    <3>. QED BY <3>2, <3>3
  <2>8. CASE ~ f.keep
    <3>1. CloseClient(ex, bs)
      BY <2>2, <2>8
    <3>2. exchange \in [Exchange -> ExchangeType]
      BY DEF ProxyInv, ProxyTypes
    <3>3. /\ ex \in [Exchange -> ExchangeType] /\ ex[e] = y /\ \A d \in Exchange : d # e => ex[d] = exchange[d]
      BY <2>4, <3>2
    <3>4. \A d \in Exchange : QueueInv(d, ex[d]) /\ StateInv(ex[d])
      BY <2>4, <3>3, ProxyParts
    <3>. QED BY <1>2, <2>5, <3>1, <3>3, <3>4, ClientCloses
  <2>. QED BY <2>7, <2>8
<1>. QED BY <1>3, <1>4

LEMMA ClientGoneKeeps == ASSUME ProxyInv, ClientGone PROVE ProxyInv'
<1>1. client = "open" /\ CloseClient(exchange, backend)
  BY DEF ClientGone
<1>2. exchange \in [Exchange -> ExchangeType] /\ backend \in [Backend -> BackendType]
  BY DEF ProxyInv, ProxyTypes
<1>. QED BY <1>1, <1>2, ProxyParts, ClientCloses

LEMMA BackendGoneKeeps ==
    ASSUME ProxyInv, NEW b \in Backend, BackendGone(b)
    PROVE  ProxyInv'
<1>. USE ProxyNumbers
<1>1. /\ backend[b] \in BackendType /\ BackendInv(b, backend[b]) /\ backend[b].status = "open"
      /\ b = mapped /\ b # 0 /\ backend[b].kept
  BY ProxyParts DEF BackendGone, BackendInv
<1>2. client = "open" /\ onClose = "proxy" /\ saved = "stream" /\ streamClosed = 0
  BY <1>1 DEF ProxyInv, ClientInv, ProxyTypes
<1>3. PICK x : x = backend[b].exchange
  OBVIOUS
<1>4. PICK k : k = [NewBackend EXCEPT !.status = "closed", !.exchange = x]
  OBVIOUS
<1>5. /\ k \in BackendType /\ k.status = "closed" /\ ~ k.kept
  <2>1. NewBackend \in BackendType /\ NewBackend.kept = FALSE /\ x \in Exchange \cup {0}
    BY <1>1, <1>3, NewOnes DEF NewBackend, BackendType
  <2>. QED BY <1>4, <2>1 DEF BackendType
<1>6. /\ backend' = [backend EXCEPT ![b] = k]
      /\ onClose' = "stream" /\ mapped' = 0 /\ saved' = "none" /\ UNCHANGED <<client, streamClosed>>
      /\ exchange' = IF x = 0 THEN exchange ELSE [exchange EXCEPT ![x].at = 0]
  BY <1>1, <1>2, <1>3, <1>4 DEF BackendGone
<1>7. /\ exchange \in [Exchange -> ExchangeType] /\ backend \in [Backend -> BackendType]
  BY DEF ProxyInv, ProxyTypes
<1>8. /\ backend' \in [Backend -> BackendType] /\ backend'[b] = k
      /\ \A c \in Backend : c # b => backend'[c] = backend[c]
  BY <1>5, <1>6, <1>7
<1>9. \A c \in Backend : c # b => backend[c].status # "open" /\ ~ backend[c].kept
  BY <1>1, ProxyParts DEF BackendInv
<1>10. ASSUME NEW c \in Backend PROVE BackendInv(c, backend[c])'
  BY <1>5, <1>8, <1>9 DEF BackendInv
<1>11. ASSUME NEW e \in Exchange
       PROVE  /\ exchange'[e] \in ExchangeType /\ QueueInv(e, exchange'[e]) /\ StateInv(exchange'[e])
              /\ exchange'[e].at = 0 /\ (IsActive(exchange'[e]) => IsActive(exchange[e]))
  <2>1. exchange[e] \in ExchangeType /\ QueueInv(e, exchange[e]) /\ StateInv(exchange[e])
    BY ProxyParts
  <2>2. CASE e = x
    <3>1. PICK y : y = [exchange[e] EXCEPT !.at = 0]
      OBVIOUS
    <3>2. /\ y \in ExchangeType /\ y.state = exchange[e].state /\ y.pending = exchange[e].pending /\ y.at = 0
          /\ y.out = exchange[e].out /\ y.got = exchange[e].got /\ y.pendingWrite = exchange[e].pendingWrite
      BY <2>1, <3>1 DEF ExchangeType
    <3>3. exchange'[e] = y
      BY <1>6, <1>7, <2>2, <3>1
    <3>4. QueueInv(e, y) /\ StateInv(y) /\ (IsActive(y) => IsActive(exchange[e]))
      BY <2>1, <3>2 DEF QueueInv, StateInv, IsActive
    <3>. QED BY <3>2, <3>3, <3>4
  <2>3. CASE e # x
    <3>1. exchange'[e] = exchange[e]
      BY <1>6, <1>7, <2>3
    <3>2. exchange[e].at = 0
      BY <1>1, <1>3, <2>3, ProxyParts
    <3>. QED BY <2>1, <3>1, <3>2
  <2>. QED BY <2>2, <2>3
<1>12. exchange' \in [Exchange -> ExchangeType]
  <2>1. exchange' = [e \in Exchange |-> exchange'[e]]
    BY <1>6, <1>7
  <2>. QED BY <1>11, <2>1
<1>13. ProxyTypes'
  BY <1>6, <1>8, <1>12 DEF ProxyInv, ProxyTypes
<1>14. ClientInv'
  BY <1>2, <1>6 DEF ClientInv
<1>15. \A e \in Exchange : (QueueInv(e, exchange[e]) /\ StateInv(exchange[e]))'
  BY <1>11 DEF QueueInv, StateInv
<1>16. \A e, f \in Exchange : IsActive(exchange'[e]) /\ IsActive(exchange'[f]) => e = f
  BY <1>11, ProxyParts
<1>17. \A e \in Exchange : exchange'[e].at # 0 => exchange'[e].at = mapped' /\ backend'[mapped'].exchange = e
  BY <1>11
<1>. QED BY <1>10, <1>13, <1>14, <1>15, <1>16, <1>17 DEF ProxyInv, IsActive

\* Every step keeps the invariant, one message of the client being answered at a time.
LEMMA ProxyStep ==
    ASSUME ProxyInv, Concurrent = 1, [ProxyNext]_proxyVars
    PROVE  ProxyInv'
<1>1. ASSUME NEW b \in Backend, NEW part \in {"head", "body", "end"}, BackendAnswers(b, part) PROVE ProxyInv'
  BY <1>1, EndAnswered, PartAnswered
<1>2. CASE UNCHANGED proxyVars
  BY <1>2 DEF proxyVars, ProxyInv, ProxyTypes, ClientInv, QueueInv, StateInv, BackendInv, CarriesInv, IsActive
<1>. QED BY <1>1, <1>2, VirtualUrlKeeps, RequestCompleteKeeps, WrittenKeeps, BackendGoneKeeps, ClientGoneKeeps
         DEF ProxyNext

\* What is counted of a queue is the places of the fragments that are counted.
LEMMA CountedIs ==
    ASSUME NEW e, NEW x \in ExchangeType, QueueInv(e, x)
    PROVE  Cardinality({i \in DOMAIN x.out : x.out[i].part \in {"head", "body"}}) = CountedIn(x.out)
<1>1. PICK n, C : n = Len(x.out) /\ C = {i \in DOMAIN x.out : x.out[i].part \in {"head", "body"}}
  OBVIOUS
<1>2. n \in Nat /\ DOMAIN x.out = 1..n /\ (x.out # <<>> <=> n # 0)
  BY <1>1 DEF ExchangeType
<1>3. \A i \in 1..n : i < n => Counts(x.out[i])
  BY <1>1 DEF QueueInv
<1>4. C = {i \in 1..n : Counts(x.out[i])}
  BY <1>1, <1>2 DEF Counts
<1>5. CASE n # 0 /\ ~ Counts(x.out[n])
  <2>1. n - 1 \in Nat /\ \A i \in 1..n - 1 : i \in 1..n /\ i < n
    BY <1>2, <1>5
  <2>2. \A i \in C : i \in 1..n - 1
    BY <1>2, <1>4, <1>5
  <2>3. C = 1..n - 1
    BY <1>3, <1>4, <2>1, <2>2
  <2>4. Cardinality(1..n - 1) = n - 1
    BY <1>2, <2>1, FS_Interval
  <2>. QED BY <1>1, <1>2, <1>5, <2>3, <2>4 DEF CountedIn
<1>6. CASE ~ (n # 0 /\ ~ Counts(x.out[n]))
  <2>1. C = 1..n
    <3>1. \A i \in 1..n : Counts(x.out[i])
      BY <1>2, <1>3, <1>6
    <3>. QED BY <1>4, <3>1
  <2>2. Cardinality(1..n) = n
    BY <1>2, FS_Interval
  <2>. QED BY <1>1, <1>2, <1>6, <2>1, <2>2 DEF CountedIn
<1>. QED BY <1>5, <1>6

\* What the run checks follows from it.
LEMMA ProxyInvIsEnough == ASSUME ProxyInv PROVE ExchangesAreKept
<1>. USE ProxyNumbers
<1>1. ProxyTypeOK
  <2>1. \A e \in Exchange : exchange[e].pendingWrite \in 0..MostBody + 1
    BY ProxyParts DEF ExchangeType, QueueInv
  <2>. QED BY <2>1 DEF ProxyInv, ProxyTypes, ProxyTypeOK, ExchangeType, BackendType
<1>2. NoResponseIsCrossed
  <2>1. SUFFICES ASSUME NEW e \in Exchange, NEW f \in ToSet(exchange[e].out \o exchange[e].got) PROVE f.of = e
    BY DEF NoResponseIsCrossed
  <2>2. exchange[e].out \in Seq(FragmentType) /\ exchange[e].got \in Seq(FragmentType) /\ QueueInv(e, exchange[e])
    BY ProxyParts DEF ExchangeType
  <2>3. f \in ToSet(exchange[e].out) \/ f \in ToSet(exchange[e].got)
    BY <2>2, Joined
  <2>. QED BY <2>2, <2>3 DEF QueueInv, ToSet
<1>3. BackendCarriesItsMessage
  BY ProxyParts DEF BackendCarriesItsMessage, Active
<1>4. NothingOfTheReleased
  BY ProxyParts DEF NothingOfTheReleased, BackendInv, CarriesInv, IsActive
<1>5. ClosingReachesTheStream
  BY ProxyParts DEF ClosingReachesTheStream, ProxyInv, ProxyTypes, ClientInv, BackendInv
<1>6. MapsAgree
  BY ProxyParts DEF MapsAgree, ProxyInv, ClientInv
<1>7. HeldBackByTheQueue
  <2>1. ASSUME NEW e \in Active
        PROVE  exchange[e].pendingWrite =
                 Cardinality({i \in DOMAIN exchange[e].out : exchange[e].out[i].part \in {"head", "body"}})
    <3>1. e \in Exchange /\ IsActive(exchange[e]) /\ exchange[e] \in ExchangeType /\ QueueInv(e, exchange[e])
      BY <2>1, ProxyParts DEF Active, IsActive
    <3>. QED BY <3>1, CountedIs DEF QueueInv
  <2>2. ASSUME NEW b \in Backend, backend[b].status = "open", ~ backend[b].reads
        PROVE  \E e \in Active : exchange[e].at = b /\ exchange[e].pendingWrite >= TreRead
    <3>1. PICK e : e = backend[b].exchange
      OBVIOUS
    <3>2. e \in Exchange /\ e # 0
      BY <2>2, <3>1, ProxyParts DEF BackendInv, BackendType
    <3>3. exchange[e].at = b /\ CarriesInv(backend[b], exchange[e])
      BY <2>2, <3>1, <3>2, ProxyParts DEF BackendInv
    <3>4. e \in Active /\ exchange[e].pendingWrite >= TreRead
      BY <2>2, <3>2, <3>3 DEF CarriesInv, IsActive, Active
    <3>. QED BY <3>3, <3>4
  <2>. QED BY <2>1, <2>2 DEF HeldBackByTheQueue
<1>. QED BY <1>1, <1>2, <1>3, <1>4, <1>5, <1>6, <1>7 DEF ExchangesAreKept

\* The two sides of every exchange know one another and nobody else until both are gone, as
\* long as a client has one message answered at a time, which is what HTTP/1 does
\* (handler_proxy.c:262-325, 397-716, 756-1277).
THEOREM ExchangesAreAlwaysKept ==
    ASSUME Concurrent = 1
    PROVE  ProxySpec => []ExchangesAreKept
<1>1. ProxyInv /\ [ProxyNext]_proxyVars => ProxyInv'
  BY ProxyStep
<1>. QED BY <1>1, ProxyStarts, ProxyInvIsEnough, PTL DEF ProxySpec

-----------------------------------------------------------------------------
(***************************************************************************)
(* The pages that are rendered and held.                                   *)
(***************************************************************************)
TmVersionType == [path : TmPath, content : TmContent, written : Nat, until : Nat \cup {-1}]

TmTreeType ==
    [path : TmPath \cup {""}, file : Nat, size : Nat, written : Nat, checked : Nat, root : Nat,
     version : Nat, page : [key : LsError \cup {""}, version : Nat]]

LsHeldType == [names : Nat, sizes : Nat]

LsEntryType ==
    [url : LsUrl \cup {""}, names : Nat, root : Nat, size : Nat, written : Nat, checked : Nat,
     shows : LsHeldType, version : Nat, moved : BOOLEAN]

LsBuildingType == [url : LsUrl \cup {""}, names : Nat, now : Nat, moved : BOOLEAN]

LsLeftType == [url : LsUrl, held : LsHeldType, until : Nat]

TmSlots == {TmSlot[p] : p \in TmPath}

LsTypes ==
    /\ tmVersions \in Seq(TmVersionType)
    /\ tmFiles \in Seq(Nat) /\ \A f \in 1..Len(tmFiles) : tmFiles[f] \in 1..Len(tmVersions)
    /\ tmDisk \in [TmPath -> Nat] /\ \A p \in TmPath : tmDisk[p] \in 1..Len(tmFiles)
    /\ tmEntries \in [TmSlots -> TmTreeType]
    /\ lsDirs \in [LsUrl -> LsHeldType]
    /\ lsLeft \in Seq(LsLeftType)
    /\ lsEntry \in LsEntryType
    /\ lsBuilding \in LsBuildingType
    /\ lsClock \in Nat

\* What a path names is a content of that path, which nothing has replaced yet.
NamedIsCurrent ==
    \A p \in TmPath : LET v == tmFiles[tmDisk[p]] IN
        tmVersions[v].path = p /\ tmVersions[v].until = -1

\* The content, if there is one, was still current at a time.
CurrentAt(v, t) ==
    v # NoVersion =>
        v \in 1..Len(tmVersions) /\ (tmVersions[v].until = -1 \/ t <= tmVersions[v].until)

\* A tree was parsed out of what was current when its path was opened, and a page that it
\* has is of it.
TreeIsOf(e) ==
    /\ CurrentAt(e.version, e.checked) /\ e.checked <= lsClock
    /\ e.page # NoPage => e.page.version = e.version

TreesInv == \A i \in TmSlots : TreeIsOf(tmEntries[i])

\* The directory held this at a time, or later.
HeldAt(u, shows, t) ==
    \/ lsDirs[u] = shows
    \/ \E k \in 1..Len(lsLeft) :
          lsLeft[k].url = u /\ lsLeft[k].held = shows /\ t <= lsLeft[k].until

\* A listing that is held shows what the directory held when its names were walked, or
\* later, under a tree that could be trusted by then.
ListingInv ==
    /\ lsEntry.checked <= lsClock
    /\ CurrentAt(lsEntry.version, lsEntry.checked - LsValid + 1)
    /\ lsEntry.url \in LsUrl => HeldAt(lsEntry.url, lsEntry.shows, lsEntry.checked)
    /\ lsEntry.moved \/ lsEntry.names = lsEntry.shows.names

\* The names that were walked are those of the directory, unless it has changed since.
BuildingInv ==
    lsBuilding # NotBuilding =>
        /\ lsBuilding.url \in LsUrl /\ lsBuilding.now <= lsClock
        /\ lsBuilding.moved \/ lsBuilding.names = lsDirs[lsBuilding.url].names

LsInv ==
    /\ LsTypes /\ NamedIsCurrent /\ TreesInv /\ ListingInv /\ BuildingInv
    /\ PagesAreCurrent

-----------------------------------------------------------------------------
(* The entries that are empty.                                               *)

LEMMA EmptyTree ==
    ASSUME lsClock \in Nat
    PROVE  NoTemplate \in TmTreeType /\ TreeIsOf(NoTemplate)
  <1>1. NoPage \in [key : LsError \cup {""}, version : Nat]
    BY DEF NoPage, NoVersion
  <1>2. NoTemplate \in TmTreeType
    BY <1>1 DEF NoTemplate, TmTreeType, NoVersion
  <1>3. NoTemplate.version = NoVersion /\ NoTemplate.page = NoPage /\ NoTemplate.checked = 0
    BY DEF NoTemplate
  <1> QED
    BY <1>2, <1>3 DEF TreeIsOf, CurrentAt

LEMMA EmptyListing ==
    /\ NoListing \in LsEntryType /\ NoListing.version = NoVersion /\ NoListing.checked = 0
    /\ NoListing.url \notin LsUrl /\ NoListing.names = NoListing.shows.names
  BY ListingAssumption DEF NoListing, LsEntryType, LsHeldType, NoVersion

LEMMA NoneIsBuilt ==
    /\ NotBuilding \in LsBuildingType /\ NotBuilding.url = ""
    /\ NotBuilding.moved = FALSE /\ NotBuilding.now = 0
  BY DEF NotBuilding, LsBuildingType

LEMMA PagesFollow ==
    ASSUME LsTypes, TreesInv
    PROVE  PagesOfTheTree
  BY DEF LsTypes, TreesInv, TreeIsOf, PagesOfTheTree

\* What is handed over has nothing to say while it is nothing.
LEMMA NothingToShow ==
    ASSUME LsTypes, TreesInv, lsServed = Nothing
    PROVE  PagesAreCurrent
  <1>1. lsServed.asked = "" /\ lsServed.of = "" /\ lsServed.version = NoVersion
    BY DEF Nothing
  <1>2. PageIsOfTheAsked /\ TemplatesAreRecent /\ ListingsAreRecent
    BY <1>1 DEF PageIsOfTheAsked, TemplatesAreRecent, ListingsAreRecent
  <1> QED
    BY <1>2, PagesFollow DEF PagesAreCurrent

LEMMA NothingShown ==
    ASSUME LsTypes', TreesInv', lsServed' = Nothing
    PROVE  PagesAreCurrent'
  <1>1. lsServed'.asked = "" /\ lsServed'.of = "" /\ lsServed'.version = NoVersion
    BY DEF Nothing
  <1>2. PageIsOfTheAsked' /\ TemplatesAreRecent' /\ ListingsAreRecent'
    BY <1>1 DEF PageIsOfTheAsked, TemplatesAreRecent, ListingsAreRecent
  <1>3. PagesOfTheTree'
    BY DEF LsTypes, TreesInv, TreeIsOf, PagesOfTheTree
  <1> QED
    BY <1>2, <1>3 DEF PagesAreCurrent

-----------------------------------------------------------------------------
(* The initial states.                                                       *)

LEMMA LsStarts == LsInit => LsInv
  <1> SUFFICES ASSUME LsInit PROVE LsInv
    OBVIOUS
  <1>1. lsClock = 0 /\ lsEntry = NoListing /\ lsBuilding = NotBuilding /\ lsServed = Nothing
        /\ lsLeft = <<>> /\ tmFiles = <<1, 2>>
    BY DEF LsInit
  <1>2. PICK c \in TmContent :
          tmVersions = <<[path |-> "listing", content |-> c, written |-> 0, until |-> -1],
                         [path |-> "error", content |-> c, written |-> 0, until |-> -1]>>
    BY DEF LsInit
  <1>3. tmVersions \in Seq(TmVersionType) /\ Len(tmVersions) = 2
    BY <1>2 DEF TmVersionType, TmPath
  <1>4. tmDisk \in [TmPath -> Nat] /\ tmDisk["listing"] = 1 /\ tmDisk["error"] = 2
    BY DEF LsInit, TmPath
  <1>5. tmEntries = [i \in TmSlots |-> NoTemplate]
    BY DEF LsInit, TmSlots
  <1>6. lsDirs \in [LsUrl -> LsHeldType]
    BY ListingAssumption DEF LsInit, LsHeldType
  <1>7. LsTypes
    <2>1. tmEntries \in [TmSlots -> TmTreeType]
      BY <1>1, <1>5, EmptyTree
    <2>2. lsEntry \in LsEntryType /\ lsBuilding \in LsBuildingType
      BY <1>1, EmptyListing, NoneIsBuilt
    <2>3. tmFiles \in Seq(Nat) /\ Len(tmFiles) = 2 /\ tmFiles[1] = 1 /\ tmFiles[2] = 2
      BY <1>1
    <2>4. \A f \in 1..Len(tmFiles) : tmFiles[f] \in 1..Len(tmVersions)
      BY <1>3, <2>3
    <2>5. \A p \in TmPath : tmDisk[p] \in 1..Len(tmFiles)
      BY <1>4, <2>3 DEF TmPath
    <2>6. lsLeft \in Seq(LsLeftType) /\ lsClock \in Nat
      BY <1>1
    <2> QED
      BY <1>3, <1>4, <1>6, <2>1, <2>2, <2>3, <2>4, <2>5, <2>6 DEF LsTypes
  <1>8. NamedIsCurrent
    BY <1>1, <1>2, <1>4 DEF NamedIsCurrent, TmPath
  <1>9. TreesInv
    BY <1>1, <1>5, EmptyTree DEF TreesInv
  <1>10. ListingInv
    BY <1>1, EmptyListing DEF ListingInv, CurrentAt
  <1>11. BuildingInv
    BY <1>1 DEF BuildingInv
  <1> QED
    BY <1>1, <1>7, <1>8, <1>9, <1>10, <1>11, NothingToShow DEF LsInv

-----------------------------------------------------------------------------
(* What happens to the templates and to the directories.                     *)

\* What was current at a time that has come stays so: the contents that there are keep
\* their places, and one ends now or not at all.
ContentsStay ==
    /\ lsClock' = lsClock /\ Len(tmVersions) <= Len(tmVersions')
    /\ \A v \in 1..Len(tmVersions) :
          \/ tmVersions'[v].until = tmVersions[v].until
          \/ tmVersions[v].until = -1 /\ tmVersions'[v].until = lsClock

LEMMA CurrentStays ==
    ASSUME LsTypes, ContentsStay, NEW v, NEW t \in Int, t <= lsClock, CurrentAt(v, t)
    PROVE  CurrentAt(v, t)'
  <1>1. Len(tmVersions) \in Nat /\ Len(tmVersions') \in Int
    BY DEF LsTypes, ContentsStay
  <1>2. CASE v = NoVersion
    BY <1>2 DEF CurrentAt
  <1>3. CASE v # NoVersion
    <2>1. v \in 1..Len(tmVersions) /\ (tmVersions[v].until = -1 \/ t <= tmVersions[v].until)
      BY <1>3 DEF CurrentAt
    <2>2. v \in 1..Len(tmVersions')
      BY <1>1, <2>1 DEF ContentsStay
    <2>3. tmVersions'[v].until = -1 \/ t <= tmVersions'[v].until
      BY <2>1 DEF ContentsStay
    <2> QED
      BY <2>2, <2>3 DEF CurrentAt
  <1> QED
    BY <1>2, <1>3

LEMMA TreesStay ==
    ASSUME LsTypes, ContentsStay, TreesInv, tmEntries' = tmEntries
    PROVE  TreesInv'
  <1> SUFFICES ASSUME NEW i \in TmSlots PROVE TreeIsOf(tmEntries[i])'
    BY DEF TreesInv, TmSlots
  <1>1. tmEntries[i] \in TmTreeType /\ TreeIsOf(tmEntries[i])
    BY DEF LsTypes, TreesInv
  <1>2. tmEntries[i].checked \in Nat
    BY <1>1 DEF TmTreeType
  <1>3. CurrentAt(tmEntries[i].version, tmEntries[i].checked)'
    BY <1>1, <1>2, CurrentStays DEF TreeIsOf
  <1> QED
    BY <1>1, <1>3 DEF TreeIsOf, ContentsStay

LEMMA ListingStays ==
    ASSUME LsTypes, ContentsStay, ListingInv, UNCHANGED <<lsEntry, lsDirs, lsLeft>>
    PROVE  ListingInv'
  <1>1. lsEntry.checked \in Nat /\ LsValid \in Nat \ {0} /\ lsClock \in Nat
    BY ListingAssumption DEF LsTypes, LsEntryType
  <1>2. CurrentAt(lsEntry.version, lsEntry.checked - LsValid + 1)'
    BY <1>1, CurrentStays DEF ListingInv
  <1> QED
    BY <1>2 DEF ListingInv, HeldAt, ContentsStay

LEMMA TemplateChanges ==
    ASSUME LsInv, NEW p \in TmPath, NEW c \in TmContent, NewTemplate(p, c)
    PROVE  /\ ContentsStay /\ tmVersions' \in Seq(TmVersionType)
           /\ Len(tmVersions') = Len(tmVersions) + 1
           /\ \A v \in 1..Len(tmVersions) :
                 /\ tmVersions'[v].path = tmVersions[v].path
                 /\ tmVersions[v].path # p => tmVersions'[v].until = tmVersions[v].until
           /\ tmVersions'[Len(tmVersions) + 1].path = p
           /\ tmVersions'[Len(tmVersions) + 1].until = -1
  <1> DEFINE kept == [v \in DOMAIN tmVersions |->
              IF tmVersions[v].path = p /\ tmVersions[v].until = -1
              THEN [tmVersions[v] EXCEPT !.until = lsClock] ELSE tmVersions[v]]
             new == [path |-> p, content |-> c, written |-> lsClock, until |-> -1]
  <1>1. tmVersions \in Seq(TmVersionType) /\ lsClock \in Nat
    BY DEF LsInv, LsTypes
  <1>2. tmVersions' = Append(kept, new) /\ lsClock' = lsClock
    BY DEF NewTemplate
  <1>3. new \in TmVersionType /\ new.path = p /\ new.until = -1
    BY <1>1 DEF TmVersionType
  <1>4. ASSUME NEW v \in 1..Len(tmVersions)
        PROVE  /\ kept[v] \in TmVersionType /\ kept[v].path = tmVersions[v].path
               /\ \/ kept[v].until = tmVersions[v].until
                  \/ tmVersions[v].path = p /\ tmVersions[v].until = -1 /\ kept[v].until = lsClock
    <2>1. tmVersions[v] \in TmVersionType /\ v \in DOMAIN tmVersions
      BY <1>1
    <2>2. CASE tmVersions[v].path = p /\ tmVersions[v].until = -1
      <3>1. PICK x : x = [tmVersions[v] EXCEPT !.until = lsClock]
        OBVIOUS
      <3>2. kept[v] = x
        BY <2>1, <2>2, <3>1
      <3>3. x \in TmVersionType /\ x.path = tmVersions[v].path /\ x.until = lsClock
        BY <1>1, <2>1, <3>1 DEF TmVersionType
      <3> QED
        BY <2>2, <3>2, <3>3
    <2>3. CASE ~(tmVersions[v].path = p /\ tmVersions[v].until = -1)
      BY <2>1, <2>3
    <2> QED
      BY <2>2, <2>3
  <1>5. kept \in Seq(TmVersionType) /\ Len(kept) = Len(tmVersions)
    <2>1. DOMAIN tmVersions = 1..Len(tmVersions) /\ Len(tmVersions) \in Nat
      BY <1>1
    <2>2. kept \in [1..Len(tmVersions) -> TmVersionType]
      BY <2>1, <1>4
    <2> HIDE DEF kept
    <2> QED
      BY <2>1, <2>2
  <1> HIDE DEF kept, new
  <1>6. /\ tmVersions' \in Seq(TmVersionType) /\ Len(tmVersions') = Len(tmVersions) + 1
        /\ tmVersions'[Len(tmVersions) + 1] = new
        /\ \A v \in 1..Len(tmVersions) : tmVersions'[v] = kept[v]
    BY <1>1, <1>2, <1>3, <1>5
  <1>7. ContentsStay
    <2>1. Len(tmVersions) <= Len(tmVersions')
      BY <1>1, <1>6
    <2> QED
      BY <2>1, <1>2, <1>4, <1>6 DEF ContentsStay
  <1> QED
    BY <1>3, <1>4, <1>6, <1>7

\* What a change of a template leaves of the rest.
LEMMA TemplateChanged ==
    ASSUME LsInv, NEW p \in TmPath, NEW c \in TmContent, NewTemplate(p, c),
           tmFiles' \in Seq(Nat), \A f \in 1..Len(tmFiles') : tmFiles'[f] \in 1..Len(tmVersions'),
           tmDisk' \in [TmPath -> Nat], \A q \in TmPath : tmDisk'[q] \in 1..Len(tmFiles'),
           NamedIsCurrent'
    PROVE  LsInv'
  <1>1. UNCHANGED <<tmEntries, lsDirs, lsLeft, lsEntry, lsBuilding, lsClock>> /\ lsServed' = Nothing
    BY DEF NewTemplate
  <1>2. ContentsStay /\ tmVersions' \in Seq(TmVersionType)
    BY TemplateChanges
  <1>3. LsTypes'
    BY <1>1, <1>2 DEF LsInv, LsTypes
  <1>4. TreesInv'
    BY <1>1, <1>2, TreesStay DEF LsInv
  <1>5. ListingInv'
    BY <1>1, <1>2, ListingStays DEF LsInv
  <1>6. BuildingInv'
    BY <1>1 DEF LsInv, BuildingInv
  <1>7. PagesAreCurrent'
    BY <1>1, <1>3, <1>4, NothingShown
  <1> QED
    BY <1>3, <1>4, <1>5, <1>6, <1>7 DEF LsInv

LEMMA ReplaceTemplateKeeps ==
    ASSUME LsInv, NEW p \in TmPath, NEW c \in TmContent, ReplaceTemplate(p, c)
    PROVE  LsInv'
  <1> DEFINE n == Len(tmFiles)
             v == Len(tmVersions) + 1
  <1>1. NewTemplate(p, c) /\ tmFiles' = Append(tmFiles, v) /\ tmDisk' = [tmDisk EXCEPT ![p] = n + 1]
    BY DEF ReplaceTemplate
  <1>2. /\ Len(tmVersions') = v /\ tmVersions'[v].path = p /\ tmVersions'[v].until = -1
        /\ \A i \in 1..Len(tmVersions) :
              /\ tmVersions'[i].path = tmVersions[i].path
              /\ tmVersions[i].path # p => tmVersions'[i].until = tmVersions[i].until
    BY <1>1, TemplateChanges
  <1>3. /\ tmFiles \in Seq(Nat) /\ n \in Nat /\ Len(tmVersions) \in Nat
        /\ \A f \in 1..n : tmFiles[f] \in 1..Len(tmVersions)
        /\ tmDisk \in [TmPath -> Nat] /\ \A q \in TmPath : tmDisk[q] \in 1..n
    BY DEF LsInv, LsTypes
  <1>4. /\ tmFiles' \in Seq(Nat) /\ Len(tmFiles') = n + 1 /\ tmFiles'[n + 1] = v
        /\ \A f \in 1..n : tmFiles'[f] = tmFiles[f]
    BY <1>1, <1>3
  <1>5. \A f \in 1..Len(tmFiles') : tmFiles'[f] \in 1..Len(tmVersions')
    <2> SUFFICES ASSUME NEW f \in 1..Len(tmFiles') PROVE tmFiles'[f] \in 1..Len(tmVersions')
      OBVIOUS
    <2>1. CASE f = n + 1
      BY <2>1, <1>2, <1>3, <1>4
    <2>2. CASE f # n + 1
      <3>1. f \in 1..n
        BY <2>2, <1>3, <1>4
      <3>2. tmFiles[f] \in 1..Len(tmVersions)
        BY <3>1, <1>3
      <3> QED
        BY <3>1, <3>2, <1>2, <1>3, <1>4
    <2> QED
      BY <2>1, <2>2
  <1>6. tmDisk' \in [TmPath -> Nat] /\ tmDisk'[p] = n + 1
        /\ \A q \in TmPath : q # p => tmDisk'[q] = tmDisk[q]
    BY <1>1, <1>3
  <1>7. \A q \in TmPath : tmDisk'[q] \in 1..Len(tmFiles')
    <2> SUFFICES ASSUME NEW q \in TmPath PROVE tmDisk'[q] \in 1..(n + 1)
      BY <1>4
    <2>1. CASE q = p
      BY <2>1, <1>3, <1>6
    <2>2. CASE q # p
      BY <2>2, <1>3, <1>6
    <2> QED
      BY <2>1, <2>2
  <1>8. NamedIsCurrent'
    <2> SUFFICES ASSUME NEW q \in TmPath
                 PROVE  /\ tmVersions'[tmFiles'[tmDisk'[q]]].path = q
                        /\ tmVersions'[tmFiles'[tmDisk'[q]]].until = -1
      BY DEF NamedIsCurrent
    <2>1. CASE q = p
      BY <2>1, <1>2, <1>4, <1>6
    <2>2. CASE q # p
      <3>1. tmFiles'[tmDisk'[q]] = tmFiles[tmDisk[q]] /\ tmFiles[tmDisk[q]] \in 1..Len(tmVersions)
        BY <2>2, <1>3, <1>4, <1>6
      <3>2. tmVersions[tmFiles[tmDisk[q]]].path = q /\ tmVersions[tmFiles[tmDisk[q]]].until = -1
        BY DEF LsInv, NamedIsCurrent
      <3> QED
        BY <2>2, <3>1, <3>2, <1>2
    <2> QED
      BY <2>1, <2>2
  <1> QED
    BY <1>1, <1>4, <1>5, <1>6, <1>7, <1>8, TemplateChanged

LEMMA WriteTemplateKeeps ==
    ASSUME LsInv, NEW p \in TmPath, NEW c \in TmContent, WriteTemplate(p, c)
    PROVE  LsInv'
  <1> DEFINE v == Len(tmVersions) + 1
  <1>1. NewTemplate(p, c) /\ tmFiles' = [tmFiles EXCEPT ![tmDisk[p]] = v] /\ tmDisk' = tmDisk
    BY DEF WriteTemplate
  <1>2. /\ Len(tmVersions') = v /\ tmVersions'[v].path = p /\ tmVersions'[v].until = -1
        /\ \A i \in 1..Len(tmVersions) :
              /\ tmVersions'[i].path = tmVersions[i].path
              /\ tmVersions[i].path # p => tmVersions'[i].until = tmVersions[i].until
    BY <1>1, TemplateChanges
  <1>3. /\ tmFiles \in Seq(Nat) /\ Len(tmVersions) \in Nat
        /\ \A f \in 1..Len(tmFiles) : tmFiles[f] \in 1..Len(tmVersions)
        /\ tmDisk \in [TmPath -> Nat] /\ \A q \in TmPath : tmDisk[q] \in 1..Len(tmFiles)
    BY DEF LsInv, LsTypes
  <1>4. /\ tmFiles' \in Seq(Nat) /\ Len(tmFiles') = Len(tmFiles) /\ tmFiles'[tmDisk[p]] = v
        /\ \A f \in 1..Len(tmFiles) : f # tmDisk[p] => tmFiles'[f] = tmFiles[f]
    BY <1>1, <1>3
  <1>5. \A f \in 1..Len(tmFiles') : tmFiles'[f] \in 1..Len(tmVersions')
    <2> SUFFICES ASSUME NEW f \in 1..Len(tmFiles') PROVE tmFiles'[f] \in 1..Len(tmVersions')
      OBVIOUS
    <2>1. CASE f = tmDisk[p]
      BY <2>1, <1>2, <1>3, <1>4
    <2>2. CASE f # tmDisk[p]
      <3>1. tmFiles[f] \in 1..Len(tmVersions)
        BY <1>3, <1>4
      <3> QED
        BY <2>2, <3>1, <1>2, <1>3, <1>4
    <2> QED
      BY <2>1, <2>2
  <1>6. NamedIsCurrent'
    <2> SUFFICES ASSUME NEW q \in TmPath
                 PROVE  /\ tmVersions'[tmFiles'[tmDisk'[q]]].path = q
                        /\ tmVersions'[tmFiles'[tmDisk'[q]]].until = -1
      BY DEF NamedIsCurrent
    <2>1. CASE q = p
      BY <2>1, <1>1, <1>2, <1>4
    <2>2. CASE q # p
      <3>1. tmVersions[tmFiles[tmDisk[q]]].path = q /\ tmVersions[tmFiles[tmDisk[q]]].until = -1
            /\ tmVersions[tmFiles[tmDisk[p]]].path = p
        BY DEF LsInv, NamedIsCurrent
      <3>2. tmDisk[q] # tmDisk[p]
        BY <2>2, <3>1
      <3>3. tmFiles'[tmDisk'[q]] = tmFiles[tmDisk[q]] /\ tmFiles[tmDisk[q]] \in 1..Len(tmVersions)
        BY <3>2, <1>1, <1>3, <1>4
      <3> QED
        BY <2>2, <3>1, <3>3, <1>2
    <2> QED
      BY <2>1, <2>2
  <1> QED
    BY <1>1, <1>3, <1>4, <1>5, <1>6, TemplateChanged

LEMMA ChangeDirectoryKeeps ==
    ASSUME LsInv, NEW u \in LsUrl, NEW c \in LsContent, ChangeDirectory(u, c)
    PROVE  LsInv'
  <1> DEFINE gone == [url |-> u, held |-> lsDirs[u], until |-> lsClock]
  <1>1. /\ UNCHANGED <<tmDisk, tmFiles, tmVersions, tmEntries, lsEntry, lsClock>>
        /\ lsLeft' = Append(lsLeft, gone) /\ lsDirs' = [lsDirs EXCEPT ![u] = c]
        /\ lsBuilding' = [lsBuilding EXCEPT !.moved = @ \/ lsBuilding.url = u]
        /\ lsServed' = Nothing
    BY DEF ChangeDirectory
  <1>2. LsTypes
    BY DEF LsInv
  <1>3. c \in LsHeldType /\ lsDirs \in [LsUrl -> LsHeldType] /\ lsLeft \in Seq(LsLeftType)
    BY <1>2, ListingAssumption DEF LsTypes, LsHeldType
  <1>4. gone \in LsLeftType /\ gone.url = u /\ gone.held = lsDirs[u] /\ gone.until = lsClock
    BY <1>2, <1>3 DEF LsTypes, LsLeftType
  <1> HIDE DEF gone
  <1>5. lsDirs' \in [LsUrl -> LsHeldType] /\ lsDirs'[u] = c
        /\ \A w \in LsUrl : w # u => lsDirs'[w] = lsDirs[w]
    BY <1>1, <1>3
  <1>6. /\ lsLeft' \in Seq(LsLeftType) /\ Len(lsLeft) \in Nat /\ Len(lsLeft') = Len(lsLeft) + 1
        /\ lsLeft'[Len(lsLeft) + 1] = gone /\ \A k \in 1..Len(lsLeft) : lsLeft'[k] = lsLeft[k]
    BY <1>1, <1>3, <1>4
  <1>7. PICK m : m = (lsBuilding.moved \/ lsBuilding.url = u)
    OBVIOUS
  <1>8. /\ lsBuilding \in LsBuildingType /\ m \in BOOLEAN
        /\ lsBuilding' = [lsBuilding EXCEPT !.moved = m]
    BY <1>1, <1>2, <1>7 DEF LsTypes, LsBuildingType
  <1>9. /\ lsBuilding' \in LsBuildingType /\ lsBuilding'.url = lsBuilding.url
        /\ lsBuilding'.names = lsBuilding.names /\ lsBuilding'.now = lsBuilding.now
        /\ lsBuilding'.moved = m
    BY <1>8 DEF LsBuildingType
  <1>10. LsTypes'
    BY <1>1, <1>2, <1>5, <1>6, <1>9 DEF LsTypes
  <1>11. NamedIsCurrent'
    BY <1>1 DEF LsInv, NamedIsCurrent
  <1>12. TreesInv'
    BY <1>1 DEF LsInv, TreesInv, TreeIsOf, CurrentAt
  <1>13. ListingInv'
    <2>1. CurrentAt(lsEntry.version, lsEntry.checked - LsValid + 1)'
      BY <1>1 DEF LsInv, ListingInv, CurrentAt
    <2>2. ASSUME lsEntry.url \in LsUrl PROVE HeldAt(lsEntry.url, lsEntry.shows, lsEntry.checked)'
      <3>1. HeldAt(lsEntry.url, lsEntry.shows, lsEntry.checked) /\ lsEntry.checked <= lsClock
        BY <2>2 DEF LsInv, ListingInv
      <3>2. CASE \E k \in 1..Len(lsLeft) : /\ lsLeft[k].url = lsEntry.url
                                           /\ lsLeft[k].held = lsEntry.shows
                                           /\ lsEntry.checked <= lsLeft[k].until
        BY <3>2, <1>1, <1>6 DEF HeldAt
      <3>3. CASE lsDirs[lsEntry.url] = lsEntry.shows /\ lsEntry.url # u
        BY <2>2, <3>3, <1>1, <1>5 DEF HeldAt
      <3>4. CASE lsDirs[lsEntry.url] = lsEntry.shows /\ lsEntry.url = u
        <4>1. Len(lsLeft) + 1 \in 1..Len(lsLeft')
          BY <1>6
        <4>2. /\ lsLeft'[Len(lsLeft) + 1].url = lsEntry.url
              /\ lsLeft'[Len(lsLeft) + 1].held = lsEntry.shows
              /\ lsEntry.checked <= lsLeft'[Len(lsLeft) + 1].until
          BY <3>1, <3>4, <1>4, <1>6
        <4> QED
          BY <4>1, <4>2, <1>1 DEF HeldAt
      <3> QED
        BY <3>1, <3>2, <3>3, <3>4 DEF HeldAt
    <2> QED
      BY <2>1, <2>2, <1>1 DEF LsInv, ListingInv
  <1>14. BuildingInv'
    <2>1. CASE lsBuilding = NotBuilding
      <3>1. m = lsBuilding.moved
        BY <2>1, <1>7, NoneIsBuilt, ListingAssumption
      <3>2. lsBuilding' = lsBuilding
        BY <3>1, <1>8 DEF LsBuildingType
      <3> QED
        BY <2>1, <3>2 DEF BuildingInv, NotBuilding
    <2>2. CASE lsBuilding # NotBuilding
      <3>1. /\ lsBuilding.url \in LsUrl /\ lsBuilding.now <= lsClock
            /\ lsBuilding.moved \/ lsBuilding.names = lsDirs[lsBuilding.url].names
        BY <2>2 DEF LsInv, BuildingInv
      <3>2. m \/ lsBuilding.names = lsDirs'[lsBuilding.url].names
        BY <3>1, <1>5, <1>7
      <3> QED
        BY <3>1, <3>2, <1>1, <1>9 DEF BuildingInv
    <2> QED
      BY <2>1, <2>2
  <1>15. PagesAreCurrent'
    BY <1>1, <1>10, <1>12, NothingShown
  <1> QED
    BY <1>10, <1>11, <1>12, <1>13, <1>14, <1>15 DEF LsInv

LEMMA LsTickKeeps ==
    ASSUME LsInv, LsTick
    PROVE  LsInv'
  <1>1. UNCHANGED <<tmDisk, tmFiles, tmVersions, lsDirs, lsLeft, tmEntries, lsEntry, lsBuilding>>
        /\ lsClock' = lsClock + 1 /\ lsServed' = Nothing /\ lsClock \in Nat
    BY DEF LsTick, lsDisk, LsInv, LsTypes
  <1>2. LsTypes'
    BY <1>1 DEF LsInv, LsTypes
  <1>3. NamedIsCurrent'
    BY <1>1 DEF LsInv, NamedIsCurrent
  <1>4. TreesInv'
    <2> SUFFICES ASSUME NEW i \in TmSlots PROVE TreeIsOf(tmEntries[i])'
      BY DEF TreesInv, TmSlots
    <2>1. tmEntries[i] \in TmTreeType /\ TreeIsOf(tmEntries[i])
      BY DEF LsInv, LsTypes, TreesInv
    <2>2. tmEntries[i].checked \in Nat
      BY <2>1 DEF TmTreeType
    <2> QED
      BY <1>1, <2>1, <2>2 DEF TreeIsOf, CurrentAt
  <1>5. ListingInv'
    <2>1. lsEntry.checked \in Nat
      BY DEF LsInv, LsTypes, LsEntryType
    <2> QED
      BY <1>1, <2>1 DEF LsInv, ListingInv, CurrentAt, HeldAt
  <1>6. BuildingInv'
    <2>1. lsBuilding.now \in Nat
      BY DEF LsInv, LsTypes, LsBuildingType
    <2> QED
      BY <1>1, <2>1 DEF LsInv, BuildingInv
  <1>7. PagesAreCurrent'
    BY <1>1, <1>2, <1>4, NothingShown
  <1> QED
    BY <1>2, <1>3, <1>4, <1>5, <1>6, <1>7 DEF LsInv

-----------------------------------------------------------------------------
(* The trees and the pages.                                                  *)

\* A tree that is trusted was parsed out of what was current within that time.
TrustedTree(e) ==
    /\ e \in TmTreeType /\ TreeIsOf(e)
    /\ e.root # 0 \/ e.version # NoVersion => lsClock - e.checked < LsValid

LEMMA TreeIsTrusted ==
    ASSUME LsInv, NEW p \in TmPath, NEW e \in AcquireTemplate(p)
    PROVE  TrustedTree(e)
  <1>1. TmSlot[p] \in TmSlots /\ lsClock \in Nat /\ LsValid \in Nat \ {0}
    BY ListingAssumption DEF TmSlots, LsInv, LsTypes
  <1>2. CASE TreeStands(p)
    <2>1. e = tmEntries[TmSlot[p]]
      BY <1>2 DEF AcquireTemplate, Template
    <2>2. e \in TmTreeType /\ TreeIsOf(e)
      BY <1>1, <2>1 DEF LsInv, LsTypes, TreesInv
    <2>3. lsClock - e.checked < LsValid
      BY <1>2, <2>1 DEF TreeStands, Template
    <2> QED
      BY <2>2, <2>3 DEF TrustedTree
  <1>3. CASE ~TreeStands(p) /\ ~ParsesWhole(tmDisk[p])
    <2>1. e = NoTemplate
      BY <1>3 DEF AcquireTemplate, Emptied
    <2> QED
      BY <1>1, <2>1, EmptyTree DEF TrustedTree, NoTemplate
  <1>4. CASE ~TreeStands(p) /\ ParsesWhole(tmDisk[p])
    <2> DEFINE v == tmFiles[tmDisk[p]]
    <2>1. PICK r \in TmRoot :
            e = [NoTemplate EXCEPT
                    !.path = p, !.file = tmDisk[p], !.checked = lsClock, !.root = r,
                    !.size = tmVersions[v].content.size, !.written = tmVersions[v].written,
                    !.version = v]
      BY <1>4 DEF AcquireTemplate, Emptied, TemplateIn
    <2>2. v \in 1..Len(tmVersions) /\ v \in Nat /\ tmDisk[p] \in Nat /\ tmVersions[v].until = -1
      BY DEF LsInv, LsTypes, NamedIsCurrent
    <2>3. tmVersions[v] \in TmVersionType
      BY <2>2 DEF LsInv, LsTypes
    <2>4. tmVersions[v].content.size \in Nat /\ tmVersions[v].written \in Nat
      BY <2>3, ListingAssumption DEF TmVersionType
    <2>5. r \in Nat
      BY ListingAssumption
    <2> HIDE DEF v
    <2>6. NoTemplate \in TmTreeType /\ NoTemplate.page = NoPage
      BY <1>1, EmptyTree DEF NoTemplate
    <2>7. e \in TmTreeType /\ e.checked = lsClock /\ e.version = v /\ e.page = NoPage
      BY <2>1, <2>2, <2>4, <2>5, <2>6, <1>1 DEF TmTreeType
    <2>8. CurrentAt(e.version, e.checked)
      BY <2>2, <2>7 DEF CurrentAt
    <2> QED
      BY <1>1, <2>7, <2>8 DEF TrustedTree, TreeIsOf
  <1> QED
    BY <1>2, <1>3, <1>4

\* What a tree that is trusted was parsed out of was current recently enough.
LEMMA TrustedIsRecent ==
    ASSUME LsTypes, NEW e, TrustedTree(e), e.version # NoVersion
    PROVE  /\ CurrentAt(e.version, lsClock - LsValid + 1)
           /\ tmVersions[e.version].until # -1 =>
                 lsClock - tmVersions[e.version].until < LsValid
  <1>1. lsClock \in Nat /\ LsValid \in Nat \ {0} /\ e.checked \in Nat
    BY ListingAssumption DEF LsTypes, TrustedTree, TmTreeType
  <1>2. e.version \in 1..Len(tmVersions) /\ lsClock - e.checked < LsValid
        /\ (tmVersions[e.version].until = -1 \/ e.checked <= tmVersions[e.version].until)
    BY DEF TrustedTree, TreeIsOf, CurrentAt
  <1>3. tmVersions[e.version] \in TmVersionType
    BY <1>2 DEF LsTypes
  <1>4. tmVersions[e.version].until \in Nat \cup {-1}
    BY <1>3 DEF TmVersionType
  <1> QED
    BY <1>1, <1>2, <1>4 DEF CurrentAt

LEMMA TreesAreHeld ==
    ASSUME LsInv, NEW p \in TmPath, NEW e \in TmTreeType, TreeIsOf(e), HeldIn(e, p),
           UNCHANGED <<tmVersions, lsClock>>
    PROVE  tmEntries' \in [TmSlots -> TmTreeType] /\ TreesInv'
  <1>1. TmSlot[p] \in TmSlots /\ tmEntries \in [TmSlots -> TmTreeType] /\ TreesInv
    BY DEF TmSlots, LsInv, LsTypes
  <1>2. tmEntries' = [tmEntries EXCEPT ![TmSlot[p]] = e]
    BY DEF HeldIn
  <1>3. tmEntries' \in [TmSlots -> TmTreeType]
    BY <1>1, <1>2
  <1>4. \A i \in TmSlots : tmEntries'[i] = IF i = TmSlot[p] THEN e ELSE tmEntries[i]
    BY <1>1, <1>2
  <1>5. TmSlots' = TmSlots
    BY DEF TmSlots
  <1>6. TreesInv'
    <2> SUFFICES ASSUME NEW i \in TmSlots PROVE TreeIsOf(tmEntries[i])'
      BY <1>5 DEF TreesInv
    <2>1. TreeIsOf(tmEntries'[i])
      BY <1>1, <1>4 DEF TreesInv
    <2> QED
      BY <2>1 DEF TreeIsOf, CurrentAt
  <1> QED
    BY <1>3, <1>6

\* The disk and the directories, which the server only reads.
LEMMA DiskIsRead ==
    ASSUME LsInv, UNCHANGED <<lsDisk, lsClock>>,
           tmEntries' \in [TmSlots -> TmTreeType], TreesInv',
           lsEntry' \in LsEntryType, lsBuilding' \in LsBuildingType
    PROVE  LsTypes' /\ NamedIsCurrent' /\ PagesOfTheTree'
  <1>1. UNCHANGED <<tmDisk, tmFiles, tmVersions, lsDirs, lsLeft, lsClock>>
    BY DEF lsDisk
  <1>2. LsTypes'
    BY <1>1 DEF LsInv, LsTypes, TmSlots
  <1> QED
    BY <1>1, <1>2 DEF LsInv, NamedIsCurrent, PagesOfTheTree, LsTypes, TreesInv, TreeIsOf

LEMMA ListingKept ==
    ASSUME LsInv, UNCHANGED <<lsDisk, lsClock, lsEntry>>
    PROVE  ListingInv' /\ lsEntry' \in LsEntryType
  BY DEF LsInv, LsTypes, ListingInv, CurrentAt, HeldAt, lsDisk

LEMMA BuildingKept ==
    ASSUME LsInv, UNCHANGED <<lsDisk, lsClock, lsBuilding>>
    PROVE  BuildingInv' /\ lsBuilding' \in LsBuildingType
  BY DEF LsInv, LsTypes, BuildingInv, lsDisk

LEMMA ErrorPageKeeps ==
    ASSUME LsInv, NEW code \in LsError, ErrorPage(code)
    PROVE  LsInv'
  <1>1. PICK e \in AcquireTemplate("error") :
          LET page == IF e.root = 0 \/ PageOf(e, code) THEN e.page
                      ELSE [key |-> code, version |-> e.version]
          IN  /\ HeldIn([e EXCEPT !.page = page], "error")
              /\ lsServed' = [Nothing EXCEPT !.asked = code,
                                 !.of = IF e.root = 0 THEN code ELSE page.key,
                                 !.version = page.version]
              /\ UNCHANGED <<lsDisk, lsEntry, lsBuilding, lsClock>>
    BY DEF ErrorPage
  <1>2. PICK page : page = IF e.root = 0 \/ PageOf(e, code) THEN e.page
                           ELSE [key |-> code, version |-> e.version]
    OBVIOUS
  <1>3. PICK held : held = [e EXCEPT !.page = page]
    OBVIOUS
  <1>4. "error" \in TmPath /\ LsTypes
    BY DEF TmPath, LsInv
  <1>5. TrustedTree(e) /\ e \in TmTreeType /\ TreeIsOf(e)
    BY <1>4, TreeIsTrusted DEF TrustedTree
  <1>6. /\ page \in [key : LsError \cup {""}, version : Nat]
        /\ page # NoPage => page.version = e.version
        /\ page.version # NoVersion => page.version = e.version
        /\ e.root # 0 => page.key = code
    <2>1. e.page \in [key : LsError \cup {""}, version : Nat] /\ e.version \in Nat
      BY <1>5 DEF TmTreeType
    <2>2. e.page.version # NoVersion => e.page # NoPage
      <3>1. NoPage.version = NoVersion
        BY DEF NoPage
      <3> QED
        BY <3>1
    <2>3. CASE e.root = 0 \/ PageOf(e, code)
      BY <2>1, <2>2, <2>3, <1>2, <1>5 DEF TreeIsOf, PageOf
    <2>4. CASE ~(e.root = 0 \/ PageOf(e, code))
      <3>1. page = [key |-> code, version |-> e.version]
        BY <2>4, <1>2
      <3> QED
        BY <3>1, <2>1
    <2> QED
      BY <2>3, <2>4
  <1>7. /\ held \in TmTreeType /\ held.page = page /\ held.version = e.version
        /\ held.checked = e.checked
    BY <1>3, <1>5, <1>6 DEF TmTreeType
  <1>8. TreeIsOf(held)
    BY <1>5, <1>6, <1>7 DEF TreeIsOf
  <1>9. UNCHANGED <<lsDisk, lsEntry, lsBuilding, lsClock, tmVersions>> /\ HeldIn(held, "error")
    BY <1>1, <1>2, <1>3 DEF lsDisk
  <1>10. tmEntries' \in [TmSlots -> TmTreeType] /\ TreesInv'
    BY <1>4, <1>7, <1>8, <1>9, TreesAreHeld
  <1>11. ListingInv' /\ lsEntry' \in LsEntryType /\ BuildingInv' /\ lsBuilding' \in LsBuildingType
    BY <1>9, ListingKept, BuildingKept
  <1>12. LsTypes' /\ NamedIsCurrent' /\ PagesOfTheTree'
    BY <1>9, <1>10, <1>11, DiskIsRead
  <1>13. lsServed'.asked = code /\ lsServed'.of = code /\ lsServed'.version = page.version
    BY <1>1, <1>2, <1>6 DEF Nothing
  <1>14. lsServed'.asked \notin LsUrl
    BY <1>13, ListingAssumption
  <1>15. TemplatesAreRecent'
    <2>1. CASE lsServed'.version = NoVersion
      BY <2>1 DEF TemplatesAreRecent
    <2>2. CASE lsServed'.version # NoVersion
      <3>1. lsServed'.version = e.version /\ e.version # NoVersion
        BY <2>2, <1>6, <1>13
      <3>2. tmVersions[e.version].until # -1 => lsClock - tmVersions[e.version].until < LsValid
        BY <3>1, <1>4, <1>5, TrustedIsRecent
      <3> QED
        BY <3>1, <3>2, <1>9, <1>14 DEF TemplatesAreRecent
    <2> QED
      BY <2>1, <2>2
  <1>16. PagesAreCurrent'
    BY <1>12, <1>13, <1>14, <1>15 DEF PagesAreCurrent, PageIsOfTheAsked, ListingsAreRecent
  <1> QED
    BY <1>10, <1>11, <1>12, <1>16 DEF LsInv

-----------------------------------------------------------------------------
(* The listings.                                                             *)

\* A listing that stands is the one asked for, of what was there recently enough.
LEMMA StandingIsRecent ==
    ASSUME LsInv, NEW u \in LsUrl, NEW e, ListingStands(u, e),
           UNCHANGED <<lsDisk, lsClock>>,
           lsServed' = [asked |-> u, of |-> lsEntry.url, version |-> lsEntry.version,
                        shows |-> lsEntry.shows, moved |-> lsEntry.moved]
    PROVE  PageIsOfTheAsked' /\ TemplatesAreRecent' /\ ListingsAreRecent'
  <1>1. UNCHANGED <<tmVersions, lsDirs, lsLeft, lsClock>>
    BY DEF lsDisk
  <1>2. /\ lsServed'.asked = u /\ lsServed'.of = lsEntry.url /\ lsServed'.version = lsEntry.version
        /\ lsServed'.shows = lsEntry.shows /\ lsServed'.moved = lsEntry.moved
    OBVIOUS
  <1>3. /\ lsEntry.url = u /\ lsEntry.names = lsDirs[u].names
        /\ lsClock - lsEntry.checked < LsValid
    BY DEF ListingStands
  <1>4. /\ lsClock \in Nat /\ LsValid \in Nat \ {0} /\ lsEntry.checked \in Nat
        /\ lsEntry.version \in Nat
    BY ListingAssumption DEF LsInv, LsTypes, LsEntryType
  <1>5. TemplatesAreRecent'
    <2>1. CASE lsEntry.version = NoVersion \/ tmVersions[lsEntry.version].until = -1
      BY <2>1, <1>1, <1>2 DEF TemplatesAreRecent
    <2>2. CASE lsEntry.version # NoVersion /\ tmVersions[lsEntry.version].until # -1
      <3>1. /\ lsEntry.version \in 1..Len(tmVersions)
            /\ lsEntry.checked - LsValid + 1 <= tmVersions[lsEntry.version].until
        BY <2>2 DEF LsInv, ListingInv, CurrentAt
      <3>2. tmVersions[lsEntry.version] \in TmVersionType
        BY <3>1 DEF LsInv, LsTypes
      <3>3. tmVersions[lsEntry.version].until \in Nat
        BY <3>2, <2>2 DEF TmVersionType
      <3>4. lsClock - tmVersions[lsEntry.version].until < 2 * LsValid - 1
        BY <3>1, <3>3, <1>3, <1>4
      <3> QED
        BY <3>4, <1>1, <1>2 DEF TemplatesAreRecent
    <2> QED
      BY <2>1, <2>2
  <1>6. ListingsAreRecent'
    <2>1. lsDirs[u] # lsEntry.shows =>
            \E k \in DOMAIN lsLeft :
                /\ lsLeft[k].url = u /\ lsLeft[k].held = lsEntry.shows
                /\ lsClock - lsLeft[k].until < LsValid
      <3> SUFFICES ASSUME lsDirs[u] # lsEntry.shows
                   PROVE  \E k \in DOMAIN lsLeft :
                             /\ lsLeft[k].url = u /\ lsLeft[k].held = lsEntry.shows
                             /\ lsClock - lsLeft[k].until < LsValid
        OBVIOUS
      <3>1. PICK k \in 1..Len(lsLeft) : /\ lsLeft[k].url = u /\ lsLeft[k].held = lsEntry.shows
                                        /\ lsEntry.checked <= lsLeft[k].until
        BY <1>3 DEF LsInv, ListingInv, HeldAt
      <3>2. lsLeft[k] \in LsLeftType /\ k \in DOMAIN lsLeft
        BY <3>1 DEF LsInv, LsTypes
      <3>3. lsLeft[k].until \in Nat
        BY <3>2 DEF LsLeftType
      <3>4. lsClock - lsLeft[k].until < LsValid
        BY <3>1, <3>3, <1>3, <1>4
      <3> QED
        BY <3>1, <3>2, <3>4
    <2>2. lsEntry.moved \/ lsDirs[u].names = lsEntry.shows.names
      BY <1>3 DEF LsInv, ListingInv
    <2> QED
      BY <2>1, <2>2, <1>1, <1>2 DEF ListingsAreRecent
  <1> QED
    BY <1>2, <1>3, <1>5, <1>6 DEF PageIsOfTheAsked

LEMMA RenderListingKeeps ==
    ASSUME LsInv, NEW u \in LsUrl, RenderListing(u)
    PROVE  LsInv'
  <1>1. PICK e \in AcquireTemplate("listing") :
          /\ HeldIn(e, "listing")
          /\ IF e.root # 0 /\ ListingStands(u, e)
             THEN /\ lsServed' = [asked |-> u, of |-> lsEntry.url, version |-> lsEntry.version,
                                  shows |-> lsEntry.shows, moved |-> lsEntry.moved]
                  /\ UNCHANGED lsBuilding
             ELSE /\ lsServed' = Nothing
                  /\ lsBuilding' = [NotBuilding EXCEPT !.url = u, !.names = lsDirs[u].names,
                                                       !.now = lsClock]
    BY DEF RenderListing
  <1>2. UNCHANGED <<lsDisk, lsEntry, lsClock, tmVersions, lsDirs>>
    BY DEF RenderListing, lsDisk
  <1>3. "listing" \in TmPath /\ LsTypes
    BY DEF TmPath, LsInv
  <1>4. e \in TmTreeType /\ TreeIsOf(e)
    BY <1>3, TreeIsTrusted DEF TrustedTree
  <1>5. tmEntries' \in [TmSlots -> TmTreeType] /\ TreesInv'
    BY <1>1, <1>2, <1>3, <1>4, TreesAreHeld
  <1>6. ListingInv' /\ lsEntry' \in LsEntryType
    BY <1>2, ListingKept
  <1>7. CASE e.root # 0 /\ ListingStands(u, e)
    <2>1. BuildingInv' /\ lsBuilding' \in LsBuildingType
      BY <1>1, <1>2, <1>7, BuildingKept
    <2>2. LsTypes' /\ NamedIsCurrent' /\ PagesOfTheTree'
      BY <1>2, <1>5, <1>6, <2>1, DiskIsRead
    <2>3. PageIsOfTheAsked' /\ TemplatesAreRecent' /\ ListingsAreRecent'
      BY <1>1, <1>2, <1>7, StandingIsRecent
    <2> QED
      BY <1>5, <1>6, <2>1, <2>2, <2>3 DEF LsInv, PagesAreCurrent
  <1>8. CASE ~(e.root # 0 /\ ListingStands(u, e))
    <2>1. /\ lsServed' = Nothing
          /\ lsBuilding' = [NotBuilding EXCEPT !.url = u, !.names = lsDirs[u].names,
                                               !.now = lsClock]
      BY <1>1, <1>8
    <2>2. lsDirs[u] \in LsHeldType /\ lsClock \in Nat
      BY <1>3 DEF LsTypes
    <2>3. lsDirs[u].names \in Nat
      BY <2>2 DEF LsHeldType
    <2>4. /\ lsBuilding' \in LsBuildingType /\ lsBuilding'.url = u
          /\ lsBuilding'.names = lsDirs[u].names /\ lsBuilding'.now = lsClock
      BY <2>1, <2>2, <2>3 DEF NotBuilding, LsBuildingType
    <2>5. BuildingInv'
      BY <1>2, <2>2, <2>4 DEF BuildingInv
    <2>6. LsTypes' /\ NamedIsCurrent'
      BY <1>2, <1>5, <1>6, <2>4, DiskIsRead
    <2>7. PagesAreCurrent'
      BY <1>5, <2>1, <2>6, NothingShown
    <2> QED
      BY <1>5, <1>6, <2>5, <2>6, <2>7 DEF LsInv
  <1> QED
    BY <1>7, <1>8

LEMMA BuildListingKeeps ==
    ASSUME LsInv, BuildListing
    PROVE  LsInv'
  <1> DEFINE u == lsBuilding.url
  <1>1. PICK e \in AcquireTemplate("listing") :
          LET page == [NoListing EXCEPT
                  !.url = u, !.names = lsBuilding.names, !.root = e.root, !.size = e.size,
                  !.written = e.written, !.checked = lsBuilding.now, !.shows = lsDirs[u],
                  !.version = e.version, !.moved = lsBuilding.moved]
          IN  /\ HeldIn(e, "listing")
              /\ lsEntry' = IF e.root = 0 THEN lsEntry ELSE page
              /\ lsServed' = IF e.root = 0 THEN Nothing
                             ELSE [asked |-> u, of |-> u, version |-> e.version,
                                   shows |-> lsDirs[u], moved |-> lsBuilding.moved]
    BY DEF BuildListing
  <1>2. /\ UNCHANGED <<lsDisk, lsClock, tmVersions, lsDirs, lsLeft>>
        /\ lsBuilding # NotBuilding /\ lsBuilding' = NotBuilding
    BY DEF BuildListing, lsDisk
  <1>3. "listing" \in TmPath /\ LsTypes
    BY DEF TmPath, LsInv
  <1>4. TrustedTree(e) /\ e \in TmTreeType /\ TreeIsOf(e)
    BY <1>3, TreeIsTrusted DEF TrustedTree
  <1>5. tmEntries' \in [TmSlots -> TmTreeType] /\ TreesInv'
    BY <1>1, <1>2, <1>3, <1>4, TreesAreHeld
  <1>6. BuildingInv' /\ lsBuilding' \in LsBuildingType
    BY <1>2, NoneIsBuilt DEF BuildingInv, NotBuilding
  <1>7. CASE e.root = 0
    <2>1. lsEntry' = lsEntry /\ lsServed' = Nothing
      BY <1>1, <1>7
    <2>2. ListingInv' /\ lsEntry' \in LsEntryType
      BY <1>2, <2>1, ListingKept
    <2>3. LsTypes' /\ NamedIsCurrent'
      BY <1>2, <1>5, <1>6, <2>2, DiskIsRead
    <2>4. PagesAreCurrent'
      BY <1>5, <2>1, <2>3, NothingShown
    <2> QED
      BY <1>5, <1>6, <2>2, <2>3, <2>4 DEF LsInv
  <1>8. CASE e.root # 0
    <2>1. /\ lsEntry' = [NoListing EXCEPT
                  !.url = u, !.names = lsBuilding.names, !.root = e.root, !.size = e.size,
                  !.written = e.written, !.checked = lsBuilding.now, !.shows = lsDirs[u],
                  !.version = e.version, !.moved = lsBuilding.moved]
          /\ lsServed' = [asked |-> u, of |-> u, version |-> e.version,
                          shows |-> lsDirs[u], moved |-> lsBuilding.moved]
      BY <1>1, <1>8
    <2>2. /\ u \in LsUrl /\ lsBuilding.now <= lsClock
          /\ lsBuilding.moved \/ lsBuilding.names = lsDirs[u].names
      BY <1>2 DEF LsInv, BuildingInv
    <2>3. /\ lsBuilding.names \in Nat /\ lsBuilding.now \in Nat /\ lsBuilding.moved \in BOOLEAN
          /\ lsDirs[u] \in LsHeldType /\ lsClock \in Nat /\ LsValid \in Nat \ {0}
      BY <1>3, <2>2, ListingAssumption DEF LsTypes, LsBuildingType
    <2>4. e.root \in Nat /\ e.size \in Nat /\ e.written \in Nat /\ e.version \in Nat
      BY <1>4 DEF TmTreeType
    <2> HIDE DEF u
    <2>5. /\ lsEntry' \in LsEntryType /\ lsEntry'.url = u /\ lsEntry'.names = lsBuilding.names
          /\ lsEntry'.checked = lsBuilding.now /\ lsEntry'.shows = lsDirs[u]
          /\ lsEntry'.version = e.version /\ lsEntry'.moved = lsBuilding.moved
      BY <2>1, <2>2, <2>3, <2>4 DEF NoListing, LsEntryType
    <2>6. ListingInv'
      <3>1. CurrentAt(e.version, lsBuilding.now - LsValid + 1)
        <4>1. CASE e.version = NoVersion
          BY <4>1 DEF CurrentAt
        <4>2. CASE e.version # NoVersion
          <5>1. CurrentAt(e.version, lsClock - LsValid + 1)
            BY <4>2, <1>3, <1>4, TrustedIsRecent
          <5>2. /\ e.version \in 1..Len(tmVersions)
                /\ \/ tmVersions[e.version].until = -1
                   \/ lsClock - LsValid + 1 <= tmVersions[e.version].until
            BY <4>2, <5>1 DEF CurrentAt
          <5>3. tmVersions[e.version] \in TmVersionType
            BY <5>2, <1>3 DEF LsTypes
          <5>4. tmVersions[e.version].until \in Nat \cup {-1}
            BY <5>3 DEF TmVersionType
          <5> QED
            BY <5>2, <5>4, <2>2, <2>3 DEF CurrentAt
        <4> QED
          BY <4>1, <4>2
      <3>2. CurrentAt(lsEntry.version, lsEntry.checked - LsValid + 1)'
        BY <3>1, <2>5, <1>2 DEF CurrentAt
      <3> QED
        BY <3>2, <2>2, <2>5, <1>2 DEF ListingInv, HeldAt
    <2>7. LsTypes' /\ NamedIsCurrent' /\ PagesOfTheTree'
      BY <1>2, <1>5, <1>6, <2>5, DiskIsRead
    <2>8. /\ lsServed'.asked = u /\ lsServed'.of = u /\ lsServed'.version = e.version
          /\ lsServed'.shows = lsDirs[u] /\ lsServed'.moved = lsBuilding.moved
      BY <2>1
    <2>9. TemplatesAreRecent'
      <3>1. CASE e.version = NoVersion \/ tmVersions[e.version].until = -1
        BY <3>1, <2>8, <1>2 DEF TemplatesAreRecent
      <3>2. CASE e.version # NoVersion /\ tmVersions[e.version].until # -1
        <4>1. lsClock - tmVersions[e.version].until < LsValid
          BY <3>2, <1>3, <1>4, TrustedIsRecent
        <4>2. tmVersions[e.version] \in TmVersionType
          BY <3>2, <1>3, <1>4 DEF LsTypes, TreeIsOf, CurrentAt
        <4>3. tmVersions[e.version].until \in Nat
          BY <3>2, <4>2 DEF TmVersionType
        <4>4. lsClock - tmVersions[e.version].until < 2 * LsValid - 1
          BY <4>1, <4>3, <2>3
        <4> QED
          BY <4>4, <2>8, <1>2, <2>2 DEF TemplatesAreRecent
      <3> QED
        BY <3>1, <3>2
    <2>10. ListingsAreRecent' /\ PageIsOfTheAsked'
      BY <2>2, <2>8, <1>2, <2>5, <2>6 DEF ListingsAreRecent, PageIsOfTheAsked, ListingInv
    <2> QED
      BY <1>5, <1>6, <2>5, <2>6, <2>7, <2>9, <2>10 DEF LsInv, PagesAreCurrent
  <1> QED
    BY <1>7, <1>8

LEMMA ClearCachesKeeps ==
    ASSUME LsInv, ClearCaches
    PROVE  LsInv'
  <1>1. /\ UNCHANGED <<lsDisk, lsBuilding, lsClock>> /\ lsEntry' = NoListing
        /\ tmEntries' = [i \in DOMAIN tmEntries |-> NoTemplate] /\ lsServed' = Nothing
    BY DEF ClearCaches, Emptied
  <1>2. lsClock \in Nat /\ LsValid \in Nat \ {0} /\ DOMAIN tmEntries = TmSlots
    BY ListingAssumption DEF LsInv, LsTypes
  <1>3. NoTemplate \in TmTreeType /\ NoTemplate.version = NoVersion /\ NoTemplate.checked = 0
        /\ NoTemplate.page = NoPage
    BY <1>2, EmptyTree DEF NoTemplate
  <1>4. tmEntries' \in [TmSlots -> TmTreeType] /\ \A i \in TmSlots : tmEntries'[i] = NoTemplate
    BY <1>1, <1>2, <1>3
  <1>5. TreesInv'
    BY <1>1, <1>2, <1>3, <1>4 DEF TreesInv, TreeIsOf, CurrentAt, TmSlots
  <1>6. ListingInv' /\ lsEntry' \in LsEntryType
    BY <1>1, <1>2, EmptyListing DEF ListingInv, CurrentAt
  <1>7. BuildingInv' /\ lsBuilding' \in LsBuildingType
    BY <1>1, BuildingKept
  <1>8. LsTypes' /\ NamedIsCurrent'
    BY <1>1, <1>4, <1>5, <1>6, <1>7, DiskIsRead
  <1>9. PagesAreCurrent'
    BY <1>1, <1>5, <1>8, NothingShown
  <1> QED
    BY <1>5, <1>6, <1>7, <1>8, <1>9 DEF LsInv

LEMMA LsStutters ==
    ASSUME LsInv, UNCHANGED lsVars
    PROVE  LsInv'
  <1>1. UNCHANGED <<lsDisk, lsClock, lsEntry, lsBuilding, tmEntries, lsServed>>
    BY DEF lsVars
  <1>2. UNCHANGED <<tmVersions, lsDirs, lsLeft>>
    BY <1>1 DEF lsDisk
  <1>3. tmEntries' \in [TmSlots -> TmTreeType] /\ TreesInv'
    BY <1>1, <1>2 DEF LsInv, LsTypes, TreesInv, TreeIsOf, CurrentAt, TmSlots
  <1>4. /\ ListingInv' /\ lsEntry' \in LsEntryType
        /\ BuildingInv' /\ lsBuilding' \in LsBuildingType
    BY <1>1, ListingKept, BuildingKept
  <1>5. LsTypes' /\ NamedIsCurrent' /\ PagesOfTheTree'
    BY <1>1, <1>3, <1>4, DiskIsRead
  <1>6. PagesAreCurrent'
    BY <1>1, <1>2, <1>5 DEF LsInv, PagesAreCurrent, PageIsOfTheAsked, TemplatesAreRecent,
                            ListingsAreRecent
  <1> QED
    BY <1>3, <1>4, <1>5, <1>6 DEF LsInv

LEMMA LsKeeps == LsInv /\ [LsNext]_lsVars => LsInv'
  <1> SUFFICES ASSUME LsInv, [LsNext]_lsVars PROVE LsInv'
    OBVIOUS
  <1>1. ASSUME NEW p \in TmPath, NEW c \in TmContent, ReplaceTemplate(p, c) PROVE LsInv'
    BY <1>1, ReplaceTemplateKeeps
  <1>2. ASSUME NEW p \in TmPath, NEW c \in TmContent, WriteTemplate(p, c) PROVE LsInv'
    BY <1>2, WriteTemplateKeeps
  <1>3. ASSUME NEW u \in LsUrl, NEW c \in LsContent, ChangeDirectory(u, c) PROVE LsInv'
    BY <1>3, ChangeDirectoryKeeps
  <1>4. CASE LsTick
    BY <1>4, LsTickKeeps
  <1>5. ASSUME NEW code \in LsError, ErrorPage(code) PROVE LsInv'
    BY <1>5, ErrorPageKeeps
  <1>6. ASSUME NEW u \in LsUrl, RenderListing(u) PROVE LsInv'
    BY <1>6, RenderListingKeeps
  <1>7. CASE BuildListing
    BY <1>7, BuildListingKeeps
  <1>8. CASE ClearCaches
    BY <1>8, ClearCachesKeeps
  <1>9. CASE UNCHANGED lsVars
    BY <1>9, LsStutters
  <1> QED
    BY <1>1, <1>2, <1>3, <1>4, <1>5, <1>6, <1>7, <1>8, <1>9 DEF LsNext

\* A page that is handed over, of a listing or of an error, is of the directory or the
\* error that was asked for, was rendered out of the tree that holds it, and shows what
\* the template and the directory held within the time that the caches trust them for
\* (template/handler.c, and the listing cache of handler_file.c), however both are changed.
THEOREM PagesAreAlwaysCurrent == LsSpec => []PagesAreCurrent
  <1>1. LsSpec => []LsInv
    BY LsStarts, LsKeeps, PTL DEF LsSpec
  <1>2. LsInv => PagesAreCurrent
    BY DEF LsInv
  <1> QED
    BY <1>1, <1>2, PTL
==============================================================================
