----------------------------- MODULE MemoryPool -----------------------------
(***************************************************************************)
(* The pool that the nodes of the lists are taken from when the program is *)
(* built with it (memory_pool.h): chunks of items of one size, the lowest  *)
(* free one of which is handed over, and a map from the address of every   *)
(* item that is in use to the item.                                        *)
(***************************************************************************)
EXTENDS Integers, Sequences, SequencesExt, FiniteSets, FiniteSetsExt

CONSTANTS
    PoolItems,     \* CHUNK_SIZE
    PoolMargin,    \* CHUNK_MARGIN(CHUNK_SIZE), the entries of the map for a chunk
    PoolChunks,    \* the chunks that the pool is first sized for
    PoolAddress,   \* bound: where the allocator may place a chunk
    PoolRefills,   \* whether a chunk may be filled up by other than its last item
    MostInUse      \* bound: the items that are in use

ASSUME PoolAssumption ==
    /\ PoolItems \in Nat \ {0} /\ PoolMargin \in Nat /\ PoolMargin >= PoolItems
    /\ PoolChunks \in Nat \ {0} /\ PoolAddress \subseteq Nat

VARIABLES
    poolState,   \* struct memory_pool_t without its arrays
    poolChunks,  \* chunks, by the address of each of them
    poolChunk,   \* struct memory_chunk_t of every address
    poolMap,     \* buffer_item_map: an item, <<address of its chunk, its index>>
    poolInUse    \* how many times each item has been handed over and not released

poolVars == <<poolState, poolChunks, poolChunk, poolMap, poolInUse>>

NoItem == <<>>
PoolItem == PoolAddress \X (0..PoolItems - 1)

\* struct memory_pool_t, of what counts its chunks
NewPool == [free |-> 0, allocated |-> 0, most |-> PoolChunks]

\* create_chunk
NewChunk(index) == [index |-> index, used |-> {}, full |-> FALSE, free |-> 0, taken |-> 0]

EmptyMap(most) == [k \in 0..most * PoolMargin - 1 |-> NoItem]

\* alloc_memory_pool, which the first palloc calls.
PoolInit ==
    /\ poolState = NewPool
    /\ poolChunks = <<>>
    /\ poolChunk = [a \in PoolAddress |-> NewChunk(0)]
    /\ poolMap = EmptyMap(PoolChunks)
    /\ poolInUse = [i \in PoolItem |-> 0]

-----------------------------------------------------------------------------
(* The map is open addressed: an item lies at its hash or at the first entry *)
(* that was free after it.                                                   *)
HashOf(item, size) == (item[1] * PoolItems + item[2]) % size

\* The entries in the order that they are tried.
Probed(item, map) ==
    LET size == Cardinality(DOMAIN map) IN
    [k \in 1..size |-> (HashOf(item, size) + k - 1) % size]

FirstProbed(item, map, wanted) ==
    Probed(item, map)[Min({k \in DOMAIN Probed(item, map) :
                              map[Probed(item, map)[k]] = wanted})]

Associate(map, item) == [map EXCEPT ![FirstProbed(item, map, NoItem)] = item]

\* pfree goes past the entries that are free.
Dissociate(map, item) == [map EXCEPT ![FirstProbed(item, map, item)] = NoItem]

\* Every item is set again in a map of the new size, in the order of the former.
Rehashed(map, most) ==
    FoldLeft(Associate, EmptyMap(most),
             SelectSeq([k \in 1..Cardinality(DOMAIN map) |-> map[k - 1]],
                       LAMBDA item : item # NoItem))

-----------------------------------------------------------------------------
(* resize_memory_pool.                                                       *)
\* A smaller pool keeps as many of its chunks as fit, in their order.
ShrunkInOrder(chunks, chunk, most) == SubSeq(chunks, 1, Min({Len(chunks), most}))

\* A smaller pool keeps the chunks that are in use and then what fits of others.
Shrunk(chunks, chunk, most) ==
    LET Used(a) == chunk[a].taken # 0
        Empty(a) == chunk[a].taken = 0
        moved == SelectSeq(chunks, Used) \o SelectSeq(chunks, Empty)
    IN  SubSeq(moved, 1, Min({Len(moved), most}))

\* The first chunk of those in use that is not full, or the one after them.
FreeAfterShrink(chunks, chunk) ==
    LET used == SelectSeq(chunks, LAMBDA a : chunk[a].taken # 0)
    IN  Min({k \in 0..Len(used) : k = Len(used) \/ ~chunk[used[k + 1]].full})

Placed(chunks, chunk) ==
    [a \in PoolAddress |->
        IF \E k \in DOMAIN chunks : chunks[k] = a
        THEN [chunk[a] EXCEPT !.index = (CHOOSE k \in DOMAIN chunks : chunks[k] = a) - 1]
        ELSE chunk[a]]

\* Chunks that are added to a pool that has none left: as many as it has, the
\* allocator placing each where there is none.
Grown(addresses) ==
    IF poolState.free # Len(poolChunks) THEN addresses = <<>>
    ELSE /\ Len(addresses) = Max({Len(poolChunks), 1})
         /\ \A k \in DOMAIN addresses :
               addresses[k] = Min(PoolAddress \ (Range(poolChunks)
                                     \cup {addresses[j] : j \in 1..k - 1}))

\* The lowest item of a chunk that is not in use, from one on, or that one.
NextFree(c, item) ==
    LET above == {i \in item + 1..PoolItems - 1 : i \notin c.used}
    IN  IF above = {} THEN item ELSE Min(above)

\* palloc
Palloc ==
    \E n \in 0..Cardinality(PoolAddress \ Range(poolChunks)) :
    \E addresses \in [1..n -> PoolAddress \ Range(poolChunks)] :
    LET chunks == poolChunks \o addresses
        most == Max({poolState.most, Len(chunks)})
        map == IF most = poolState.most THEN poolMap ELSE Rehashed(poolMap, most)
        a == chunks[poolState.free + 1]
        c == IF addresses = <<>> THEN poolChunk[a] ELSE NewChunk(poolState.free)
        free == NextFree(c, c.free)
        full == free = c.free
        later == {k \in poolState.free + 1..Len(chunks) - 1 :
                     k >= Len(poolChunks) \/ ~poolChunk[chunks[k + 1]].full}
    IN  /\ Cardinality({i \in PoolItem : poolInUse[i] > 0}) < MostInUse
        /\ Grown(addresses)
        /\ full /\ ~PoolRefills => c.free = PoolItems - 1
        /\ poolChunks' = chunks
        /\ poolChunk' = Placed(chunks, [b \in PoolAddress |->
              CASE b = a -> [c EXCEPT !.used = @ \cup {c.free}, !.free = free, !.full = full,
                                      !.taken = @ + 1]
                [] b # a /\ b \in Range(addresses) -> NewChunk(0)
                [] OTHER -> poolChunk[b]])
        /\ poolState' = [free |-> IF ~full THEN poolState.free
                                  ELSE IF later = {} THEN Len(chunks) ELSE Min(later),
                         allocated |-> poolState.allocated + (IF c.taken = 0 THEN 1 ELSE 0),
                         most |-> most]
        /\ poolMap' = Associate(map, <<a, c.free>>)
        /\ poolInUse' = [poolInUse EXCEPT ![<<a, c.free>>] = @ + 1]

\* pfree
Pfree(item) ==
    LET a == item[1]
        c == [poolChunk[a] EXCEPT !.used = @ \ {item[2]}, !.full = FALSE, !.taken = @ - 1,
                                  !.free = Min({@, item[2]})]
        chunk == [poolChunk EXCEPT ![a] = c]
        allocated == poolState.allocated - (IF c.taken = 0 THEN 1 ELSE 0)
        shrinks == c.taken = 0 /\ allocated = poolState.most \div 3
                     /\ poolState.most \div 2 # poolState.most
        most == IF shrinks THEN poolState.most \div 2 ELSE poolState.most
        chunks == IF shrinks THEN Shrunk(poolChunks, chunk, most) ELSE poolChunks
        map == Dissociate(poolMap, item)
    IN  /\ poolInUse[item] > 0
        /\ poolInUse' = [poolInUse EXCEPT ![item] = @ - 1]
        /\ poolChunks' = chunks
        /\ poolChunk' = Placed(chunks, chunk)
        /\ poolState' = [free |-> IF shrinks THEN FreeAfterShrink(poolChunks, chunk)
                                  ELSE Min({poolState.free, c.index}),
                         allocated |-> allocated, most |-> most]
        /\ poolMap' = IF shrinks THEN Rehashed(map, most) ELSE map

PoolNext == Palloc \/ \E item \in PoolItem : Pfree(item)

PoolSpec == PoolInit /\ [][PoolNext]_poolVars

-----------------------------------------------------------------------------
(***************************************************************************)
(* Properties                                                              *)
(***************************************************************************)
\* An item that is in use is never handed over again, as no allocator may do.
HandedOverOnce == \A i \in PoolItem : poolInUse[i] <= 1

\* What is in use lies in a chunk that the pool holds, and is what the map
\* leads to: no chunk is given up under it, and every release finds its item.
InUseIsHeld ==
    /\ \A i \in PoolItem : poolInUse[i] > 0 =>
          /\ \E k \in DOMAIN poolChunks : poolChunks[k] = i[1]
          /\ \E k \in DOMAIN poolMap : poolMap[k] = i
    /\ Cardinality({k \in DOMAIN poolMap : poolMap[k] # NoItem})
          = Cardinality({i \in PoolItem : poolInUse[i] > 0})

\* The pool gives the first chunk that has room and that its first room, so
\* that it only grows when nothing is left.
GivesTheFirst ==
    LET room == {k \in DOMAIN poolChunks : Cardinality(poolChunk[poolChunks[k]].used) < PoolItems}
    IN  /\ poolState.free = (IF room = {} THEN Len(poolChunks) ELSE Min(room) - 1)
        /\ \A k \in room :
              poolChunk[poolChunks[k]].free
                = Min((0..PoolItems - 1) \ poolChunk[poolChunks[k]].used)
        /\ poolState.allocated = Cardinality({k \in DOMAIN poolChunks :
                                                 poolChunk[poolChunks[k]].used # {}})
        /\ Len(poolChunks) <= poolState.most

\* The pool is an allocator, and keeps its chunks together.
PoolIsSound ==
    HandedOverOnce /\ InUseIsHeld /\ GivesTheFirst
=============================================================================
