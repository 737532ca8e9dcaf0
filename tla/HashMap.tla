------------------------------- MODULE HashMap -------------------------------
(***************************************************************************)
(* The maps of the program: the open addressed one                         *)
(* (structures/hash_map.c), and the one that also keeps the order that its *)
(* names were set in (structures/sort_map.c).                              *)
(***************************************************************************)
EXTENDS Integers, Sequences, SequencesExt, FiniteSets, FiniteSetsExt

CONSTANTS
    MapName,      \* bound: the names that are set
    MapHash(_),   \* _calculate_string_hash_map, no two names having the same
    MapInitial,   \* initial_size
    MapFactor,    \* DEFAULT_RESIZE_FACTOR
    MostSets      \* bound: values that are set

ASSUME MapAssumption ==
    /\ \A name \in MapName : MapHash(name) \in Nat
    /\ \A name, other \in MapName : MapHash(name) = MapHash(other) => name = other
    /\ MapInitial \in Nat \ {0} /\ MapFactor \in Nat /\ MapFactor > 1

VARIABLES
    mapSorted,  \* whether the map is a sort_map_t
    mapTable,   \* elements_buffer: <<a name, its value>> of every index, or NotUsed
    mapSize,    \* size
    mapOrder,   \* key_list and key_string_list
    mapCursor,  \* the parameters of an iterator, and what it has given
    mapSet      \* the names and the values that were set, in their order

mapVars == <<mapSorted, mapTable, mapSize, mapOrder, mapCursor, mapSet>>

NotUsed == <<>>
NoNames == [index |-> 0, given |-> <<>>, ended |-> FALSE]

\* create_hash_map, with the default of a size of zero.
MapInit ==
    /\ mapSorted \in BOOLEAN
    /\ mapTable = [i \in 0..MapInitial - 1 |-> NotUsed]
    /\ mapSize = 0 /\ mapOrder = <<>> /\ mapCursor = NoNames /\ mapSet = <<>>

\* The size that a buffer is exchanged at, by its load factor.
MapOverflows(size, buffer) == size >= (buffer * 3) \div 4

\* The indices that are tried for a name.
Tried(name, table) ==
    LET buffer == Cardinality(DOMAIN table)
    IN  [k \in 1..buffer |-> (MapHash(name) + k - 1) % buffer]

\* The first of some indices that is tried.
FirstTried(name, table, indices) ==
    LET tried == Tried(name, table)
    IN  tried[Min({k \in DOMAIN tried : tried[k] \in indices})]

\* _set_value_hash_map, after what it does for room: an element that has the key
\* is written over whatever its string is.
Put(table, element) ==
    LET Free(e) == e = NotUsed \/ MapHash(e[1]) = MapHash(element[1])
        free == {i \in DOMAIN table : Free(table[i])}
    IN  [table EXCEPT ![FirstTried(element[1], table, free)] = element]

\* Every element stays at its index.
ResizedInPlace(table) ==
    [i \in 0..Cardinality(DOMAIN table) * MapFactor - 1 |->
        IF i \in DOMAIN table THEN table[i] ELSE NotUsed]

\* _resize_hash_map: the elements are set again, by their indices.
Resized(table) ==
    LET buffer == Cardinality(DOMAIN table)
        moved[n \in 0..buffer] ==
          IF n = 0 THEN [i \in 0..buffer * MapFactor - 1 |-> NotUsed]
          ELSE IF table[n - 1] = NotUsed THEN moved[n - 1]
          ELSE Put(moved[n - 1], table[n - 1])
    IN  moved[buffer]

\* set_value_sort_map: a name is kept each time that it is set.
SetOrder(name) == mapOrder' = IF mapSorted THEN Append(mapOrder, name) ELSE mapOrder

\* set_value_string_hash_map, which counts an element that it writes over once
\* more, and set_value_string_sort_map, of a name that is set only once.
SetValue(name) ==
    LET full == MapOverflows(mapSize, Cardinality(DOMAIN mapTable))
        table == IF full THEN Resized(mapTable) ELSE mapTable
    IN  /\ Len(mapSet) < MostSets
        /\ mapSorted => name \notin Range(mapOrder)
        /\ mapTable' = Put(table, <<name, Len(mapSet) + 1>>)
        /\ mapSize' = (IF full THEN Cardinality({i \in DOMAIN table : table[i] # NotUsed})
                       ELSE mapSize) + 1
        /\ SetOrder(name)
        /\ mapSet' = Append(mapSet, name)
        /\ mapCursor' = NoNames
        /\ UNCHANGED mapSorted

\* get_hash_map: the element of the name, or the first that is not used.
Got(name) ==
    LET Ends(e) == e = NotUsed \/ e[1] = name
    IN  mapTable[FirstTried(name, mapTable, {i \in DOMAIN mapTable : Ends(mapTable[i])})]

\* What get_next_iterator_hash_map finds from an index on, and where it goes on.
UsedFrom(index) ==
    LET used == {i \in DOMAIN mapTable : i >= index /\ mapTable[i] # NotUsed}
    IN  IF used = {} THEN NotUsed ELSE <<mapTable[Min(used)][1], Min(used) + 1>>

\* get_next_iterator_sort_map, by the order that the names were set in.
OrderedFrom(index) ==
    IF index >= Len(mapOrder) THEN NotUsed
    ELSE <<Got(mapOrder[index + 1])[1], index + 1>>

\* The next of an iterator, until the one that is NULL.
GetNextElement ==
    LET next == IF mapSorted THEN OrderedFrom(mapCursor.index) ELSE UsedFrom(mapCursor.index)
    IN  /\ ~mapCursor.ended
        /\ mapCursor' = IF next = NotUsed THEN [mapCursor EXCEPT !.ended = TRUE]
                        ELSE [mapCursor EXCEPT !.index = next[2],
                                               !.given = Append(@, next[1])]
        /\ UNCHANGED <<mapSorted, mapTable, mapSize, mapOrder, mapSet>>

MapNext == (\E name \in MapName : SetValue(name)) \/ GetNextElement

MapSpec == MapInit /\ [][MapNext]_mapVars

-----------------------------------------------------------------------------
(***************************************************************************)
(* Properties                                                              *)
(***************************************************************************)
\* Looking a name up ends, as some element is never used.
LookUpEnds == \E i \in DOMAIN mapTable : mapTable[i] = NotUsed

\* A name is found with the value that it was last set to, and no other is.
FindsWhatWasSet ==
    \A name \in MapName :
        LET sets == {k \in DOMAIN mapSet : mapSet[k] = name}
        IN  Got(name) = (IF sets = {} THEN NotUsed ELSE <<name, Max(sets)>>)

\* An iterator has given each name once when it ends, and gives those of a map
\* that keeps their order in that order.
GoesOverEachOnce ==
    /\ IsInjective(mapCursor.given)
    /\ mapCursor.ended => Range(mapCursor.given) = Range(mapSet)
    /\ mapSorted => IsPrefix(mapCursor.given, mapSet)

\* The map is the function that was set, over every collision and every resizing.
MapIsSound ==
    LookUpEnds /\ FindsWhatWasSet /\ GoesOverEachOnce
=============================================================================
