----------------------------- MODULE LinkedList -----------------------------
(***************************************************************************)
(* The lists of the program (structures/linked_list.c), an iterator over   *)
(* one of them, and the queue that is kept sorted by inserting into one    *)
(* (structures/priority_queue.c).                                          *)
(***************************************************************************)
EXTENDS Integers, Sequences, SequencesExt, FiniteSets, FiniteSetsExt

CONSTANTS
    ListNode,     \* bound: where a node may be placed, none of them 0
    ListRank,     \* the values that a list holds, by what they compare as
    MostArrivals  \* bound: values that are inserted

NoNode == 0

VARIABLES
    listSorted,   \* whether the list is the one of a priority_queue_t
    listHead,     \* struct linked_list_t: first, last, size
    listNodes,    \* struct linked_list_node_t of every place
    listArrived,  \* how many values have been inserted
    listCursor    \* the iterator: the node that is next, and what it has given

listVars == <<listSorted, listHead, listNodes, listArrived, listCursor>>

\* A value is told from all others by when it was inserted.
ListValues == ListRank \X (1..MostArrivals)

NewNode(value) == [value |-> value, next |-> NoNode, previous |-> NoNode]
NoCursor == [next |-> NoNode, given |-> <<>>]

ListInit ==
    /\ listSorted \in BOOLEAN
    /\ listHead = [first |-> NoNode, last |-> NoNode, size |-> 0]
    /\ listNodes = <<>>
    /\ listArrived = 0
    /\ listCursor = NoCursor

\* The node at a position from one on, walking from the first; the walk may
\* leave the list, and then there is none.
NodeAt(k) ==
    LET walk[i \in 1..k] == IF i = 1 THEN listHead.first
                            ELSE IF walk[i - 1] = NoNode THEN NoNode
                            ELSE listNodes[walk[i - 1]].next
    IN  walk[k]

Places == [k \in 1..listHead.size |-> NodeAt(k)]
ListedValues == [k \in 1..listHead.size |-> listNodes[NodeAt(k)].value]

-----------------------------------------------------------------------------
\* create_linked_list_node
Created(value) ==
    LET free == ListNode \ DOMAIN listNodes
    IN  [node |-> Min(free),
         nodes |-> [n \in DOMAIN listNodes \cup {Min(free)} |->
                       IF n = Min(free) THEN NewNode(value) ELSE listNodes[n]]]

Link(nodes, from, field, to) ==
    IF from = NoNode THEN nodes
    ELSE IF field = "next" THEN [nodes EXCEPT ![from].next = to]
    ELSE [nodes EXCEPT ![from].previous = to]

\* append_linked_list
AppendNode(node, nodes) ==
    /\ listNodes' = IF listHead.size = 0 THEN nodes
                    ELSE Link(Link(nodes, listHead.last, "next", node),
                              node, "previous", listHead.last)
    /\ listHead' = [first |-> IF listHead.size = 0 THEN node ELSE listHead.first,
                    last |-> node, size |-> listHead.size + 1]

\* append_front_linked_list
AppendFrontNode(node, nodes) ==
    /\ listNodes' = IF listHead.size = 0 THEN nodes
                    ELSE Link(Link(nodes, listHead.first, "previous", node),
                              node, "next", listHead.first)
    /\ listHead' = [last |-> IF listHead.size = 0 THEN node ELSE listHead.last,
                    first |-> node, size |-> listHead.size + 1]

\* The links back are left as they are.
AppendIndexForward(node, nodes, index) ==
    IF index = listHead.size THEN AppendNode(node, nodes)
    ELSE LET next == NodeAt(index + 1)
             previous == nodes[next].previous
         IN  /\ listNodes' = Link(Link(nodes, node, "next", next), previous, "next", node)
             /\ listHead' = [listHead EXCEPT !.first = IF index = 0 THEN node ELSE @,
                                             !.size = @ + 1]

\* append_index_linked_list
AppendIndexNode(node, nodes, index) ==
    IF index = listHead.size THEN AppendNode(node, nodes)
    ELSE LET next == NodeAt(index + 1)
             previous == nodes[next].previous
         IN  /\ listNodes' = Link(Link(Link(Link(nodes, node, "next", next),
                                            node, "previous", previous),
                                       next, "previous", node),
                                  previous, "next", node)
             /\ listHead' = [listHead EXCEPT !.first = IF index = 0 THEN node ELSE @,
                                             !.size = @ + 1]

\* append_value_linked_list and what it is at the front or at an index.
AppendValue ==
    /\ ~listSorted /\ listArrived < MostArrivals
    /\ \E rank \in ListRank :
          LET c == Created(<<rank, listArrived + 1>>) IN
          \/ AppendNode(c.node, c.nodes)
          \/ AppendFrontNode(c.node, c.nodes)
          \/ \E index \in 0..listHead.size : AppendIndexNode(c.node, c.nodes, index)
    /\ listArrived' = listArrived + 1
    /\ UNCHANGED <<listSorted, listCursor>>

\* push_priority_queue: the values that come before the first that is greater.
PlaceOf(rank) == Cardinality({k \in DOMAIN ListedValues : \A j \in 1..k : ListedValues[j][1] <= rank})

PushQueue ==
    /\ listSorted /\ listArrived < MostArrivals
    /\ \E rank \in ListRank :
          LET c == Created(<<rank, listArrived + 1>>)
          IN  AppendIndexNode(c.node, c.nodes, PlaceOf(rank))
    /\ listArrived' = listArrived + 1
    /\ UNCHANGED <<listSorted, listCursor>>

-----------------------------------------------------------------------------
\* What the list ends in without the node.
LastWithout(node) ==
    LET next == listNodes[node].next IN
    IF next = NoNode THEN listNodes[node].previous
    ELSE IF listNodes[next].next = NoNode THEN next
    ELSE listHead.last

\* remove_linked_list, and delete_linked_list_node.
RemoveNode(node) ==
    LET n == listNodes[node]
        linked == Link(Link(listNodes, n.previous, "next", n.next), n.next, "previous", n.previous)
    IN  /\ listNodes' = [m \in DOMAIN listNodes \ {node} |-> linked[m]]
        /\ listHead' = [first |-> IF n.previous = NoNode THEN n.next ELSE listHead.first,
                        last |-> LastWithout(node), size |-> listHead.size - 1]

\* remove_value_linked_list, of any value or of one that is not in the list, and
\* remove_index_linked_list; not of the node that an iterator is about to visit.
RemoveValue ==
    /\ ~listSorted
    /\ \E k \in 1..listHead.size :
          /\ NodeAt(k) # listCursor.next
          /\ RemoveNode(NodeAt(k))
    /\ UNCHANGED <<listSorted, listArrived, listCursor>>

\* pop_value_linked_list and pop_top_value_linked_list; nothing is popped of a
\* list that is empty.
PopValue ==
    /\ listHead.size > 0
    /\ \E k \in IF listSorted THEN {1} ELSE {1, listHead.size} :
          /\ NodeAt(k) # listCursor.next
          /\ RemoveNode(NodeAt(k))
    /\ UNCHANGED <<listSorted, listArrived, listCursor>>

-----------------------------------------------------------------------------
(* sort_quicksort: from b on and before e, around the value at b.            *)
SwapValues(s, i, j) == [s EXCEPT ![i] = s[j], ![j] = s[i]]

RECURSIVE Partition(_, _, _, _)
Partition(s, b, left, right) ==
    IF left >= right THEN [s |-> s, left |-> left, right |-> right]
    ELSE IF s[left][1] <= s[b][1] THEN Partition(s, b, left + 1, right)
    ELSE Partition(SwapValues(s, left, right - 1), b, left, right - 1)

\* What goes before the value is not sorted.
RECURSIVE QuicksortRight(_, _, _)
QuicksortRight(s, b, e) ==
    IF e <= b + 1 THEN s
    ELSE LET p == Partition(s, b, b + 1, e)
             split == p.left - 1
         IN  QuicksortRight(SwapValues(p.s, split, b), p.right, e)

RECURSIVE Quicksort(_, _, _)
Quicksort(s, b, e) ==
    IF e <= b + 1 THEN s
    ELSE LET p == Partition(s, b, b + 1, e)
             split == p.left - 1
         IN  Quicksort(Quicksort(SwapValues(p.s, split, b), b, split), p.right, e)

\* sort_linked_list: the nodes stay and the values move between them.
SortList ==
    /\ ~listSorted /\ listCursor = NoCursor
    /\ LET sorted == Quicksort(ListedValues, 1, listHead.size + 1)
       IN  listNodes' = [n \in DOMAIN listNodes |->
              [listNodes[n] EXCEPT !.value = sorted[CHOOSE k \in DOMAIN Places : Places[k] = n]]]
    /\ UNCHANGED <<listSorted, listHead, listArrived, listCursor>>

\* create_iterator_linked_list and reset_iterator_linked_list
ResetIterator ==
    /\ ~listSorted
    /\ listCursor' = [NoCursor EXCEPT !.next = listHead.first]
    /\ UNCHANGED <<listSorted, listHead, listNodes, listArrived>>

Follows(node) == listNodes[node].next

\* get_next_iterator_linked_list: the node after is looked up before the value
\* is handed over, so that the node of the value may be removed.
GetNextIterator ==
    /\ listCursor.next # NoNode
    /\ listCursor' = [next |-> Follows(listCursor.next),
                      given |-> Append(listCursor.given, listNodes[listCursor.next].value)]
    /\ UNCHANGED <<listSorted, listHead, listNodes, listArrived>>

ListNext ==
    \/ AppendValue \/ PushQueue \/ RemoveValue \/ PopValue
    \/ SortList \/ ResetIterator \/ GetNextIterator

ListSpec == ListInit /\ [][ListNext]_listVars

-----------------------------------------------------------------------------
(***************************************************************************)
(* Properties                                                              *)
(***************************************************************************)
\* The list is the same from either end, and holds every node there is: none is
\* lost, and none that was released is reached.
LinkedBothWays ==
    /\ listHead.size = Cardinality(DOMAIN listNodes)
    /\ Range(Places) = DOMAIN listNodes
    /\ \A k \in DOMAIN Places :
          LET n == listNodes[Places[k]] IN
          /\ n.next = (IF k = Len(Places) THEN NoNode ELSE Places[k + 1])
          /\ n.previous = (IF k = 1 THEN NoNode ELSE Places[k - 1])
    /\ listHead.size > 0 => listHead.last = Places[listHead.size]

\* An iterator gives no value twice and those that are still in the list in the
\* order of it, whatever is inserted and removed meanwhile, and never stands on
\* a node that has been released.
IteratesInOrder ==
    /\ IsInjective(listCursor.given)
    /\ listCursor.next # NoNode => listCursor.next \in DOMAIN listNodes
    /\ \A i, j \in DOMAIN listCursor.given : \A k, l \in DOMAIN ListedValues :
          listCursor.given[i] = ListedValues[k] /\ listCursor.given[j] = ListedValues[l] =>
              (i < j <=> k < l)

\* The values of the queue are in the order of what they compare as, and those
\* that compare alike in the order that they came in.
QueueIsStable ==
    listSorted => \A k \in 1..Len(ListedValues) - 1 :
        \/ ListedValues[k][1] < ListedValues[k + 1][1]
        \/ ListedValues[k][1] = ListedValues[k + 1][1] /\ ListedValues[k][2] < ListedValues[k + 1][2]

\* The list implements a sequence.
Sequence ==
    INSTANCE ListSequence WITH ListValue <- ListValues, sequence <- ListedValues
ImplementsASequence == Sequence!SequenceSpec

\* The links, an iterator over them and the order of a queue hold through every change.
ListIsSound ==
    LinkedBothWays /\ IteratesInOrder /\ QueueIsStable
=============================================================================
