--------------------------- MODULE Http2Priority ---------------------------
(***************************************************************************)
(* The life of the dependency tree alone: the streams that a peer opens,   *)
(* moves and closes, and the ones the server promises.  Everything else of *)
(* the session is in module Http2Session, which uses the same operators.   *)
(***************************************************************************)
EXTENDS Http2Tree

CONSTANTS
    StreamId,     \* the identifiers in use, odd: of the peer, even: promised
    Slots,        \* HTTP2_STREAM_SLOTS
    EnablePush,   \* whether the peer accepts promises
    NamedIdle     \* the streams that the peer names while they are still idle

ASSUME StreamIdAssumption == StreamId \subseteq Nat \ {0}
ASSUME SlotsAssumption == Slots \in Nat \ {0}
ASSUME PeerAssumption == EnablePush \in BOOLEAN /\ NamedIdle \subseteq StreamId

VARIABLES
    live,           \* the streams held in the table
    dependency,     \* priority.dependency of every slot in use, 0 otherwise
    lastStreamId,   \* last_stream_id
    pushStreamId    \* push_stream_id

vars == <<live, dependency, lastStreamId, pushStreamId>>

TypeOK ==
    /\ live \subseteq StreamId
    /\ dependency \in [StreamId -> StreamId \cup {0}]
    /\ lastStreamId \in StreamId \cup {0}
    /\ pushStreamId \in StreamId \cup {0}

Init ==
    /\ live = {}
    /\ dependency = [s \in StreamId |-> 0]
    /\ lastStreamId = 0
    /\ pushStreamId = 0

CanOpen(s) ==
    /\ s % 2 = 1
    /\ s > lastStreamId
    /\ Cardinality(live) < Slots

\* What a peer may write in the dependency of a priority.
MayName(d) ==
    d \in NamedIdle \/ d <= (IF d % 2 = 0 THEN pushStreamId ELSE lastStreamId)

\* HEADERS with no priority: the stream hangs from the root.
Open(s) ==
    /\ CanOpen(s)
    /\ live' = live \cup {s}
    /\ lastStreamId' = s
    /\ UNCHANGED <<dependency, pushStreamId>>

\* HEADERS that carry a priority.  One that names the stream itself is a
\* connection error, the stream has been opened by then and keeps the root.
OpenUnder(s, d, exclusive) ==
    /\ CanOpen(s)
    /\ d = s \/ MayName(d)
    /\ live' = live \cup {s}
    /\ lastStreamId' = s
    /\ dependency' = IF d = s THEN dependency
                     ELSE Prioritise(dependency, live \cup {s}, s, d, exclusive)
    /\ UNCHANGED pushStreamId

\* PRIORITY: one for a stream that is not open is dropped, and one that names
\* the stream itself is an error that changes nothing.
Move(s, d, exclusive) ==
    /\ s \in live
    /\ d # s
    /\ MayName(d)
    /\ dependency' = Prioritise(dependency, live, s, d, exclusive)
    /\ UNCHANGED <<live, lastStreamId, pushStreamId>>

\* A promise on s: the promised stream is placed under s by an assignment.
Push(s) ==
    /\ EnablePush
    /\ s \in live
    /\ Cardinality(live) < Slots
    /\ pushStreamId + 2 \in StreamId
    /\ pushStreamId' = pushStreamId + 2
    /\ live' = live \cup {pushStreamId + 2}
    /\ dependency' = [dependency EXCEPT ![pushStreamId + 2] = s]
    /\ UNCHANGED lastStreamId

Close(s) ==
    /\ s \in live
    /\ dependency' = Orphaned(dependency, live, s)
    /\ live' = live \ {s}
    /\ UNCHANGED <<lastStreamId, pushStreamId>>

Next ==
    \/ \E s \in StreamId : Open(s) \/ Push(s) \/ Close(s)
    \/ \E s \in StreamId, d \in StreamId \cup {0}, exclusive \in BOOLEAN :
            OpenUnder(s, d, exclusive) \/ Move(s, d, exclusive)

Spec == Init /\ [][Next]_vars

-----------------------------------------------------------------------------
\* The streams above s, by the closure of the dependencies instead of a walk.
Parents(dep, up, X) == {dep[x] : x \in X \cap up} \cap up
Ancestors(dep, up, s) ==
    LET above[n \in 0..Cardinality(up)] ==
            IF n = 0 THEN {}
            ELSE LET X == above[n - 1] IN X \cup Parents(dep, up, X \cup {s})
    IN  above[Cardinality(up)]

\* No open stream sits below itself, whatever sequence of openings, moves and
\* closings built the tree: what prioritise_stream and close_stream promise.
Acyclic == \A s \in live : s \notin Ancestors(dependency, live, s)

\* Whatever streams hold payload that their windows let through, one of them
\* is not blocked by another: _schedule always has a stream to write for.
SomeStreamMayWrite ==
    \A holding \in SUBSET live :
        holding # {} => \E s \in holding : ~Blocked(dependency, live, s, holding)

\* Closing a stream takes it, and nothing else, from above the ones that stay.
ClosingKeepsTheShape ==
    \A s \in live :
          (Close(s) /\ live' # live) =>
             \A x \in live' : Ancestors(dependency', live', x)
                                = Ancestors(dependency, live, x) \ {s}

\* A move carries the stream and what hangs from it, and leaves the streams
\* above the place it moves to where they were, unless that place was below it.
MovingKeepsTheShape ==
    \A s \in live, d \in live :
          (/\ Move(s, d, FALSE)
           /\ s \notin Ancestors(dependency, live, d)) =>
             /\ Ancestors(dependency', live, s)
                  = {d} \cup Ancestors(dependency, live, d)
             /\ \A x \in live : s \notin Ancestors(dependency, live, x) /\ x # s
                    => dependency'[x] = dependency[x]

\* The dependencies stay a tree, in which some stream may always write.
TreeIsSound ==
    TypeOK /\ Acyclic /\ SomeStreamMayWrite

\* No closing and no move disturbs the streams that it is not about.
ShapeIsKept == [][ClosingKeepsTheShape /\ MovingKeepsTheShape]_vars
=============================================================================
