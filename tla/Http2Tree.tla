----------------------------- MODULE Http2Tree -----------------------------
(***************************************************************************)
(* The dependency tree of the streams of an HTTP/2 session.  The session   *)
(* keeps no tree: every open stream only names the stream it depends on    *)
(* (0 is the root), so every question about the tree is a walk up those    *)
(* names.  live is the set of open streams, dep[s] the stream that s       *)
(* depends on, which may no longer be open, or not be open yet.            *)
(***************************************************************************)
EXTENDS Naturals, FiniteSets

\* The streams that a walk up from id visits, id itself first.  The walk of
\* the code is bounded by the number of open streams and ends at the root or
\* at a stream that is not open.
Walk(dep, live, id) ==
    LET up[n \in 0..Cardinality(live)] ==
            IF n = 0 THEN id
            ELSE IF up[n - 1] \in live THEN dep[up[n - 1]] ELSE 0
    IN  up

\* Whether the walk that starts at id meets ancestor before it ends.
Descends(dep, live, id, ancestor) ==
    \E n \in 0..(Cardinality(live) - 1) : Walk(dep, live, id)[n] = ancestor

\* The stream that s is placed under stays below it.
MutantPrioritise(dep, live, s, d, exclusive) ==
    LET adopted == {x \in live \ {s} : exclusive /\ dep[x] = d}
    IN  [x \in DOMAIN dep |-> IF x = s THEN d
                              ELSE IF x \in adopted THEN s ELSE dep[x]]

\* The dependencies once s, an open stream, has been placed under d.
Prioritise(dep, live, s, d, exclusive) ==
    LET lifted == IF Descends(dep, live, d, s)
                  THEN [dep EXCEPT ![d] = dep[s]] ELSE dep
        adopted == {x \in live \ {s} : exclusive /\ lifted[x] = d}
    IN  [x \in DOMAIN dep |-> IF x = s THEN d
                              ELSE IF x \in adopted THEN s ELSE lifted[x]]

\* What hung from s keeps the name of a stream that is gone.
MutantOrphaned(dep, live, s) == [dep EXCEPT ![s] = 0]

\* The dependencies once s has been closed: what hung from s hangs from the
\* stream that s hung from, and the slot of s no longer names anything.
Orphaned(dep, live, s) ==
    [x \in DOMAIN dep |-> IF x = s THEN 0
                          ELSE IF x \in live /\ dep[x] = s THEN dep[s]
                          ELSE dep[x]]

\* Whether a stream above s is holding writable payload back: the tree then
\* gives the window to that one.  holding is the set of the open streams with
\* pending fragments and a send window that is not exhausted.
Blocked(dep, live, s, holding) ==
    \E n \in 1..Cardinality(live) : Walk(dep, live, s)[n] \in holding
=============================================================================
