--------------------------- MODULE MCHttp2Session ---------------------------
(***************************************************************************)
(* Instances of Http2Session for TLC: the frames that a peer sends and the *)
(* responses that the handlers give, one alphabet for each question.       *)
(***************************************************************************)
EXTENDS Http2Session

F(type, s) == [type |-> type, stream |-> s, size |-> 0, end |-> FALSE,
               endHeaders |-> TRUE, announced |-> FALSE, valid |-> TRUE,
               priority |-> FALSE, dependency |-> 0, weight |-> 16,
               exclusive |-> FALSE]

Get(s)          == [F("HEADERS", s) EXCEPT !.end = TRUE]
GetUnder(s, d)  == [Get(s) EXCEPT !.priority = TRUE, !.dependency = d,
                                  !.weight = 200]
Post(s, n)      == [F("HEADERS", s) EXCEPT !.announced = TRUE, !.size = n]
Body(s, n, end) == [F("DATA", s) EXCEPT !.size = n, !.end = end]
Open(frame)     == [frame EXCEPT !.endHeaders = FALSE]
Broken(frame)   == [frame EXCEPT !.valid = FALSE]
Update(s, n)    == [F("WINDOW_UPDATE", s) EXCEPT !.size = n]
Settings(n)     == [F("SETTINGS", 0) EXCEPT !.size = n]
Depend(s, d, e) == [F("PRIORITY", s) EXCEPT !.dependency = d, !.exclusive = e]

R(kind, body)   == [kind |-> kind, body |-> body, push |-> 0, cut |-> FALSE]
Pushing(r, n)   == [r EXCEPT !.push = n]
Cut(r)          == [r EXCEPT !.cut = TRUE]

-----------------------------------------------------------------------------
TwoStreams == {1, 3}
FlowStreams == {1, 2, 3}

\* Flow control: windows of the connection and of two streams, settings that
\* shrink and grow them, a stream taken back; a page promises another stream,
\* which is served in turn.
FlowFrames == {Get(1), Get(3), F("RST_STREAM", 1), Settings(0), Settings(3),
               Update(0, 2), Update(1, 1), Update(3, 2)}
FlowResponses == {Pushing(R("page", <<3>>), 1), R("file", <<2, 1>>)}

\* Messages with a body: announced sizes, continuations, refusals, errors.
BodyFrames == {Post(1, 1), Open(Post(3, 0)), F("CONTINUATION", 3),
               Body(1, 1, FALSE), Body(1, 0, TRUE), Body(3, 1, TRUE),
               Body(1, 3, FALSE), F("RST_STREAM", 3), Update(0, 1)}
BodyResponses == {R("page", <<1>>), R("head", <<>>)}

\* A peer that gives credit, and every kind of frame, the illegal ones included,
\* for the liveness of the responses and of the errors.
LiveFrames == {Get(1), GetUnder(3, 1), Update(0, 1), Update(1, 1), Update(3, 1),
               GetUnder(1, 1), Broken(Open(Get(3))), F("CONTINUATION", 3),
               F("MALFORMED", 0), F("OVERSIZED", 0), F("PING", 0),
               F("GOAWAY", 0), Settings(9), Update(1, 9), Update(0, 9),
               Depend(1, 3, TRUE), F("RST_STREAM", 1)}
LiveResponses == {R("page", <<2>>), R("file", <<1, 1>>), R("head", <<>>)}

-----------------------------------------------------------------------------
\* The instances below are those of the findings.
StaleFrames == {Get(1), F("MALFORMED", 0), F("RST_STREAM", 1)}
HeadResponses == {R("head", <<>>)}

=============================================================================
